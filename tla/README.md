# KeepTower in TLA+

KeepTower is a GTK password manager in C++. A vault is one encrypted file; a V2
vault has several users, each with a key slot in the file's header that holds the
data-encryption key (DEK) wrapped under that user's password and, if enrolled, a
YubiKey. These modules model the logic that keeps a vault openable, its file
whole, its accounts the ones that were edited and its secrets behind a login.
Paths below are relative to the repository; `core/`, `lib/`, `ui/` and `utils/`
are directories of its `src/`.

## Inventory

| Component | Code | State | Operations | Interacts through | What makes it correct |
|---|---|---|---|---|---|
| Users, passwords, key slots | `core/VaultManager*.cc`, `core/services/{KeySlotManager,PasswordManagementService,V2AuthService,SecurityPolicyService,UserProvisioningService,YubiKeyEnrollmentService}.cc`, `core/PasswordHistory.cc` | `m_v2_header` (policy, slots), `m_current_session`, `m_modified`, the header in the file | create, open, close, save, add, remove, reset, change password, clear history, enroll, unenroll, update policy, migrate username hash, re-authenticate | called by dialogs; saves through storage | an administrator remains; a session has a slot; no user is locked out or hidden; factors are whole or absent |
| Saving, backups, restoring | `VaultManager::save_vault`, `core/services/VaultFileService.cc`, `lib/storage/VaultIO.cc`, `lib/backup/VaultBackupPolicy.cc` | `m_vault_data`, `m_modified`, the file, its `.tmp`, its backups | save, edit-and-save with rollback, migrate at opening, restore | file system | a save happens as a whole or not; a clean vault is the stored one; what a save replaces is backed up |
| Accounts, undo history, window | `ui/windows/MainWindow.cc`, `ui/managers/{AccountEditHandler,AutoLockHandler,VaultIOHandler}.cc`, `ui/coordinators/*.cc`, `core/commands/*.h`, `core/managers/AccountManager.cc` | accounts, selected index, detail pane, undo and redo stacks, open dialogs | select, type, add, delete, favorite, undo, redo, import, save, close, lock, open and create, also over an open vault | callbacks between widgets, commands and VaultManager | indices keep meaning the account they were taken for; nothing typed lands elsewhere; undo keeps what it removes |
| Saving an account | `MainWindow::save_current_account`, `core/services/AccountSaveService.cc`, `ui/widgets/AccountDetailWidget.cc` | detail pane, privacy controls, password history, settings | save, select, generate, log in, close | GSettings, VaultManager | remembered passwords do not return; protected accounts stay; what looks saved is saved |
| Account list | `ui/controllers/AccountViewController.cc`, `ui/widgets/AccountTreeWidget.cc` | a copy of the accounts, filters, rows | refresh, search, filter, sort, drop | idle callbacks, drop-downs, permissions | rows are of this vault and this user; none is missing |
| Groups | `core/managers/GroupManager.cc`, `core/services/GroupService.cc`, `ui/managers/GroupHandler.cc` | groups, memberships, orders | create, delete, rename, reorder, join, leave, favorites | save with rollback, undo's copies, dialogs | names and ids distinct; memberships refer to groups; all or nothing |
| Asynchronous calls | `*_async` in `core/VaultManagerV2.cc`, `core/controllers/VaultCreationOrchestrator.cc`, `core/services/VaultYubiKeyService.cc` | threads, idle callbacks, prompts | create, change password, enroll | the shared VaultManager, the YubiKey | every call ends; what a vault asks for is on a key |
| YubiKey access | `lib/yubikey` | mutex, cached path, open device, loaded credential | present, info, create, challenge | USB | devices are used under the mutex |
| Login, logout, user dialogs | `ui/managers/{V2AuthenticationHandler,UserAccountHandler,VaultOpenHandler}.cc`, `ui/dialogs/UserManagementDialog.cc`, `ui/coordinators/VaultUiCoordinator.cc` | stack of dialogs, target path, pending requirement | log in, forced change, enrollment, cancel, log out, switch user, close, lock | VaultManager, timers | the window shows what is open; no requirement is skipped |
| Auto-lock and clipboard timers | `ui/controllers/{AutoLockManager,ClipboardManager}.cc` | timers, preservation | start, reset, fire, clear | window, dialogs | an unattended vault is locked, a copied secret cleared |
| Preferences | `ui/dialogs/preferences`, `core/VaultRuntimePreferences.h` | settings, vault metadata, what is in force | load, edit, apply, cancel | GSettings, VaultManager | one vault's preferences are not in force in another |
| Vault format, error correction | `lib/vaultformat`, `lib/fec`, `core/MultiUserTypesSerDe.cc` | none | serialize, parse, encode, decode | storage, login | damage is corrected, refused, or harmless |
| Import and export | `utils/import_export`, `ui/managers/VaultIOHandler.cc`, `ui/controllers/flows` | dialogs, files | re-authenticate, parse, write | accounts | what a format carries survives |
| Key derivation, wrapping, name hashes | `lib/crypto` | none | derive, wrap, hash | OpenSSL, Argon2 | the same input gives the same key |
| Manual order of accounts | `core/managers/AccountManager.cc` | display orders | reorder, reset | | a permutation |
| Other | `ui/controllers/ThemeController.cc`, `ui/managers/{Dialog,Menu}Manager.cc`, `lib/fips`, `utils/PasswordGenerator.cc` | presentation, a provider | | | |

What is hard here: long sequences of legal calls (four lookup passes over slots with
the marks of several migrations; indices in commands while the list changes), steps
of a save that fail or are the last before a crash, callbacks that see another vault
than the one they were made for, the lock timer that fires under any dialog, and
detached threads that use a YubiKey and the shared header while the main loop goes
on. `PROJECT.json` lists each hazard at its line.

## Modules

| Module | Models |
|---|---|
| `KeySlots` | the slot table as data: the policy, keys and hashes by what they were made from, the lookup's passes, and the slot each service leaves behind. Constant-level. |
| `VaultUsers` | the user side of VaultManager: one action per service call, on `header` (`m_v2_header`), `session`, `modified` and `disk` (the header in the file) |
| `VaultRegister`, `VaultStore` | what saving promises, and how it does it, step by step, with failures of each step, crashes, power failures and restores |
| `AccountEditor` | the main window: list, detail pane, commands and their history, deletion and closing questions, the lock, and a vault that is opened or created over an open one |
| `AccountSave` | one account's save: validation, permission, history, and the pane after a refusal or another login |
| `AccountList` | the tree beside the pane, and which operations refresh it |
| `Groups` | groups and memberships, with save and rollback, undo's copies and dialogs that outlive a vault |
| `Subsequences` | what a loop leaves of a list that keeps some of its elements, for `AccountList`, `Groups` and `TransferFormats` |
| `Fido2`, `Calls` | the YubiKey as threads share it; the asynchronous calls over it, next to the main loop |
| `Clipboard`, `LoginFlow` | the clipboard's operations; the way from a file to an open window and back, over it |
| `Preferences` | the defaults, the vault's metadata, what is in force, and the dialog's copy |
| `VaultFile` | sizes and blocks of the header, damage, and what login and save make of it |
| `TransferFormats`, `Transfer` | the three formats as functions; the dialogs of import and export over them |
| `VaultUsersProofs`, `VaultStoreProofs` (with `VaultFile`), `AccountEditorProofs`, `ListProofs` (`Groups` and `AccountList`), `TransferProofs` (over the lemmas of `ListProofs`), `SettingsProofs` (`Preferences` and `AccountSave`), `LoginFlowProofs`, `CallsProofs` | theorems |
| `MC...` | small instances |

How they fit: every module takes a save as one action, which is what `VaultStore`
shows of it (`SavesAtomically`); `VaultStore` takes header and accounts as one
image. `Calls` is composed of `Fido2`'s operations, `LoginFlow` of `Clipboard`'s,
`Transfer` of `TransferFormats`' functions, `VaultUsers` of `KeySlots`'. `AccountList`, `AccountSave`,
`Transfer` and `VaultFile` have names of their own for `Init`, `Next` and `Spec`, since a module
of proofs extends another component beside each. `LoginFlow`
knows of a session what it owes, `VaultUsers` why; `AccountEditor` has the indices,
`AccountSave` one account's contents, `AccountList` the rows.

Abstractions worth knowing:

- `KeySlots`: a key is the record of password, iterations and device it was derived
  from, and unwrapping succeeds with that key only; a username hash is user, algorithm
  and iterations. Salts are fresh and left out. `Slot.name` is kept in memory only;
  saving clears it. A removed user's slot is `Free` at once: the code never reads an
  inactive slot. A service that fails after the lookup still leaves its mark:
  `LookupOnly`. `Close` is also the end of the process.
- `VaultStore!survivors` is what the path may name after a power failure; `WriteBack`
  is the kernel writing it out.
- A vault may be opened over an open one. VaultManager replaces it at once (`open_vault_v2`); selection,
  pane, undo stacks and rows stay. When the login's requirements are met (`CompleteOpening`) the pane is
  saved into the new vault and the list refreshed; when they are refused (`GiveUp`) the new vault stays
  open under the old window; a login that fails (`LoginFails`) leaves none. So `AccountEditor`, `AccountSave`
  and `AccountList` have `window` (the coordinator's `vault_open`) beside the vault, and `pending`. What the
  program does not keep across this is told by history variables: `oldPane` and `stale` (the
  pane is of a vault that was open before), `oldHistory` (a command is), and `listed` (the list was
  refreshed for this vault, and no such pane saved since without a refresh).
- `AccountEditor`: an account is an id and one value for all its fields. The star is left out, its
  command is not: that changes nothing else of the list. Ids are seconds; an imported account has
  none. `Refused` are fields that are not accepted. The callback of an addition selects it unless
  a tag filter hides it, hence the choice in `Shown`. The pane may be changed without a selection or a vault.
- `AccountSave`: of an account only password, history and protection are told apart.
  `lapsed` is a history variable: accounts whose password changed with the history
  disabled, for which nothing is promised.
- `AccountList`: no order of rows, no group rows, two of seven searched fields (in the run, "all"
  only), search is equality. The drop-down's notification when it is refilled is GTK's.
- `Groups`: each operation with its save is one action; it saves and takes all, or fails
  and rolls back.
- `Calls`: a thread works on the slot that was there when it began. `moved` says that the
  header was since closed, replaced or its slots reallocated; a thread whose slot moved
  reads and writes what is there now, or nothing.
- `LoginFlow`: dialogs are a stack, the newest is answered first; the question about
  unsaved changes runs the main loop, so timers, idle callbacks and the end of an
  enrollment come at any moment. Messages with only an OK, file choosers, and roles are
  left out. `careful` is a history variable: whether the user opened one vault at a time
  and let a logout happen.
- `Preferences`: a scoped preference is one number. Redundancy is on or off. A vault is created in two
  steps, since with a YubiKey it is asynchronous: the hash is chosen at the first, the defaults applied at
  the last.
- `VaultFile`: sizes are the real ones, in bytes; the contents of a field are right or
  wrong. At most one accident between two saves, never while a vault is open. More than
  16 damaged bytes in a block are taken as uncorrectable.
- `TransferFormats`: a text is a sequence of `Chars`, which has at least the characters that a
  format treats specially; the end of an entity, the word that marks an address, and the 1PIF
  separator count as one. A key of 1PIF is searched for as a run between quotation marks anywhere in
  what is written before it. The run's `Chars` adds `x` and two keys. A file that a full disk cut ends in a
  piece of an account (`Torn`): any part of a CSV line, nothing of an unclosed XML entry, the
  complete fields of a 1PIF record, which its reader does not need the end of.

## Runs

Every run explores its instance to the end and passes.

| Run | Question | Bounds, and why they are enough |
|---|---|---|
| `VaultUsers_passwords` | Do administrators, sessions, histories and the modified flag stay consistent, and can everybody log in? | two users, three passwords, three slots, history of two: the third password forces the history to drop one, the third slot is there for a name added twice |
| `VaultUsers_devices` | Is a user's second factor ever half there, does the lookup keep finding users, and do session and re-authentication agree with the slots? | two users, a key, a requirement that is imposed, or algorithms 1, 2 and 3 in the documented order, the second migration also starting before the first has ended; under its policy no password is long enough, so users are added, reset and changed under the others only |
| `VaultStore_saves` | Is saving atomic, and is what it replaces backed up? | two contents, migrating or not, two backups kept and three ever made, so that one is trimmed; power failures |
| `AccountEditor_commands` | Do indices, pane and history keep fitting the accounts? | one vault, opened and created anew over itself, which is another to the window, two accounts, a history of two: enough for each pair of commands to be undone and redone over each other |
| `AccountSave_roles` | Do histories and protections survive refused saves and changed settings? | two files, one place for an account, which a file may lack, two passwords, limits 1 and 2, logins of either role over each other: the second file is another vault's pane, the limit below the second password's drops one |
| `AccountList_views` | Are rows ever stale, another's, or missing? | two accounts, the first perhaps for administrators, one searched name that is also a tag, so that both fields match |
| `Groups_edits` | Are names, memberships and rollback consistent? | two groups at a time of three ids, "favorites" and another name, two accounts and one kept by undo, orders automatic or 0 |
| `Calls_threads` | Are devices shared safely, does every call end, and is every credential on a key? | two calls (creation or enrollment, change or enrollment) and the main thread, one key and port: each pair of kinds meets |
| `LoginFlow_sessions` | Does the window show what is open, is nothing skipped, are vaults locked and secrets cleared? | two vaults, one user, no bound on dialogs but modality |
| `Preferences_vaults` | Do preferences stay with their vault? | two vaults, a preference of each kind with its intervals, two backup settings, three changes in a dialog |
| `VaultFile_damage` | What does damage to each part of the file do? | two users, one with Argon2id, a history entry, redundancies 5 and 50; a length off by each amount that ends a slot at a field, one less and one more |
| `Transfer_formats` | What survives an export and an import? | one account with any text of two special characters or a longer one in which escapes, keys or the separator meet, or two such accounts; cut anywhere in either |

Deadlock is checked but in three runs. A session of `LoginFlow` may end for good when the
user left, `Calls` makes a bounded number of calls, and in `VaultUsers_devices` a closed
vault whose only user has no password that decrypts his PIN is never opened again.

Symmetry is used in runs without liveness where values are only compared for equality:
users, passwords, contents, files, group ids, accounts.

Bounds in the guards: `MaxSlots` (32 in the program), `MaxBackupFiles`, `MaxClock`, `MaxAccounts`,
`MaxImported`, `Cut`, `MaxListed`, `MaxGroups`, `MaxOrder`, `MaxEdits`, `MaxHistory`, `MaxDamages`,
`Later`. The proofs hold for all their values. In `LoginFlow` the question whether to switch the user is
answered Yes only while the window shows a vault.

## Fairness

- `LoginFlow`: weak fairness of the timers and idle callbacks (GLib's main loop dispatches a
  source that stays ready, also under modal dialogs, which do not block it) and of the end of
  an enrollment's thread. None of any user action: `Leave` is what makes liveness matter, and
  `UnattendedIsLocked` and `SecretsAreCleared` speak of what follows it.
- `Calls`: weak fairness of a thread's own steps (the scheduler), strong fairness of steps that
  need the mutex (`std::mutex` is not fair, but every holder releases it after an operation that
  libfido2 ends after its own timeout, and the model needs that some waiter is not passed
  for ever), strong fairness of the idle callbacks, which wait while the main thread itself
  waits for the mutex. A touch may always fail: nothing says that the user touches the key.

## Properties

- Users: `AdminRemains`, `SessionBacked`, `SessionFlagsAgree`, `CleanMeansSaved`,
  `EveryUserCanLogIn`, `HistoryEndsWithCurrent`, `NoHiddenFactor`, `EnrolledNeedsDevice`,
  `LookupFindsUsers`, `ReauthAgreesWithLogin`; `StandardUsersTouchOnlyThemselves` and
  `OnlyOwnerMigrates` say what a step may not do.
- Storage: `CleanMeansStored`, `PreviousKept`, and `SavesAtomically`: `VaultStore` implements
  `VaultRegister`, the vault being edited being `call.undo` until the rename of an edit-and-save.
- Accounts: `PaneShowsSelection`, `PendingEditsStay`, `HistoryApplies`, `UndoKeepsRemoved`;
  `NoPasswordReused`, `UnmodifiedShowsSaved`, `GuardedStays`; `RowsAreOfTheVault`,
  `EverythingIsListed`; `GroupsAreDistinct`, `OnlyUndoDangles`, `AllOrNothing`.
- Threads: `DeviceUnderMutex`, `EnrolledKeyExists`, and `EveryCallEnds` (liveness).
- Sessions: `WindowShowsVault`, `CarefulChangeFirst`, and `UnattendedIsLocked`,
  `SecretsAreCleared` (liveness); `PreferencesBelongToVault`, `BackupsFollowVault`.
- Data: `OnlyTheLastSlotSuffers`, `UsersStayInTheFile`, `CarriedSurvive`, `OneRecordPerAccount`.

What some of them leave out, because the program does not keep it (see below): `PaneShowsSelection`,
`PendingEditsStay`, `HistoryApplies` and `UnmodifiedShowsSaved` say nothing of what is left on the screen
or in the history of a vault that another was opened over (`oldPane`, `oldHistory`, `stale`), and the two
of `AccountList` nothing until the list was refreshed for the vault that is open (`listed`).
`CarriedSurvive` speaks of the accounts that `Carries` describes, whatever the others are, and of a file
cut anywhere; `OneRecordPerAccount` of 1PIF records without the separator and of CSV fields without line
breaks.

Each has a mutant in `PROJECT.json`: an operator beside the one it changes, named after it,
which breaks it as a plausible mistake in that code would.

## Disagreements

Where code and its docs disagree, the models do what the code does; the properties
claim only what it keeps. Each of these was met while modelling; no run is spent on
showing it. Places are in parentheses.

Users and saving
- A PIN is re-encrypted under a key that already needs the YubiKey (`PasswordManagementService.cc:303`;
  the comment at `:297` says "before YubiKey combination"), so an enrolled user who changes his
  password cannot log in again. `EveryUserCanLogIn` is therefore checked without devices.
- A username migration saves the vault at login before its data is loaded (`VaultManagerV2.cc:472`
  and `:482`): until the next save the file has no accounts. That save also comes before the vault's
  own backup policy is loaded (`:486`), and so makes backups, or none, as the vault before wanted it.
- The temporary file is not synced before the rename (`VaultFileService.cc:150`; `VaultFileService.h:62`
  and `:66` say so): after a power failure the path may name a torn vault. Restoring takes the newest
  backup even if it is torn (`VaultIO.cc:348`). Backups are named by local time (`VaultIO.cc:291`): in an
  hour that repeats, the newest is trimmed as the oldest, hence `~ClockRepeats` in `PreviousAlwaysKept`.
- A policy with another iteration count locks users out, and a policy that returns to an earlier
  algorithm hides them (`SecurityPolicyService.cc:21`, `KeySlotManager.cc:39`; `VaultManager.h:944`).
  Users added during a migration are not found by it. A minimum length under 8 is stored and
  refused at the next opening (`SecurityPolicyService.cc:17`).
- The transient mark 0xFF reaches the file (`MultiUserTypes.h:766`). A user added with a PIN has a
  PIN without a device (`UserProvisioningService.cc:212`; the dialogs pass none). A forced change accepts the
  temporary password (`PasswordManagementService.cc:142`). A history depth of 0 that is raised again
  leaves a history that lacks the current password.

Accounts
- Redo of a deletion deletes by the old index although undo appended (`AccountCommands.h:185`, `:141`).
  A favorite toggled after a save does not mark the vault modified (`:382`).
- The lock's forced logout goes through the question that has a Cancel button
  (`AutoLockHandler.cc:139`, `:137`). Opening a vault over an open one writes the old pane into the
  new vault (`VaultUiCoordinator.cc:239`; `docs/user/03-user-guide.md:47`), and keeps selection and undo
  stacks, whose indices mean other accounts there or none (`:245-300`; `VaultUiCoordinator.h:77` has a
  callback "to clear undo history when switching vaults", which closing calls only). After a refused requirement
  the list of the old vault stays with the new session (`V2AuthenticationHandler.cc:141-177`).
- A refused save shows the refused fields as the account's (`MainWindow.cc:1027-1033`). A tag's remove
  button works on a read-only pane. The dialog sets the vault's history limit, saving reads
  GSettings (`PreferencesPresenter.cc:240`, `MainWindow.cc:1018`), and 1 to 20 are accepted where the guide
  says 0 to 24.
- The list filters by permission twice, so a standard user misses accounts after an admin-only one
  (`AccountViewController.cc:170`, `.h:184`). Its tag drop-down offers the tags of accounts the user may
  not see.
- A group "Favorites" of the user's can exist beside the system's (`GroupManager.cc:270`); memberships of
  a deleted group return by undo (`GroupManager.h:78`); two groups may share an order (`:102`).
- Moving the first of two accounts down changes nothing (`AccountManager.cc:84`; `AccountManager.h:138`).

Sessions, threads, preferences
- A cancelled forced change reports the vault closed and leaves it open (`V2AuthenticationHandler.cc:172`,
  `MultiUserTypes.h:590`). After a login over an open vault the window then works with that session:
  `CarefulChangeFirst` is what remains.
- A cancelled question at closing leaves the lock's timer stopped, and has already consumed the
  preservation of a temporary password (`UserManagementDialog.cc:560`). Clearing wipes whatever the
  clipboard holds by then, another program's text too.
- A call that waits for a touch works on a slot that closing or adding a user may have reallocated
  (`VaultManager.h:570`). The orchestrator is destroyed while its thread works with it
  (`VaultManagerV2.cc:252`). A finished creation replaces a vault opened meanwhile.
- `YubiKeyManager::initialize` sets its flag before `fido_init` (`YubiKeyManager.cc:63-75`).
- `sync_from_vault_metadata` has no caller (`VaultRuntimePreferences.h:180`): stored preferences are not
  in force after reopening, and the next Apply overwrites them. Backup settings equal to those in force
  are not stored in a new vault (`VaultManager.cc:785`).

Files
- The header's correction is 16 bytes per block of 255 whatever redundancy is set
  (`VaultFormatV2.h:34`, `ReedSolomon.cc:89`), and the data has none (`VaultFormatV2.h:37`). Fields before
  the blocks are not protected: a damaged original size silently cuts the last slot, and the next
  save keeps it so; a redundancy over 50 throws through the check made before the login dialog.
- Old slots of 131 bytes are not upgraded (`MultiUserTypes.h:404`).
- CSV unescapes twice and splits quoted line breaks (`docs/user/03-user-guide.md:307`); XML undoes a
  literal `&quot;` twice; 1PIF loses `{`, and drops accounts without a name. It also searches for `"url"`
  and `"notesPlain"` in the text of the values before them (`ImportExport1Password1pif.cc:203`), where a
  name that ends in a quotation mark and `url` has it, and drops a record in which some text contains the
  separator (`:21`). An export that a full disk ends leaves a part of a record, of which an import makes
  an account. Between the authentication for an export and the file chooser's answer another vault may be
  opened, whose accounts are then written (`VaultIOHandler.cc:172`).

## Proofs

Checked for all values of the constants, under the assumptions each module names.

| Theorem | Says | Assumes |
|---|---|---|
| `VaultUsersProofs` `TypeCorrect` | types of header, session and file | |
| `AdminAlwaysRemains`, `SessionAlwaysBacked`, `NeverHiddenFactor`, `CleanAlwaysSaved`, `MigratedAlwaysCurrent` | the invariants of that name; a slot marked Migrated has the policy's current algorithm | |
| `EnrolledAlwaysNeedDevice` | | `NoPinWithAdd` |
| `HistoryAlwaysEndsWithCurrent` | | `Remembering` |
| `StandardUsersKeepToThemselves`, `OnlyOwnersMigrate` | two action properties | |
| `LookupAlwaysFinds` | the lookup finds every user, whatever migrations began and ended | `SearchableHash`: no policy has the legacy hash, and none changes the iterations of PBKDF2 hashes |
| `FlagsAlwaysAgree` | sessions and slots agree | `SteadyHash` |
| `ReauthAlwaysAgrees` | | `SteadyHash`, `NoPinWithAdd` |
| `VaultStoreProofs` `TypeCorrect`, `CleanAlwaysStored`, `OnlyRestoringTears` | a clean vault is the stored one; the file is torn only by a restore or a power failure | |
| `PreviousAlwaysKept` | what a save replaced is in a backup | `~ClockRepeats` |
| `SavingIsAtomic` | `VaultStore` implements `VaultRegister` | |
| `FileTypeCorrect`, `OnlyTheLastSlotEverSuffers`, `UsersAlwaysStay` | whatever damage a file takes, what can be read of it has all users, and all slots but the last as they were | |
| `AccountEditorProofs` `TypeCorrect`, `PaneAlwaysShows`, `PendingAlwaysStays` | the pane shows the selected account; pending edits stay | |
| `HistoryAlwaysApplies`, `UndoKeepsWhatItRemoves` | what can be undone or redone finds its index; what undo takes away, redo has as it was | |
| `ListProofs` `GroupsAlwaysDistinct`, `OnlyUndoEverDangles`, `AlwaysAllOrNothing` | names and ids of groups; memberships of groups that are gone; rollback | |
| `RowsAlwaysOfTheVault`, `EverythingAlwaysListed` | rows are of this vault and this user; none is missing | |
| `TransferProofs` `EveryFormatReadsBack` | what reading makes of what writing wrote: every account that the format carries, unchanged, and as many as are counted | |
| `TornFilesReadBack` | the same of a file that was cut off: what is before the cut is read as if it were whole, and of the rest at most one account is made | |
| `TheFileIsAlwaysOfAccounts`, `CarriedAccountsSurvive`, `OneAccountForEach` | so it is with the file and the vault, whatever is opened, closed, exported, cut short and imported | |
| `SettingsProofs` `TypeCorrect`, `PreferencesAlwaysBelong`, `BackupsAlwaysFollow` | preferences and backup settings are the open vault's | |
| `SaveTypeCorrect`, `PasswordsNeverReused`, `UnmodifiedAlwaysSaved`, `GuardedAlwaysStays` | of `AccountSave`: histories, what looks saved, protections | |
| `LoginFlowProofs` `TypeCorrect`, `WindowAlwaysShows`, `ChangeAlwaysFirst`, `SecretsAlwaysTimed` | window and session; a forced change is not skipped by a careful user; a copied secret has a timer that clears it | |
| `CallsProofs` `TypeCorrect`, `DevicesUnderMutex`, `EnrolledKeysExist` | one user of a device at a time; a slot asks only for credentials on a key | |

The arguments:

- `VaultUsers`. The properties speak of one slot and of all of them, so every operation on one slot
  is shown to be an `EditStep`: the slot stays sound, its status never becomes Migrated, it is the
  user's own or its editor is an administrator or nothing essential changed, and `modified` is
  set if it did. The invariant joins types, `HeaderSound` of header and file (an opened file must
  be as sound as what was saved), `SessionBacked`, `CleanMeansSaved` and who migrates.
- `VaultUsers` under `SteadyHash`. Under one hash and iteration count the lookup's four passes come to
  "the active slot of that user"; `Steady` says that users are unique and that names, iterations and flags
  agree.
- `VaultUsers` under `SearchableHash`. The invariant says of each slot that its name was hashed under some
  policy (`Hashed`), and of a migrated one that its algorithm is the present one. So the slot is matched
  in a pass of its own algorithm, some pass has a match, and the first such pass has a least one. The
  property itself leaves out those who were added during a migration, or found again by one that returns
  to an earlier algorithm.
- `VaultStore`. The invariant adds what a call keeps while it runs: the image in memory, `tmp` the
  image once written, the file the image once renamed, a clean undo equal to the file. Each step
  maps to `Edit`, `Save` (at the rename), `EditAndSave`, `Replace`, `PowerFailure` or to a stutter.
- `AccountEditor`. `PaneShowsSelection`, which `oldPane` conditions, and the types are inductive together;
  `PendingEditsStay` follows from the same lemmas on steps. `HistoryApplies` speaks of the two commands on
  top, and of what is under them nothing would follow: `History` says of each stack that there is a
  function from its places to lengths of the list, such that each command turns one length into the next
  and the last is the list's own. Whether a command finds its index depends on the length only, so undoing
  or redoing takes the last step off one path and puts it on the other. A new command empties the redo
  stack and a limit drops the bottom of one, which leaves a path; an import, beside the history, raises
  every length by one, where every index still is one. `UndoKeepsRemoved` is about one step, and follows
  from what removing an element and inserting it again makes of a list.
- `Groups`. The invariant says of the vault, the file and the copies that undo keeps, that they are
  typed and the groups distinct; each function from vaults to vaults is shown to keep that and to
  leave nothing dangling (`Keeps`), before any action is looked at. `AllOrNothing` needs of it that a
  new group is taken away again exactly: its fresh id is in no membership, so nothing else goes.
- `AccountList`. The invariant relates three things: the rows are of the copy, and all of it without
  filters (`RowsFit`); the copy has accounts of the vault that the user may view, with their names and
  stars, and all of them if he may view all (`CacheFits`); the second is only said while `listed`, which a
  login over an open vault ends and a refresh begins. An edit that keeps the name is not refreshed and
  need not be, since a standard user cannot change who may view an account. The second permission test is
  harmless only in the second case.
- `Groups`, `AccountList` and `Transfer` rest on `AtPositions`, which is a recursive function: that there
  is such a function, and that its value picks the elements at the positions in their order, is proved by
  induction. The library's induction theorems take an operator, so the lemma `Upwards` is about a set of
  naturals with zero and every successor, and comes from the well-foundedness of their order.
- `Transfer`. Each parser is a recursive function of the position: that it has states, that they are typed
  and that each is what a step makes of the one before, is shown with the same induction. A reader is then
  followed over what a writer wrote. An escape goes character by character, so where the escape of the
  first characters ends the reader has exactly them. XML undoes each entity in a pass of its own, so the
  state of a pass is the text with the other characters still escaped. `Carries` is needed for the second
  unescaping of CSV and XML, for the legacy entities of 1PIF and its search for keys by their text, and
  for an address among the notes. A key is found where it is not only at the end of a value, after a
  quotation mark, since an escape puts a backslash before any other mark: hence `Spells`. What remains of
  a CSV file is that its lines are those of its accounts, and of a cut one that the last is a part of a
  line; a cut 1PIF record has its first fields. The invariant is short then: the file is what an export
  writes of the first of some accounts and a torn piece of the next, and the vault has accounts.
- `VaultFile`. Where slots begin is a recursive sum, treated in the same way. A slot other than the last
  can be read only if what is left behind it is at least the fixed part of another, so all of its
  own fields were there. For the users the invariant adds that the header in memory has
  every user of the one in the file.
- `AccountSave`. `UnmodifiedShowsSaved` and `NoPasswordReused` are inductive with the types and
  `SessionKeeps`: what the file holds of protected accounts a standard user's session has unchanged, since
  he cannot save over them.
- `Preferences`. The two properties and the types are inductive.
- `LoginFlow`. A careful user has at most one login under way, as the dialog on top, an enrollment's
  thread or an idle callback, and the window shows nothing meanwhile.
- `Calls`. A call commits its credential without looking at a key again, so the invariant says of
  each thread how much of its plan is left and that by the part in question its credential is
  on a key; and that what the queue announces is true of its call.

Only model-checked:

- Liveness: `EveryCallEnds`, `UnattendedIsLocked`, `SecretsAreCleared`. The prover has no fairness.
- `EveryUserCanLogIn`: what locks users out in the program, a PIN under the combined key and a policy with other
  iterations, an assumption under which it could be proved would exclude.

Every other invariant and action property of the runs is a theorem, some under an assumption.

## Not modelled

- Ciphers, PBKDF2, Argon2id, hashes: a key is what it was made from. Reed-Solomon arithmetic:
  a block is corrected up to its limit. The FIPS provider: a flag of OpenSSL's.
- CTAP over USB: a device presents itself or not, and answers or fails.
- The manual order of accounts: no widget calls it, and its main operations save without
  rollback (`VaultManager.cc:443`).
- Presentation: themes, menus, wording, layout, icons, the password generator's characters.
- V1 vaults, whose support is removed, and code without a caller: `SearchController`,
  `FuzzyMatch`, `filter_accounts_by_group`, `AsyncRunner` (tests only).
- Files as other programs write them, beyond the header's damage and the special characters.
- Two processes with one vault: the program does not lock the file (a TODO at `VaultIO.h:53`).

## What could follow

1. Files of other programs as `Transfer`'s inputs: what a parser makes of any text is a sequence of
   accounts (the lemmas on types say so already), and what else should be promised of it.
2. `LoginFlow` composed with `VaultUsers`: the requirement a login finds as the slot's, not as a choice.
3. `Calls` with two slots and a removal, so that a moved slot's new owner is a user of his own.
4. The manual order of accounts, once a widget uses it.
