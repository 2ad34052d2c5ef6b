--------------------------- MODULE LoginFlow ---------------------------
(***************************************************************************)
(* From a vault file to an open window and back: the login dialog, the     *)
(* forced password change and the forced YubiKey enrollment after it, the  *)
(* closing of the vault with its question, logging out, and the lock timer *)
(* that closes the vault and asks for a login again.                       *)
(*                                                                         *)
(* VaultManager and the window each have their own idea of the open vault. *)
(* Dialogs are modal, the newest is answered first; the question about     *)
(* unsaved changes runs the main loop until it is answered, so the timers, *)
(* the idle callbacks and the end of an enrollment come at any moment.     *)
(* The user may get up and leave for good at any moment too.               *)
(***************************************************************************)
EXTENDS Clipboard, Naturals, Sequences

CONSTANTS
    Paths,        \* vault files
    Users,        \* names, the same in all vaults
    NoVault

\* What a session may still owe, and a session.
Obligations == {"password", "yubikey"}
Session == [path : Paths, user : Users, due : SUBSET Obligations]

ASSUME NoVaultAssumption == NoVault \notin Paths \cup Users \cup Session

VARIABLES
    vault,      \* VaultManager: path, user of the session and his obligations
    modified,   \* m_modified
    typed,      \* edits typed in the window that the vault does not have
    shown,      \* MainWindow's m_vault_open and m_current_vault_path
    target,     \* V2AuthenticationHandler's m_current_vault_path
    dialogs,    \* the open dialogs, newest first
    armed,      \* AutoLockManager's timer
    autolock,   \* the auto-lock setting
    reopen,     \* paths of the idle callbacks that a lock scheduled
    enrolling,  \* the user whom a thread enrolls, NoVault for none
    away,       \* the user has left
    careful     \* the user opened one vault at a time and let a logout happen

session == <<vault, modified, typed, shown>>
vars == <<session, target, dialogs, armed, autolock, reopen, enrolling, away,
          careful, clipboard>>

\* A dialog; those that follow a login are for its user, and the question before
\* closing knows what comes after it.
Dialog(kind) == [kind |-> kind]
For(kind, user) == [kind |-> kind, user |-> user]
Temporary(new) == [kind |-> "temporary", new |-> new]
Question(kind, then, path) == [kind |-> kind, then |-> then, path |-> path]

IsOpen == vault # NoVault
\* The message of a lock is modal too, and answered after the idle callback ran.
Free == ~away /\ dialogs = <<>> /\ reopen = {}
Answer(kind) == ~away /\ dialogs # <<>> /\ Head(dialogs).kind = kind
Below == Tail(dialogs)
Show(d, below) == dialogs' = <<d>> \o below

Init ==
    /\ vault = NoVault /\ modified = FALSE /\ typed = FALSE
    /\ shown = NoVault /\ target = NoVault
    /\ dialogs = <<>> /\ armed = FALSE /\ autolock = TRUE
    /\ reopen = {} /\ enrolling = NoVault
    /\ away = FALSE /\ careful = TRUE
    /\ ClipboardInit

-----------------------------------------------------------------------------
(* Pieces of the handlers *)

\* handle_vault_open: insert the YubiKey, or log in.
HandleVaultOpen(path, below) ==
    /\ target' = path
    /\ \E kind \in {"insert", "login"} : Show(Dialog(kind), below)

\* The modified flag after save_current_account, then after save_vault, which
\* may fail and always does without a vault.
Taken == modified \/ (typed /\ IsOpen)
Saved(flag) == IF IsOpen THEN {FALSE, TRUE} ELSE {flag}

\* The success callback.  The vault, whose modified flag is one of flags, is
\* saved if the window shows one already; then the window shows the handler's
\* path and its timer starts.
Success(opened, flags) ==
    /\ vault' = opened
    /\ modified' \in IF shown = NoVault
                     THEN flags ELSE {FALSE} \cup {flag \/ typed : flag \in flags}
    /\ typed' = (typed /\ shown = NoVault)
    /\ shown' = target
    /\ armed' = autolock
    /\ DisablePreservation

\* Mutant: the window goes on showing the vault.
Closed_WindowStays ==
    /\ vault' = NoVault /\ modified' = FALSE
    /\ UNCHANGED shown

\* close_vault and the reset of the window
Closed ==
    /\ vault' = NoVault /\ modified' = FALSE
    /\ shown' = NoVault

\* What follows a closing, whether it happened or was cancelled.
Afterwards(then, path, below) ==
    CASE then = "nothing" -> dialogs' = below /\ UNCHANGED <<target, reopen>>
      [] then = "login"   -> HandleVaultOpen(path, below) /\ UNCHANGED reopen
      [] then = "idle"    -> /\ reopen' = reopen \cup {path} /\ dialogs' = below
                             /\ UNCHANGED target

\* on_close_vault, with the flag as save_current_account leaves it: cleanup,
\* the question if there is something to save, closing.
CloseVault(flag, then, below) ==
    /\ ClearImmediately
    /\ armed' = FALSE /\ typed' = FALSE
    /\ IF flag
       THEN /\ Show(Question("close", then, shown), below)
            /\ modified' = TRUE
            /\ UNCHANGED <<vault, shown, target, reopen>>
       ELSE Closed /\ Afterwards(then, shown, below)

-----------------------------------------------------------------------------
(* The dialogs of a login *)

OneAtATime == shown = NoVault /\ enrolling = NoVault

OpenVault(path) ==
    /\ Free
    /\ HandleVaultOpen(path, <<>>)
    /\ careful' = (careful /\ OneAtATime)
    /\ UNCHANGED <<session, armed, autolock, reopen, enrolling, away, clipboard>>

InsertRetry ==
    /\ Answer("insert")
    /\ HandleVaultOpen(target, Below)
    /\ UNCHANGED <<session, armed, autolock, reopen, enrolling, away, careful, clipboard>>

\* Cancelling a dialog closes the dialog.  The messages after a cancelled
\* change or enrollment say that the vault was closed.
Cancel ==
    /\ \E kind \in {"insert", "login", "change", "enroll", "pin"} : Answer(kind)
    /\ dialogs' = Below
    /\ UNCHANGED <<session, target, armed, autolock, reopen, enrolling, away, careful, clipboard>>

\* open_vault_v2 closes the vault that is open before it looks at the file.
LoginFails ==
    /\ Answer("login")
    /\ vault' = NoVault /\ modified' = FALSE
    /\ dialogs' = Below
    /\ UNCHANGED <<typed, shown, target, armed, autolock, reopen, enrolling, away, careful, clipboard>>

\* Mutant: the forced change is shown and the login goes on.
Login_GoesOn ==
    /\ Answer("login")
    /\ \E user \in Users, due \in SUBSET Obligations :
        /\ IF "password" \in due THEN Show(For("change", user), Below) ELSE dialogs' = Below
        /\ Success([path |-> target, user |-> user, due |-> due], {TRUE})
    /\ UNCHANGED <<target, autolock, reopen, enrolling, away, careful>>

\* A login with an obligation to change the password asks for that first; an
\* obligation to enroll a YubiKey is not looked at here.
Login ==
    /\ Answer("login")
    /\ \E user \in Users, due \in SUBSET Obligations :
       LET opened == [path |-> target, user |-> user, due |-> due]
       IN  IF "password" \in due
           THEN /\ Show(For("change", user), Below)
                /\ vault' = opened /\ modified' = TRUE
                /\ UNCHANGED <<typed, shown, armed, clipboard>>
           ELSE dialogs' = Below /\ Success(opened, {TRUE})
    /\ UNCHANGED <<target, autolock, reopen, enrolling, away, careful>>

\* The session, which may be another user's by now, after a service for user
After(user, obligation) ==
    IF user = vault.user THEN [vault EXCEPT !.due = @ \ {obligation}] ELSE vault

\* A change that is refused, or meets no vault, is asked for once more.  One
\* that succeeds is saved at once, if that does, and followed by what the
\* session still owes.
Change ==
    /\ Answer("change") /\ IsOpen
    /\ LET user == Head(dialogs).user
           changed == After(user, "password")
       IN  IF "yubikey" \in vault.due
           THEN /\ Show(For("enroll", user), Below)
                /\ vault' = changed /\ modified' \in BOOLEAN
                /\ UNCHANGED <<typed, shown, armed, clipboard>>
           ELSE dialogs' = Below /\ Success(changed, BOOLEAN)
    /\ UNCHANGED <<target, autolock, reopen, enrolling, away, careful>>

EnrollConfirm ==
    /\ Answer("enroll")
    /\ Show(For("pin", Head(dialogs).user), Below)
    /\ UNCHANGED <<session, target, armed, autolock, reopen, enrolling, away, careful, clipboard>>

\* A PIN of the wrong length starts over; a right one starts the enrollment,
\* under a prompt that is not modal.
PinTyped ==
    /\ Answer("pin")
    /\ \/ Show(For("enroll", Head(dialogs).user), Below) /\ UNCHANGED enrolling
       \/ /\ enrolling = NoVault /\ enrolling' = Head(dialogs).user
          /\ dialogs' = Below
    /\ UNCHANGED <<session, target, armed, autolock, reopen, away, careful, clipboard>>

EnrollFailed ==
    /\ enrolling # NoVault /\ enrolling' = NoVault
    /\ Show(For("enroll", enrolling), dialogs)
    /\ UNCHANGED <<session, target, armed, autolock, reopen, away, careful, clipboard>>

\* An enrollment that cannot be saved, as when the vault was closed in the
\* meantime, ends there.  Otherwise the window shows what target names now.
EnrollDone ==
    /\ enrolling # NoVault /\ enrolling' = NoVault
    /\ IF IsOpen
       THEN LET enrolled == After(enrolling, "yubikey")
            IN  \/ Success(enrolled, {FALSE})
                \/ /\ vault' = enrolled /\ modified' = TRUE
                   /\ UNCHANGED <<typed, shown, armed, clipboard>>
       ELSE UNCHANGED <<session, armed, clipboard>>
    /\ UNCHANGED <<target, dialogs, autolock, reopen, away, careful>>

-----------------------------------------------------------------------------
(* The window *)

\* A new vault, created at once, replaces the open one; its defaults are saved.
NewVault(path) ==
    /\ Free
    /\ \/ /\ \E user \in Users : vault' = [path |-> path, user |-> user, due |-> {}]
          /\ modified' \in BOOLEAN
          /\ shown' = path /\ armed' = autolock
       \/ vault' = NoVault /\ modified' = FALSE /\ UNCHANGED <<shown, armed>>
    /\ careful' = (careful /\ OneAtATime)
    /\ UNCHANGED <<typed, target, dialogs, autolock, reopen, enrolling, away, clipboard>>

\* Keys, clicks and motion restart the timer, as the setting of the moment says.
Activity ==
    /\ Free /\ shown # NoVault
    /\ armed' = autolock
    /\ UNCHANGED <<session, target, dialogs, autolock, reopen, enrolling, away, careful, clipboard>>

SetAutoLock ==
    /\ Free /\ shown # NoVault
    /\ autolock' = ~autolock
    /\ modified' = (modified \/ IsOpen)
    /\ UNCHANGED <<vault, typed, shown, target, dialogs, armed, reopen, enrolling, away, careful, clipboard>>

Edit ==
    /\ Free /\ shown # NoVault
    /\ typed' = TRUE /\ armed' = autolock
    /\ UNCHANGED <<vault, modified, shown, target, dialogs, autolock, reopen, enrolling, away, careful, clipboard>>

Save ==
    /\ Free /\ shown # NoVault
    /\ modified' \in Saved(Taken) /\ typed' = FALSE
    /\ UNCHANGED <<vault, shown, target, dialogs, armed, autolock, reopen, enrolling, away, careful, clipboard>>

Copy ==
    /\ Free /\ shown # NoVault
    /\ CopyText("account")
    /\ UNCHANGED <<session, target, dialogs, armed, autolock, reopen, enrolling, away, careful>>

Close ==
    /\ Free /\ shown # NoVault
    /\ CloseVault(Taken, "nothing", <<>>)
    /\ UNCHANGED <<autolock, enrolling, away, careful>>

\* handle_logout asks before the closing does.
Logout ==
    /\ Free /\ shown # NoVault
    /\ IF modified
       THEN /\ Show(Dialog("logout"), <<>>)
            /\ UNCHANGED <<session, target, armed, reopen, clipboard>>
       ELSE CloseVault(Taken, "login", <<>>)
    /\ UNCHANGED <<autolock, enrolling, away, careful>>

\* Save or Don't Save, after which the closing asks again if there is still
\* something to save; nothing if a lock closed the vault under the question.
AnswerLogout ==
    /\ Answer("logout")
    /\ IF shown = NoVault
       THEN dialogs' = Below /\ UNCHANGED <<session, target, armed, reopen, clipboard>>
       ELSE \E flag \in Saved(Taken) \cup {Taken} : CloseVault(flag, "login", Below)
    /\ UNCHANGED <<autolock, enrolling, away, careful>>

CancelLogout ==
    /\ Answer("logout")
    /\ dialogs' = Below
    /\ UNCHANGED <<session, target, armed, autolock, reopen, enrolling, away, careful, clipboard>>

\* Save or Don't Save: closed either way.
AnswerClose ==
    /\ Answer("close")
    /\ Closed /\ typed' = FALSE
    /\ Afterwards(Head(dialogs).then, Head(dialogs).path, Below)
    /\ UNCHANGED <<armed, autolock, enrolling, away, careful, clipboard>>

\* Cancel: the vault stays open, and what was to follow follows.
CancelClose ==
    /\ Answer("close")
    /\ Afterwards(Head(dialogs).then, Head(dialogs).path, Below)
    /\ careful' = (careful /\ Head(dialogs).then = "nothing")
    /\ UNCHANGED <<session, armed, autolock, enrolling, away, clipboard>>

-----------------------------------------------------------------------------
(* Users and passwords *)

\* Both need a session; what its role allows is in VaultUsers.
ChangeMyPassword ==
    /\ Free /\ shown # NoVault /\ IsOpen
    /\ Show(For("own", vault.user), <<>>)
    /\ UNCHANGED <<session, target, armed, autolock, reopen, enrolling, away, careful, clipboard>>

\* Refused, changed and not saved, or cancelled.
AnswerOwnChange ==
    /\ Answer("own")
    /\ dialogs' = Below
    /\ \/ /\ IsOpen
          /\ vault' = After(Head(dialogs).user, "password") /\ modified' = TRUE
       \/ UNCHANGED <<vault, modified>>
    /\ UNCHANGED <<typed, shown, target, armed, autolock, reopen, enrolling, away, careful, clipboard>>

\* Its rows are those of the moment it was filled, and stay under a lock and the
\* login after it.
UserManagementDialog == Dialog("users")

ManageUsers ==
    /\ Free /\ shown # NoVault /\ IsOpen
    /\ Show(UserManagementDialog, <<>>)
    /\ UNCHANGED <<session, target, armed, autolock, reopen, enrolling, away, careful, clipboard>>

\* The buttons: add a user, and in the other users' rows remove or reset.
AskUsers ==
    /\ Answer("users")
    /\ \/ \E kind \in {"add", "remove", "reset"} : Show(Dialog(kind), dialogs)
       \/ dialogs' = Below
    /\ UNCHANGED <<session, target, armed, autolock, reopen, enrolling, away, careful, clipboard>>

\* A user who is added gets a temporary password.  When he cannot be, the dialog
\* stays.
AnswerAdd ==
    /\ Answer("add")
    /\ \/ /\ IsOpen /\ modified' = TRUE
          /\ Show(Temporary(TRUE), Below)
       \/ UNCHANGED modified /\ dialogs' \in {dialogs, Below}
    /\ UNCHANGED <<vault, typed, shown, target, armed, autolock, reopen, enrolling, away, careful, clipboard>>

AnswerRemove ==
    /\ Answer("remove")
    /\ dialogs' = Below
    /\ modified' \in IF IsOpen THEN {modified, TRUE} ELSE {modified}
    /\ UNCHANGED <<vault, typed, shown, target, armed, autolock, reopen, enrolling, away, careful, clipboard>>

AnswerReset ==
    /\ Answer("reset")
    /\ \/ /\ IsOpen /\ modified' = TRUE
          /\ Show(Temporary(FALSE), Below)
       \/ UNCHANGED modified /\ dialogs' = Below
    /\ UNCHANGED <<vault, typed, shown, target, armed, autolock, reopen, enrolling, away, careful, clipboard>>

\* Copying leaves the dialog open.
CopyTemporaryPassword ==
    /\ Answer("temporary")
    /\ CopyTemporary
    /\ UNCHANGED <<session, target, dialogs, armed, autolock, reopen, enrolling, away, careful>>

CloseTemporary ==
    /\ Answer("temporary")
    /\ IF Head(dialogs).new THEN Show(Dialog("switch"), Below) ELSE dialogs' = Below
    /\ UNCHANGED <<session, target, armed, autolock, reopen, enrolling, away, careful, clipboard>>

StayHere ==
    /\ Answer("switch")
    /\ dialogs' = Below
    /\ UNCHANGED <<session, target, armed, autolock, reopen, enrolling, away, careful, clipboard>>

\* The vault is closed and a login asked for; the user management closes.
\* Bound: not answered so when a lock left no vault, where it asks for a login
\* to a file without a name.
SwitchUser ==
    /\ Answer("switch") /\ shown # NoVault
    /\ CloseVault(Taken, "login", Tail(Below))
    /\ UNCHANGED <<autolock, enrolling, away, careful>>

-----------------------------------------------------------------------------
(* What the main loop does by itself *)

\* Mutant: the lock gives up when the changes cannot be saved.
LockTimeout_GivesUp ==
    /\ armed
    /\ IF shown = NoVault \/ modified
       THEN armed' = FALSE /\ UNCHANGED <<session, target, dialogs, reopen, clipboard>>
       ELSE CloseVault(Taken, "idle", dialogs)
    /\ UNCHANGED <<autolock, enrolling, away, careful>>

\* The timer is for the window's vault.  A modified one is saved first.
LockTimeout ==
    /\ armed
    /\ IF shown = NoVault
       THEN armed' = FALSE /\ UNCHANGED <<session, target, dialogs, reopen, clipboard>>
       ELSE \E flag \in IF modified THEN Saved(TRUE) ELSE {Taken} :
            CloseVault(flag, "idle", dialogs)
    /\ UNCHANGED <<autolock, enrolling, away, careful>>

Reopen ==
    /\ \E path \in reopen :
        /\ HandleVaultOpen(path, dialogs)
        /\ reopen' = reopen \ {path}
    /\ UNCHANGED <<session, armed, autolock, enrolling, away, careful, clipboard>>

ClipboardTimeout ==
    /\ ClearTimeout \/ SafetyTimeout
    /\ UNCHANGED <<session, target, dialogs, armed, autolock, reopen, enrolling, away, careful>>

Leave ==
    /\ ~away /\ away' = TRUE
    /\ UNCHANGED <<session, target, dialogs, armed, autolock, reopen, enrolling, careful, clipboard>>

LoginStep ==
    \/ \E path \in Paths : OpenVault(path)
    \/ InsertRetry \/ Cancel \/ LoginFails \/ Login \/ Change
    \/ EnrollConfirm \/ PinTyped

WindowStep ==
    \/ \E path \in Paths : NewVault(path)
    \/ Activity \/ SetAutoLock \/ Edit \/ Save \/ Copy
    \/ Close \/ Logout \/ AnswerLogout \/ CancelLogout \/ AnswerClose \/ CancelClose

UsersStep ==
    \/ ChangeMyPassword \/ AnswerOwnChange
    \/ ManageUsers \/ AskUsers \/ AnswerAdd \/ AnswerRemove \/ AnswerReset
    \/ CopyTemporaryPassword \/ CloseTemporary \/ StayHere \/ SwitchUser

LoopStep == LockTimeout \/ Reopen \/ ClipboardTimeout \/ EnrollFailed \/ EnrollDone

Next == LoginStep \/ WindowStep \/ UsersStep \/ LoopStep \/ Leave

\* The main loop runs all the time, in the question's nested loop too: timers,
\* idle callbacks and the end of the enrollment come in the end.  The user
\* need do nothing.
Fairness ==
    /\ WF_vars(LockTimeout) /\ WF_vars(Reopen)
    /\ WF_vars(ClearTimeout /\ ClipboardTimeout) /\ WF_vars(SafetyTimeout /\ ClipboardTimeout)
    /\ WF_vars(EnrollFailed \/ EnrollDone)

Spec == Init /\ [][Next]_vars /\ Fairness

-----------------------------------------------------------------------------
(* Properties *)

Dialogs == [kind : {"insert", "login", "logout", "users", "add", "remove", "reset", "switch"}]
           \cup [kind : {"change", "enroll", "pin", "own"}, user : Users]
           \cup [kind : {"temporary"}, new : BOOLEAN]
           \cup [kind : {"close"}, then : {"nothing", "login", "idle"}, path : Paths]

\* The types, and that the questions about a vault carry one.
TypeOK ==
    /\ vault \in Session \cup {NoVault}
    /\ {modified, typed, armed, autolock, away, careful} \subseteq BOOLEAN
    /\ shown \in Paths \cup {NoVault} /\ target \in Paths \cup {NoVault}
    /\ dialogs \in Seq(Dialogs)
    /\ reopen \subseteq Paths /\ enrolling \in Users \cup {NoVault}
    /\ ClipboardTypeOK

\* The window shows the vault that VaultManager has open, whatever the lock
\* timer, the idle callbacks and the enrollments did in the meantime, for a
\* user who opens one vault at a time and never cancels a logout.
WindowShowsVault == careful /\ shown # NoVault => IsOpen /\ vault.path = shown

\* No session that must change its password gets at the window, if its user
\* opens one vault at a time and never cancels a logout: no enrollment, lock or
\* cancelled dialog goes past the change.
CarefulChangeFirst ==
    careful /\ Free /\ shown # NoVault /\ IsOpen => "password" \notin vault.due

\* A vault left open with its timer running is closed and stays closed, unless
\* it is the question about unsaved changes that keeps it open.
Asking == \E i \in 1..Len(dialogs) : dialogs[i].kind = "close"
UnattendedIsLocked ==
    away /\ autolock /\ armed /\ shown # NoVault ~> [](~IsOpen \/ Asking)

\* A copied secret does not outlive the user's presence.
SecretsAreCleared == away ~> [](clip \notin Secrets)
=============================================================================
