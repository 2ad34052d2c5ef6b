--------------------------- MODULE VaultStore ---------------------------
(***************************************************************************)
(* How the vault gets into its file and back: save_vault with its backup   *)
(* and its temporary file, the operations that save at once and roll back  *)
(* when that fails, opening with the save that a username migration does,  *)
(* and restoring a backup; with every step of them failing, the process    *)
(* dying between two steps and, where PowerFails, the machine too.         *)
(*                                                                         *)
(* The calls are synchronous on the main thread: while one runs, only it   *)
(* and a failure take steps.  A file holds an image (the accounts, and     *)
(* whether the user who opens it still has an old username hash), or it is *)
(* torn: empty or cut short, and refused when it is opened.                *)
(***************************************************************************)
EXTENDS Naturals, Sequences, SequencesExt

CONSTANTS
    Data,            \* the accounts and groups a vault may hold
    Empty,           \* none of them: m_vault_data after close_vault
    InitialImages,   \* what the vault file holds at first
    MaxBackups,      \* VaultBackupPolicy::max_backups
    MaxBackupFiles,  \* bound on the backup files there ever are
    PowerFails,      \* TRUE: power failures happen
    ClockRepeats,    \* TRUE: local time repeats an hour, as each autumn
    Torn, NoFile, NoVault

Image == [data : Data \cup {Empty}, old : BOOLEAN]

ASSUME EmptyAssumption == Empty \notin Data
ASSUME InitialImagesAssumption == InitialImages \subseteq Image
ASSUME MaxBackupsAssumption ==
    /\ MaxBackups \in Nat \ {0} /\ MaxBackupFiles \in Nat
    /\ PowerFails \in BOOLEAN /\ ClockRepeats \in BOOLEAN
ASSUME FilesAssumption ==
    Torn \notin Image /\ NoFile \notin Image \cup {Torn} /\ NoVault \notin Image

VARIABLES
    mem,        \* m_vault_data and m_v2_header while a vault is open
    modified,   \* m_modified
    file,       \* what the vault's path names
    tmp,        \* what path + ".tmp" names
    backups,    \* the backup files, in the order of their names, latest first
    call,       \* the call that is running
    survivors   \* what the path may name after a power failure

vars == <<mem, modified, file, tmp, backups, call, survivors>>

\* A call saves ("save"), edits and saves or rolls back ("group"), saves the
\* migrated header before it loads the data ("open"), or restores ("restore").
\* It saves image, after a backup if backup; failing, it sets m_vault_data to
\* undo and m_modified to was.  copy is where its backup is in backups.
Idle == [kind |-> "none"]
Saving(kind, backup, image, undo, was) ==
    [kind |-> kind, step |-> IF backup THEN "backup" ELSE "write",
     backup |-> backup, copy |-> 1, image |-> image, undo |-> undo, was |-> was]

Files == Image \cup {Torn, NoFile}

Init ==
    /\ mem = NoVault /\ modified = FALSE
    /\ file \in InitialImages
    /\ tmp = NoFile /\ backups = <<>>
    /\ call = Idle
    /\ survivors = {file}

IsOpen == mem # NoVault
At(step) == call.kind \in {"save", "group", "open"} /\ call.step = step

-----------------------------------------------------------------------------
(* The calls.  A backup precedes an explicit save, when backups are enabled. *)

\* open_vault_v2, of a vault closed first if one is open.  The migration of a
\* user found by an old hash saves at once, before the data is in memory.
Open ==
    /\ call = Idle
    /\ file \in Image
    /\ IF file.old
       THEN \E backup \in BOOLEAN :
            LET migrated == [data |-> Empty, old |-> FALSE]
            IN  /\ mem' = migrated
                /\ call' = Saving("open", backup, migrated, [file EXCEPT !.old = FALSE], TRUE)
       ELSE /\ mem' = file
            /\ UNCHANGED call
    /\ modified' = TRUE
    /\ UNCHANGED <<file, tmp, backups, survivors>>

Close ==
    /\ call = Idle /\ IsOpen
    /\ mem' = NoVault /\ modified' = FALSE
    /\ UNCHANGED <<file, tmp, backups, call, survivors>>

\* add_account, update_account, delete_account, and the edits of the header
Edit(d) ==
    /\ call = Idle /\ IsOpen
    /\ mem' = [mem EXCEPT !.data = d]
    /\ modified' = TRUE
    /\ UNCHANGED <<file, tmp, backups, call, survivors>>

Save ==
    /\ call = Idle /\ IsOpen
    /\ \E backup \in BOOLEAN : call' = Saving("save", backup, mem, mem, modified)
    /\ UNCHANGED <<mem, modified, file, tmp, backups, survivors>>

\* Mutant: the snapshot is taken after the edit.
EditAndSave_Late(d) ==
    /\ call = Idle /\ IsOpen
    /\ mem' = [mem EXCEPT !.data = d]
    /\ modified' = TRUE
    /\ \E backup \in BOOLEAN : call' = Saving("group", backup, mem', mem', modified)
    /\ UNCHANGED <<file, tmp, backups, survivors>>

\* create_group, delete_group, rename_group, reorder_group and the operations
\* on memberships: a snapshot, the edit, an explicit save.
EditAndSave(d) ==
    /\ call = Idle /\ IsOpen
    /\ mem' = [mem EXCEPT !.data = d]
    /\ modified' = TRUE
    /\ \E backup \in BOOLEAN : call' = Saving("group", backup, mem', mem, modified)
    /\ UNCHANGED <<file, tmp, backups, survivors>>

\* reorder_account, reset_global_display_order and get_favorites_group_id do
\* not roll back.
EditThenSave(d) ==
    /\ call = Idle /\ IsOpen
    /\ mem' = [mem EXCEPT !.data = d]
    /\ modified' = TRUE
    /\ \E backup \in BOOLEAN : call' = Saving("save", backup, mem', mem, modified)
    /\ UNCHANGED <<file, tmp, backups, survivors>>

-----------------------------------------------------------------------------
(* The steps of save_vault *)

\* Mutant: a failed call restores the flag and forgets the data.
Failed_KeepsEdit ==
    /\ call' = Idle
    /\ mem' = IF call.kind = "open" THEN call.undo ELSE mem
    /\ modified' = IF call.kind = "group" THEN call.was ELSE modified

\* What the caller does when save_vault returns false.
Failed ==
    /\ call' = Idle
    /\ mem' = IF call.kind \in {"group", "open"} THEN call.undo ELSE mem
    /\ modified' = IF call.kind = "group" THEN call.was ELSE modified

\* VaultIO::create_backup copies into a new file, named by the local time...
CopyStart ==
    /\ At("backup")
    /\ Len(backups) < MaxBackupFiles
    /\ \E i \in 1..(Len(backups) + 1) :
        /\ ClockRepeats \/ i = 1
        /\ backups' = InsertAt(backups, i, Torn)
        /\ call' = [call EXCEPT !.step = "copy", !.copy = i]
    /\ UNCHANGED <<mem, modified, file, tmp, survivors>>

\* cleanup_old_backups removes those of the earliest names beyond MaxBackups.
Kept(all) == IF Len(all) > MaxBackups THEN SubSeq(all, 1, MaxBackups) ELSE all

\* Mutant: the backup is what is about to be saved.
CopyDone_New ==
    /\ At("copy")
    /\ backups' = Kept([backups EXCEPT ![call.copy] = call.image])
    /\ call' = [call EXCEPT !.step = "write"]
    /\ UNCHANGED <<mem, modified, file, tmp, survivors>>

\* ... and the backups are trimmed once the copy is complete.
CopyDone ==
    /\ At("copy")
    /\ backups' = Kept([backups EXCEPT ![call.copy] = file])
    /\ call' = [call EXCEPT !.step = "write"]
    /\ UNCHANGED <<mem, modified, file, tmp, survivors>>

\* A copy that fails half-way leaves what it wrote, and nothing is saved.
CopyFails ==
    /\ At("backup") \/ At("copy")
    /\ Failed
    /\ UNCHANGED <<file, tmp, backups, survivors>>

\* write_vault_file truncates the temporary file and writes it.
WriteStart ==
    /\ At("write")
    /\ tmp' = Torn
    /\ call' = [call EXCEPT !.step = "flush"]
    /\ UNCHANGED <<mem, modified, file, backups, survivors>>

WriteDone ==
    /\ At("flush")
    /\ tmp' = call.image
    /\ call' = [call EXCEPT !.step = "rename"]
    /\ UNCHANGED <<mem, modified, file, backups, survivors>>

\* A write that fails leaves the temporary file, a rename that fails removes it.
WriteFails ==
    /\ \/ At("write") /\ tmp' \in {tmp, NoFile}
       \/ At("flush") /\ UNCHANGED tmp
       \/ At("rename") /\ tmp' = NoFile
    /\ Failed
    /\ UNCHANGED <<file, backups, survivors>>

\* The rename is visible at once.  The file was flushed but not synced, so a
\* power failure may still undo the rename or lose what the file holds.
Rename ==
    /\ At("rename")
    /\ file' = tmp /\ tmp' = NoFile
    /\ survivors' = survivors \cup {tmp, Torn}
    /\ call' = [call EXCEPT !.step = "sync"]
    /\ UNCHANGED <<mem, modified, backups>>

\* The directory is synced, unless that fails, and the save has succeeded.
SyncDirectory ==
    /\ At("sync")
    /\ survivors' \in {survivors, survivors \cap {file, Torn}}
    /\ call' = Idle
    /\ IF call.kind = "open"
       THEN mem' = call.undo /\ modified' = TRUE
       ELSE modified' = FALSE /\ UNCHANGED mem
    /\ UNCHANGED <<file, tmp, backups>>

-----------------------------------------------------------------------------
(* Restoring a backup: the newest is copied over the vault file *)

RestoreStart ==
    /\ call = Idle /\ ~IsOpen
    /\ backups # <<>>
    /\ file' = Torn
    /\ survivors' = survivors \cup {Torn}
    /\ call' = [kind |-> "restore"]
    /\ UNCHANGED <<mem, modified, tmp, backups>>

RestoreDone ==
    /\ call.kind = "restore"
    /\ file' = backups[1]
    /\ survivors' = survivors \cup {file'}
    /\ call' = Idle
    /\ UNCHANGED <<mem, modified, tmp, backups>>

RestoreFails ==
    /\ call.kind = "restore"
    /\ call' = Idle
    /\ UNCHANGED <<mem, modified, file, tmp, backups, survivors>>

-----------------------------------------------------------------------------
(* What happens to the process and to the machine *)

Crash ==
    /\ IsOpen \/ call # Idle
    /\ mem' = NoVault /\ modified' = FALSE
    /\ call' = Idle
    /\ UNCHANGED <<file, tmp, backups, survivors>>

\* The kernel writes everything back sooner or later.
WriteBack ==
    /\ survivors' = {file}
    /\ UNCHANGED <<mem, modified, file, tmp, backups, call>>

PowerFailure ==
    /\ PowerFails
    /\ mem' = NoVault /\ modified' = FALSE
    /\ call' = Idle
    /\ file' \in survivors
    /\ survivors' = {file'}
    /\ tmp' \in {tmp, Torn, NoFile}
    /\ IF survivors = {file} \/ backups = <<>>
       THEN UNCHANGED backups
       ELSE backups' \in {backups, [backups EXCEPT ![1] = Torn]}

SaveStep == CopyStart \/ CopyDone \/ CopyFails \/ WriteStart \/ WriteDone
            \/ WriteFails \/ Rename \/ SyncDirectory

Next ==
    \/ Open \/ Close \/ Save \/ SaveStep
    \/ \E d \in Data \cup {Empty} : Edit(d) \/ EditAndSave(d) \/ EditThenSave(d)
    \/ RestoreStart \/ RestoreDone \/ RestoreFails
    \/ Crash \/ WriteBack \/ PowerFailure

Spec == Init /\ [][Next]_vars

-----------------------------------------------------------------------------
(* Properties *)

Steps == {"backup", "copy", "write", "flush", "rename", "sync"}
CallOfSave == [kind : {"save", "group", "open"}, step : Steps, backup : BOOLEAN,
               copy : Nat, image : Image, undo : Image, was : BOOLEAN]

\* The types.  No vault is open while a restore runs, and there is a backup; one
\* is open during every other call, and m_modified is never set without one.
TypeOK ==
    /\ mem \in Image \cup {NoVault} /\ modified \in BOOLEAN
    /\ file \in Image \cup {Torn} /\ tmp \in Files
    /\ backups \in Seq(Image \cup {Torn}) /\ survivors \subseteq Image \cup {Torn}
    /\ \/ call = Idle
       \/ call = [kind |-> "restore"] /\ ~IsOpen /\ backups # <<>>
       \/ call \in CallOfSave /\ IsOpen
    /\ modified => IsOpen

\* A vault that is not marked modified is what its file holds, after every
\* sequence of saves, of operations that saved and of operations that failed
\* and were rolled back: closing it then loses nothing.
CleanMeansStored == call = Idle /\ IsOpen /\ ~modified => file = mem

\* The vault file is complete at every step of a save, whichever step fails
\* or is the last before a crash; only restoring writes over it in place, and
\* only a power failure may lose it otherwise.
OnlyRestoreTears ==
    [][file' = Torn /\ file # Torn => RestoreStart \/ RestoreDone \/ PowerFailure]_vars

\* A save that was to back up replaces the file only when a backup holds what
\* it replaces: the explicit save of the user never loses the only copy.
PreviousKept ==
    [][Rename /\ call.backup => \E i \in 1..Len(backups) : backups[i] = file]_vars

\* Saving is atomic: seen from outside, a save, or an operation that edits and
\* saves, happens at its rename or not at all.  A vault whose opening migrates
\* is not open before that is done.
Opening == call.kind = "open"
Pending == call.kind = "group" /\ call.step # "sync"
Register == INSTANCE VaultRegister WITH
    stored   <- file,
    working  <- IF Opening THEN NoVault ELSE IF Pending THEN call.undo ELSE mem,
    dirty    <- IF Opening \/ At("sync") THEN FALSE
                ELSE IF Pending THEN call.was ELSE modified,
    Migrates <- \E i \in InitialImages : i.old
SavesAtomically == Register!Spec
=============================================================================
