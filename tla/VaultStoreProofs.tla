------------------------ MODULE VaultStoreProofs ------------------------
(***************************************************************************)
(* Saving is atomic and a clean vault is the stored one, for all contents, *)
(* numbers of backups and interleavings of failures; and, for all headers  *)
(* and damages, what a damaged file is read as keeps its users, and every  *)
(* slot but the last as it was (VaultFile).                                *)
(***************************************************************************)
EXTENDS VaultStore, VaultFile, SequenceTheorems, WellFoundedInduction, TLAPS

AnyImage == Image \cup {Torn}

\* What a running call has prepared: it saves what is in memory, its temporary
\* file is complete when it is renamed, and its backup is among the backups.
CallSound ==
    call \in CallOfSave =>
        /\ call.image = mem
        /\ call.step = "copy" => call.copy \in 1..Len(backups)
        /\ call.step = "rename" => tmp = call.image
        /\ call.step = "sync" => file = call.image
        /\ call.kind = "open" => modified /\ file \in Image

\* The vault that a failure would leave in memory is stored, if it would be
\* marked unmodified.
UndoSound ==
    /\ call.kind \in {"none", "save"} /\ IsOpen /\ ~modified => file = mem
    /\ call.kind = "group" /\ call.step # "sync" /\ ~call.was => file = call.undo

Inv == TypeOK /\ CallSound /\ UndoSound

-----------------------------------------------------------------------------
(* Types *)

\* The two calls that are not saves are not in CallOfSave.
LEMMA Kinds ==
    /\ Idle \notin CallOfSave /\ Idle.kind = "none"
    /\ [kind |-> "restore"] \notin CallOfSave
    /\ \A c \in CallOfSave : c.kind \in {"save", "group", "open"}
BY DEF Idle, CallOfSave

\* A call of save_vault, as it begins, is one.
LEMMA SavingType ==
    ASSUME NEW kind \in {"save", "group", "open"}, NEW backup \in BOOLEAN,
           NEW image \in Image, NEW undo \in Image, NEW was \in BOOLEAN
    PROVE  LET c == Saving(kind, backup, image, undo, was)
           IN  /\ c \in CallOfSave
               /\ c.kind = kind /\ c.image = image /\ c.undo = undo /\ c.was = was
               /\ c.step \in {"backup", "write"}
BY DEF Saving, CallOfSave, Steps

\* Editing the accounts of an open vault leaves it a vault.
LEMMA EditType ==
    ASSUME TypeOK, IsOpen, NEW d \in Data \cup {Empty}
    PROVE  [mem EXCEPT !.data = d] \in Image /\ mem \in Image
BY FilesAssumption DEF TypeOK, IsOpen, Image

\* A backup put among the others, anywhere, gives backups one longer.
LEMMA InsertType ==
    ASSUME NEW S, NEW s \in Seq(S), NEW i \in 1..(Len(s) + 1), NEW e \in S
    PROVE  InsertAt(s, i, e) \in Seq(S) /\ Len(InsertAt(s, i, e)) = Len(s) + 1
<1> DEFINE front == SubSeq(s, 1, i - 1)
           back == SubSeq(s, i, Len(s))
<1>0. Len(s) \in Nat
  OBVIOUS
<1>1. front \in Seq(S) /\ Len(front) = i - 1
  BY <1>0, SubSeqProperties
<1>2. back \in Seq(S) /\ Len(back) = Len(s) - i + 1
  BY <1>0, SubSeqProperties
<1>3. <<e>> \in Seq(S) /\ Len(<<e>>) = 1
  OBVIOUS
<1> DEFINE both == front \o <<e>>
<1>4. both \in Seq(S) /\ Len(both) = i
  BY <1>0, <1>1, <1>3, ConcatProperties
<1> HIDE DEF front, back, both
<1>5. both \o back \in Seq(S) /\ Len(both \o back) = Len(both) + Len(back)
  BY <1>2, <1>4, ConcatProperties, Zenon
<1>6. InsertAt(s, i, e) = both \o back
  BY DEF InsertAt, front, back, both
<1> QED
  BY <1>0, <1>2, <1>4, <1>5, <1>6

\* The backups that are kept are backups.
LEMMA KeptType ==
    ASSUME NEW S, NEW s \in Seq(S), NEW i \in 1..Len(s), NEW e \in S
    PROVE  Kept([s EXCEPT ![i] = e]) \in Seq(S)
<1> DEFINE t == [s EXCEPT ![i] = e]
<1>1. t \in Seq(S) /\ Len(t) = Len(s) /\ Len(t) \in Nat
  BY ExceptSeq
<1>2. CASE Len(t) > MaxBackups
  <2>1. MaxBackups \in Nat /\ 1 \in 1..(Len(t) + 1) /\ MaxBackups \in 0..Len(t)
    BY <1>1, <1>2, MaxBackupsAssumption
  <2>2. SubSeq(t, 1, MaxBackups) \in Seq(S)
    BY <1>1, <1>2, <2>1, SubSeqProperties
  <2> QED
    BY <1>2, <2>2 DEF Kept
<1>3. CASE ~(Len(t) > MaxBackups)
  BY <1>1, <1>3 DEF Kept
<1> QED
  BY <1>2, <1>3

-----------------------------------------------------------------------------
(* The steps preserve the invariant *)

\* A step of save_vault is a step of one of the calls that save.
LEMMA AtSave ==
    ASSUME TypeOK, NEW step, At(step)
    PROVE  call \in CallOfSave /\ IsOpen /\ call.step = step
BY Kinds DEF TypeOK, At, Idle

\* Idle calls prepare nothing.
LEMMA IdleSound ==
    ASSUME TypeOK, call' = Idle,
           mem' \in Image \cup {NoVault}, modified' \in BOOLEAN, modified' => IsOpen',
           file' \in AnyImage, tmp' \in Files, backups' \in Seq(AnyImage),
           survivors' \subseteq AnyImage,
           IsOpen' /\ ~modified' => file' = mem'
    PROVE  Inv'
<1>1. TypeOK'
  BY DEF TypeOK, AnyImage
<1>2. CallSound' /\ UndoSound'
  BY Kinds DEF CallSound, UndoSound
<1> QED
  BY <1>1, <1>2 DEF Inv

\* A call of save_vault that begins is sound, if what it would leave when it
\* fails is.
LEMMA SavingSound ==
    ASSUME TypeOK, NEW kind \in {"save", "group", "open"}, NEW backup \in BOOLEAN,
           NEW undo \in Image, NEW was \in BOOLEAN,
           mem' \in Image, modified' \in BOOLEAN,
           call' = Saving(kind, backup, mem', undo, was),
           UNCHANGED <<file, tmp, backups, survivors>>,
           kind = "open" => modified' /\ file \in Image,
           kind = "save" /\ ~modified' => file = mem',
           kind = "group" /\ ~was => file = undo
    PROVE  Inv'
<1>1. /\ call' \in CallOfSave
      /\ call'.kind = kind /\ call'.image = mem' /\ call'.undo = undo /\ call'.was = was
      /\ call'.step \in {"backup", "write"}
  BY SavingType
<1>2. mem' # NoVault
  BY FilesAssumption
<1>3. TypeOK'
  BY <1>1, <1>2 DEF TypeOK, IsOpen
<1>4. CallSound' /\ UndoSound'
  BY <1>1 DEF CallSound, UndoSound
<1> QED
  BY <1>3, <1>4 DEF Inv

\* A failure before the rename leaves a vault that is stored, or marked.
LEMMA FailedSound ==
    ASSUME Inv, call \in CallOfSave, IsOpen, call.step # "sync", Failed,
           tmp' \in Files, UNCHANGED <<file, backups, survivors>>
    PROVE  Inv'
<1>1. /\ call.kind \in {"save", "group", "open"}
      /\ call.image \in Image /\ call.undo \in Image /\ call.was \in BOOLEAN
  BY DEF CallOfSave
<1>2. mem' \in Image /\ mem' # NoVault /\ modified' \in BOOLEAN
  BY <1>1, FilesAssumption DEF Inv, TypeOK, Failed, IsOpen
<1>3. ~modified' => file' = mem'
  <2>1. CASE call.kind = "group"
    BY <2>1 DEF Inv, UndoSound, Failed
  <2>2. CASE call.kind = "open"
    BY <2>2 DEF Inv, CallSound, Failed
  <2>3. CASE call.kind = "save"
    BY <2>3 DEF Inv, UndoSound, Failed
  <2> QED
    BY <1>1, <2>1, <2>2, <2>3
<1> QED
  BY <1>2, <1>3, IdleSound DEF Inv, TypeOK, Failed, IsOpen, AnyImage

\* A step within save_vault that is not its last leaves memory and file alone.
LEMMA StepSound ==
    ASSUME Inv, call \in CallOfSave, call.step # "sync",
           NEW step \in Steps \ {"sync"}, NEW copy \in Nat,
           call' = [call EXCEPT !.step = step, !.copy = copy],
           UNCHANGED <<mem, modified, file, survivors>>,
           tmp' \in Files, backups' \in Seq(AnyImage),
           step = "copy" => copy \in 1..Len(backups'),
           step = "rename" => tmp' = call.image
    PROVE  Inv'
<1>1. /\ call' \in CallOfSave /\ call'.step = step /\ call'.copy = copy
      /\ call'.kind = call.kind /\ call'.image = call.image
      /\ call'.undo = call.undo /\ call'.was = call.was
  BY DEF CallOfSave
<1>2. IsOpen
  BY Kinds DEF Inv, TypeOK, Idle
<1>3. TypeOK'
  BY <1>1, <1>2 DEF Inv, TypeOK, IsOpen, AnyImage
<1>4. CallSound'
  BY <1>1 DEF Inv, CallSound
<1>5. UndoSound'
  BY <1>1, <1>2 DEF Inv, UndoSound, IsOpen
<1> QED
  BY <1>3, <1>4, <1>5 DEF Inv

\* So do the steps that keep the place of the copy.
LEMMA NextStepSound ==
    ASSUME Inv, call \in CallOfSave, call.step # "sync",
           NEW step \in Steps \ {"sync", "copy"},
           call' = [call EXCEPT !.step = step],
           UNCHANGED <<mem, modified, file, survivors>>,
           tmp' \in Files, backups' \in Seq(AnyImage),
           step = "rename" => tmp' = call.image
    PROVE  Inv'
<1>1. call.copy \in Nat /\ call' = [call EXCEPT !.step = step, !.copy = call.copy]
  BY DEF CallOfSave
<1> QED
  BY <1>1, StepSound

-----------------------------------------------------------------------------
(* What holds in every behaviour *)

\* The invariant is inductive.
THEOREM Invariance == Spec => []Inv
<1>1. Init => Inv
  <2> SUFFICES ASSUME Init PROVE Inv
    OBVIOUS
  <2>1. TypeOK
    <3>1. file \in Image /\ survivors \subseteq Image /\ <<>> \in Seq(AnyImage)
      BY InitialImagesAssumption DEF Init
    <3> QED
      BY <3>1 DEF Init, TypeOK, IsOpen, Files, AnyImage
  <2>2. CallSound /\ UndoSound
    BY Kinds DEF Init, CallSound, UndoSound, IsOpen
  <2> QED
    BY <2>1, <2>2 DEF Inv
<1>2. Inv /\ [Next]_vars => Inv'
  <2> SUFFICES ASSUME Inv, [Next]_vars
               PROVE  Inv'
    OBVIOUS
  <2> USE DEF AnyImage
  <2>0. TypeOK
    BY DEF Inv
  <2>1. CASE Open
    <3>1. file \in Image /\ file # NoVault /\ file \in AnyImage
      BY <2>1, FilesAssumption DEF Open
    <3>2. CASE file.old
      <4> DEFINE migrated == [data |-> Empty, old |-> FALSE]
      <4>1. PICK backup \in BOOLEAN :
               call' = Saving("open", backup, migrated, [file EXCEPT !.old = FALSE], TRUE)
        BY <2>1, <3>2 DEF Open
      <4>2. migrated \in Image /\ [file EXCEPT !.old = FALSE] \in Image
        BY <3>1 DEF Image
      <4>3. mem' = migrated /\ modified' = TRUE /\ UNCHANGED <<file, tmp, backups, survivors>>
        BY <2>1, <3>2 DEF Open
      <4> QED
        BY <2>0, <3>1, <4>1, <4>2, <4>3, SavingSound
    <3>3. CASE ~file.old
      BY <2>0, <2>1, <3>1, <3>3, IdleSound DEF Open, TypeOK, IsOpen
    <3> QED
      BY <3>2, <3>3
  <2>2. CASE Close
    BY <2>0, <2>2, IdleSound DEF Close, TypeOK, IsOpen
  <2>3. CASE Save
    <3>1. PICK backup \in BOOLEAN : call' = Saving("save", backup, mem, mem, modified)
      BY <2>3 DEF Save
    <3>2. /\ mem \in Image /\ modified \in BOOLEAN
          /\ UNCHANGED <<mem, modified, file, tmp, backups, survivors>>
      BY <2>0, <2>3 DEF Save, TypeOK, IsOpen
    <3>3. ~modified => file = mem
      BY <2>3, Kinds DEF Save, Inv, UndoSound
    <3> QED
      BY <2>0, <3>1, <3>2, <3>3, SavingSound
  <2>4. ASSUME NEW d \in Data \cup {Empty}, Edit(d) PROVE Inv'
    <3>1. mem' \in Image /\ mem' # NoVault
      BY <2>0, <2>4, EditType, FilesAssumption DEF Edit
    <3> QED
      BY <2>0, <2>4, <3>1, IdleSound DEF Edit, TypeOK, IsOpen
  <2>5. ASSUME NEW d \in Data \cup {Empty}, EditAndSave(d) PROVE Inv'
    <3>1. PICK backup \in BOOLEAN : call' = Saving("group", backup, mem', mem, modified)
      BY <2>5 DEF EditAndSave
    <3>2. mem' \in Image /\ mem \in Image /\ modified \in BOOLEAN
      BY <2>0, <2>5, EditType DEF EditAndSave, TypeOK
    <3>3. ~modified => file = mem
      BY <2>5, Kinds DEF EditAndSave, Inv, UndoSound
    <3>4. modified' = TRUE /\ UNCHANGED <<file, tmp, backups, survivors>>
      BY <2>5 DEF EditAndSave
    <3> QED
      BY <2>0, <3>1, <3>2, <3>3, <3>4, SavingSound
  <2>6. ASSUME NEW d \in Data \cup {Empty}, EditThenSave(d) PROVE Inv'
    <3>1. PICK backup \in BOOLEAN : call' = Saving("save", backup, mem', mem, modified)
      BY <2>6 DEF EditThenSave
    <3>2. mem' \in Image /\ mem \in Image /\ modified \in BOOLEAN
      BY <2>0, <2>6, EditType DEF EditThenSave, TypeOK
    <3>3. modified' = TRUE /\ UNCHANGED <<file, tmp, backups, survivors>>
      BY <2>6 DEF EditThenSave
    <3> QED
      BY <2>0, <3>1, <3>2, <3>3, SavingSound
  <2>7. CASE CopyStart
    <3>1. call \in CallOfSave /\ call.step = "backup"
      BY <2>0, <2>7, AtSave DEF CopyStart
    <3>2. PICK i \in 1..(Len(backups) + 1) :
             /\ backups' = InsertAt(backups, i, Torn)
             /\ call' = [call EXCEPT !.step = "copy", !.copy = i]
      BY <2>7 DEF CopyStart
    <3>3. /\ backups' \in Seq(AnyImage) /\ i \in 1..Len(backups') /\ i \in Nat
          /\ tmp' \in Files /\ UNCHANGED <<mem, modified, file, survivors>>
      <4>1. backups \in Seq(AnyImage) /\ Torn \in AnyImage
        BY <2>0 DEF TypeOK
      <4>2. backups' \in Seq(AnyImage) /\ Len(backups') = Len(backups) + 1
        BY <3>2, <4>1, InsertType
      <4> QED
        BY <2>0, <2>7, <4>1, <4>2 DEF CopyStart, TypeOK
    <3>4. "copy" \in Steps \ {"sync"}
      BY DEF Steps
    <3> QED
      BY <3>1, <3>2, <3>3, <3>4, StepSound
  <2>8. CASE CopyDone
    <3>1. call \in CallOfSave /\ call.step = "copy" /\ call.copy \in 1..Len(backups)
      BY <2>0, <2>8, AtSave DEF CopyDone, Inv, CallSound
    <3>2. backups \in Seq(AnyImage) /\ file \in AnyImage
      BY <2>0 DEF TypeOK
    <3>3. backups' \in Seq(AnyImage)
      BY <2>8, <3>1, <3>2, KeptType DEF CopyDone
    <3>4. /\ call' = [call EXCEPT !.step = "write"] /\ tmp' \in Files
          /\ UNCHANGED <<mem, modified, file, survivors>>
      BY <2>0, <2>8 DEF CopyDone, TypeOK
    <3>5. "write" \in Steps \ {"sync", "copy"}
      BY DEF Steps
    <3> QED
      BY <3>1, <3>3, <3>4, <3>5, NextStepSound
  <2>9. CASE CopyFails
    <3>1. call \in CallOfSave /\ IsOpen /\ call.step \in {"backup", "copy"}
      BY <2>0, <2>9, AtSave DEF CopyFails
    <3> QED
      BY <2>0, <2>9, <3>1, FailedSound DEF CopyFails, TypeOK
  <2>10. CASE WriteStart
    <3>1. call \in CallOfSave /\ call.step = "write"
      BY <2>0, <2>10, AtSave DEF WriteStart
    <3>2. "flush" \in Steps \ {"sync", "copy"} /\ Torn \in Files
      BY DEF Steps, Files
    <3> QED
      BY <2>0, <2>10, <3>1, <3>2, NextStepSound DEF WriteStart, TypeOK
  <2>11. CASE WriteDone
    <3>1. call \in CallOfSave /\ call.step = "flush" /\ call.image \in Files
      BY <2>0, <2>11, AtSave DEF WriteDone, CallOfSave, Files
    <3>2. "rename" \in Steps \ {"sync", "copy"}
      BY DEF Steps
    <3> QED
      BY <2>0, <2>11, <3>1, <3>2, NextStepSound DEF WriteDone, TypeOK
  <2>12. CASE WriteFails
    <3>1. call \in CallOfSave /\ IsOpen /\ call.step \in {"write", "flush", "rename"}
      BY <2>0, <2>12, AtSave DEF WriteFails
    <3>2. tmp' \in Files
      BY <2>0, <2>12 DEF WriteFails, TypeOK, Files
    <3> QED
      BY <2>0, <2>12, <3>1, <3>2, FailedSound DEF WriteFails
  <2>13. CASE Rename
    <3>1. call \in CallOfSave /\ IsOpen /\ call.step = "rename" /\ tmp = call.image
      BY <2>0, <2>13, AtSave DEF Rename, Inv, CallSound
    <3>2. /\ call' \in CallOfSave /\ call'.step = "sync" /\ call'.kind = call.kind
          /\ call'.image = call.image
      BY <2>13, <3>1 DEF Rename, CallOfSave, Steps
    <3>3. tmp \in Image /\ call.image = mem /\ file' = mem'
      BY <2>13, <3>1 DEF Rename, Inv, CallSound, CallOfSave
    <3>4. TypeOK'
      BY <2>0, <2>13, <3>1, <3>2, <3>3 DEF Rename, TypeOK, IsOpen, Files
    <3>5. CallSound'
      BY <2>13, <3>1, <3>2, <3>3 DEF Rename, Inv, CallSound
    <3>6. UndoSound'
      BY <2>13, <3>2, <3>3 DEF Rename, UndoSound
    <3> QED
      BY <3>4, <3>5, <3>6 DEF Inv
  <2>14. CASE SyncDirectory
    <3>1. call \in CallOfSave /\ IsOpen /\ call.step = "sync"
      BY <2>0, <2>14, AtSave DEF SyncDirectory
    <3>2. file = mem /\ call.undo \in Image /\ mem \in Image
      BY <2>0, <3>1 DEF Inv, CallSound, CallOfSave, TypeOK, IsOpen
    <3>3. /\ mem' \in Image /\ mem' # NoVault /\ modified' \in BOOLEAN
          /\ ~modified' => file' = mem'
      BY <2>14, <3>2, FilesAssumption DEF SyncDirectory
    <3>4. survivors' \subseteq AnyImage
      BY <2>0, <2>14 DEF SyncDirectory, TypeOK
    <3> QED
      BY <2>0, <2>14, <3>3, <3>4, IdleSound DEF SyncDirectory, TypeOK, IsOpen
  <2>15. CASE RestoreStart
    <3>1. TypeOK'
      BY <2>0, <2>15 DEF RestoreStart, TypeOK, IsOpen
    <3>2. CallSound' /\ UndoSound'
      BY <2>15, Kinds DEF RestoreStart, CallSound, UndoSound, IsOpen
    <3> QED
      BY <3>1, <3>2 DEF Inv
  <2>16. CASE RestoreDone
    <3>1. ~IsOpen
      BY <2>0, <2>16, Kinds DEF RestoreDone, TypeOK, Idle
    <3>2. backups[1] \in AnyImage
      <4>1. backups \in Seq(AnyImage) /\ backups # <<>>
        BY <2>0, <2>16, Kinds DEF RestoreDone, TypeOK, Idle
      <4> QED
        BY <4>1
    <3> QED
      BY <2>0, <2>16, <3>1, <3>2, IdleSound DEF RestoreDone, TypeOK, IsOpen
  <2>17. CASE RestoreFails
    <3>1. ~IsOpen
      BY <2>0, <2>17, Kinds DEF RestoreFails, TypeOK, Idle
    <3> QED
      BY <2>0, <2>17, <3>1, IdleSound DEF RestoreFails, TypeOK, IsOpen
  <2>18. CASE Crash
    BY <2>0, <2>18, IdleSound DEF Crash, TypeOK, IsOpen
  <2>19. CASE WriteBack
    <3>1. TypeOK'
      BY <2>0, <2>19 DEF WriteBack, TypeOK, IsOpen
    <3> QED
      BY <2>19, <3>1 DEF WriteBack, Inv, CallSound, UndoSound, IsOpen
  <2>20. CASE PowerFailure
    <3>1. file' \in AnyImage /\ survivors' \subseteq AnyImage /\ tmp' \in Files
      BY <2>0, <2>20 DEF PowerFailure, TypeOK, Files
    <3>2. backups' \in Seq(AnyImage)
      <4>1. backups \in Seq(AnyImage) /\ Torn \in AnyImage
        BY <2>0 DEF TypeOK
      <4>2. CASE backups # <<>>
        <5>1. 1 \in 1..Len(backups)
          BY <4>1, <4>2
        <5>2. [backups EXCEPT ![1] = Torn] \in Seq(AnyImage)
          BY <4>1, <5>1, ExceptSeq
        <5> QED
          BY <2>20, <4>1, <5>2 DEF PowerFailure
      <4> QED
        BY <2>20, <4>1, <4>2 DEF PowerFailure
    <3> QED
      BY <2>20, <3>1, <3>2, <2>0, IdleSound DEF PowerFailure, TypeOK, IsOpen
  <2>21. CASE UNCHANGED vars
    BY <2>21 DEF vars, Inv, TypeOK, CallSound, UndoSound, IsOpen
  <2> QED
    BY <2>1, <2>2, <2>3, <2>4, <2>5, <2>6, <2>7, <2>8, <2>9, <2>10, <2>11, <2>12, <2>13,
       <2>14, <2>15, <2>16, <2>17, <2>18, <2>19, <2>20, <2>21 DEF Next, SaveStep
<1> QED
  BY <1>1, <1>2, PTL DEF Spec

\* The variables and the running call always have their types.
THEOREM TypeCorrect == Spec => []TypeOK
<1>1. Inv => TypeOK
  BY DEF Inv
<1> QED
  BY <1>1, Invariance, PTL

\* A vault that is not marked modified is what its file holds, whatever failed.
THEOREM CleanAlwaysStored == Spec => []CleanMeansStored
<1>1. Inv => CleanMeansStored
  BY Kinds DEF Inv, UndoSound, CleanMeansStored
<1> QED
  BY <1>1, Invariance, PTL

-----------------------------------------------------------------------------
(* A backup precedes what a save replaces, as long as local time never repeats *)

\* Once a save has made its backup, the latest backup is the vault file.
BackupSound ==
    call \in CallOfSave =>
        /\ call.step = "copy" => call.copy = 1
        /\ call.backup /\ call.step \in {"write", "flush", "rename"} =>
              backups # <<>> /\ backups[1] = file

\* A call that begins with its backup or without one keeps that.
LEMMA BackupSaving ==
    ASSUME NEW kind \in {"save", "group", "open"}, NEW backup \in BOOLEAN,
           NEW image \in Image, NEW undo \in Image, NEW was \in BOOLEAN,
           call' = Saving(kind, backup, image, undo, was)
    PROVE  BackupSound'
BY DEF Saving, BackupSound

\* The newest of the backups that are kept is the one just copied.
LEMMA KeptFirst ==
    ASSUME NEW s \in Seq(AnyImage), 1 \in 1..Len(s), NEW e \in AnyImage
    PROVE  Kept([s EXCEPT ![1] = e]) # <<>> /\ Kept([s EXCEPT ![1] = e])[1] = e
<1> DEFINE t == [s EXCEPT ![1] = e]
<1>1. /\ t \in Seq(AnyImage) /\ Len(t) = Len(s) /\ Len(t) \in Nat /\ Len(t) >= 1
      /\ t[1] = e
  BY ExceptSeq
<1> HIDE DEF t
<1>2. CASE Len(t) > MaxBackups
  <2>1. MaxBackups \in Nat /\ MaxBackups >= 1
    BY MaxBackupsAssumption
  <2>2. \A i \in 1..MaxBackups : t[i] \in AnyImage
    BY <1>1, <1>2, <2>1
  <2>3. /\ SubSeq(t, 1, MaxBackups) \in Seq(AnyImage)
        /\ Len(SubSeq(t, 1, MaxBackups)) = MaxBackups
        /\ SubSeq(t, 1, MaxBackups)[1] = t[1]
    BY <1>1, <2>1, <2>2, SubSeqProperties
  <2> QED
    BY <1>1, <1>2, <2>1, <2>3 DEF Kept, t
<1>3. CASE ~(Len(t) > MaxBackups)
  BY <1>1, <1>3 DEF Kept, t
<1> QED
  BY <1>2, <1>3

\* The vault file is only ever replaced by a save that backs up when a backup
\* holds it.
THEOREM PreviousAlwaysKept ==
    ASSUME ~ClockRepeats
    PROVE  Spec => PreviousKept
<1>1. Init => BackupSound
  BY Kinds DEF Init, BackupSound
<1>2. Inv /\ BackupSound /\ [Next]_vars => BackupSound'
  <2> SUFFICES ASSUME Inv, BackupSound, [Next]_vars
               PROVE  BackupSound'
    OBVIOUS
  <2>0. TypeOK
    BY DEF Inv
  <2>2. CASE Open \/ Save
    <3>1. CASE UNCHANGED call
      BY <2>2, <3>1, Kinds DEF Open, Save, BackupSound
    <3>2. CASE Save
      <4>1. mem \in Image /\ modified \in BOOLEAN
        BY <2>0, <3>2 DEF Save, TypeOK, IsOpen
      <4> QED
        BY <3>2, <4>1, BackupSaving DEF Save
    <3>3. CASE Open /\ ~UNCHANGED call
      <4> DEFINE migrated == [data |-> Empty, old |-> FALSE]
                 reopened == [file EXCEPT !.old = FALSE]
      <4>1. migrated \in Image /\ reopened \in Image
        BY <3>3 DEF Open, Image
      <4>2. PICK backup \in BOOLEAN : call' = Saving("open", backup, migrated, reopened, TRUE)
        BY <3>3 DEF Open
      <4> QED
        BY <4>1, <4>2, BackupSaving
    <3> QED
      BY <2>2, <3>1, <3>2, <3>3
  <2>3. ASSUME NEW d \in Data \cup {Empty}, EditAndSave(d) \/ EditThenSave(d)
        PROVE  BackupSound'
    <3>1. mem \in Image /\ mem' \in Image /\ modified \in BOOLEAN
      BY <2>0, <2>3, EditType DEF EditAndSave, EditThenSave, TypeOK
    <3> QED
      BY <2>3, <3>1, BackupSaving DEF EditAndSave, EditThenSave
  <2>4. CASE CopyStart
    <3>1. call \in CallOfSave
      BY <2>0, <2>4, AtSave DEF CopyStart
    <3> QED
      BY <2>4, <3>1 DEF CopyStart, BackupSound, CallOfSave
  <2>5. CASE CopyDone
    <3>1. call \in CallOfSave /\ call.copy = 1 /\ 1 \in 1..Len(backups)
      BY <2>0, <2>5, AtSave DEF CopyDone, Inv, CallSound, BackupSound
    <3>2. backups \in Seq(AnyImage) /\ file \in AnyImage /\ file' = file
      BY <2>0, <2>5 DEF CopyDone, TypeOK, AnyImage
    <3>3. backups' # <<>> /\ backups'[1] = file'
      BY <2>5, <3>1, <3>2, KeptFirst DEF CopyDone
    <3> QED
      BY <2>5, <3>1, <3>3 DEF CopyDone, BackupSound, CallOfSave
  <2>6. CASE WriteStart \/ WriteDone
    <3>1. call \in CallOfSave
      BY <2>0, <2>6, AtSave DEF WriteStart, WriteDone
    <3>2. call'.backup = call.backup /\ call.step \in {"write", "flush"}
          /\ call'.step \in {"flush", "rename"}
      BY <2>0, <2>6, <3>1, AtSave DEF WriteStart, WriteDone, CallOfSave
    <3> QED
      BY <2>6, <3>1, <3>2 DEF WriteStart, WriteDone, BackupSound
  <2>7. CASE Rename
    <3>1. call \in CallOfSave
      BY <2>0, <2>7, AtSave DEF Rename
    <3>2. call'.step = "sync"
      BY <2>7, <3>1 DEF Rename, CallOfSave
    <3> QED
      BY <3>2 DEF BackupSound
  <2>8. CASE WriteBack \/ UNCHANGED vars
    BY <2>8 DEF WriteBack, vars, BackupSound
  <2>9. ASSUME NEW d \in Data \cup {Empty}, Edit(d)
        PROVE  BackupSound'
    BY <2>9, Kinds DEF Edit, BackupSound
  <2>10. CASE Close \/ Crash \/ PowerFailure \/ CopyFails \/ WriteFails \/ SyncDirectory
              \/ RestoreStart \/ RestoreDone \/ RestoreFails
    BY <2>10, Kinds DEF Close, Crash, PowerFailure, CopyFails, WriteFails, Failed,
       SyncDirectory, RestoreStart, RestoreDone, RestoreFails, BackupSound
  <2> QED
    BY <2>2, <2>3, <2>4, <2>5, <2>6, <2>7, <2>8, <2>9, <2>10 DEF Next, SaveStep
<1>3. Inv /\ BackupSound /\ [Next]_vars =>
         [Rename /\ call.backup => \E i \in 1..Len(backups) : backups[i] = file]_vars
  <2> SUFFICES ASSUME Inv, BackupSound, Rename, call.backup
               PROVE  \E i \in 1..Len(backups) : backups[i] = file
    OBVIOUS
  <2>1. call \in CallOfSave /\ call.step = "rename"
    BY AtSave DEF Rename, Inv
  <2>2. backups # <<>> /\ backups[1] = file /\ backups \in Seq(AnyImage)
    BY <2>1 DEF BackupSound, Inv, TypeOK, AnyImage
  <2>3. 1 \in 1..Len(backups)
    BY <2>2
  <2> QED
    BY <2>2, <2>3
<1> QED
  BY <1>1, <1>2, <1>3, Invariance, PTL DEF Spec, PreviousKept

-----------------------------------------------------------------------------
(* The vault file is complete *)

\* Only restoring and a power failure ever leave a torn vault file.
THEOREM OnlyRestoringTears == Spec => OnlyRestoreTears
<1>1. Inv /\ [Next]_vars =>
         [file' = Torn /\ file # Torn => RestoreStart \/ RestoreDone \/ PowerFailure]_vars
  <2> SUFFICES ASSUME Inv, Next, file' = Torn, file # Torn
               PROVE  RestoreStart \/ RestoreDone \/ PowerFailure
    OBVIOUS
  <2>1. CASE Rename
    <3>1. call \in CallOfSave /\ file' = call.image
      BY <2>1, AtSave DEF Rename, Inv, CallSound
    <3> QED
      BY <3>1, FilesAssumption DEF CallOfSave
  <2>2. CASE ~Rename
    BY <2>2 DEF Next, SaveStep, Open, Close, Save, Edit, EditAndSave, EditThenSave,
       CopyStart, CopyDone, CopyFails, WriteStart, WriteDone, WriteFails, SyncDirectory,
       RestoreFails, Crash, WriteBack
  <2> QED
    BY <2>1, <2>2
<1> QED
  BY <1>1, Invariance, PTL DEF Spec, OnlyRestoreTears

-----------------------------------------------------------------------------
(* Saving is atomic, whatever fails and migrates *)

Recent == {i \in Image : ~i.old} \cup {Torn}

\* Whether a login may find a user by an old hash.
Migrates == \E i \in InitialImages : i.old

\* Nothing anywhere is outdated, so that no vault is opened with a migration.
NothingOld ==
    /\ file \in Recent /\ mem \in Recent \cup {NoVault}
    /\ backups \in Seq(Recent) /\ survivors \subseteq Recent
    /\ call \in CallOfSave =>
          call.image \in Recent /\ call.undo \in Recent /\ call.kind # "open"

\* A call that begins with a recent vault is no migration.
LEMMA RecentSaving ==
    ASSUME NEW kind \in {"save", "group"}, NEW backup \in BOOLEAN,
           NEW image \in Image, NEW undo \in Image, NEW was \in BOOLEAN,
           image \in Recent, undo \in Recent,
           call' = Saving(kind, backup, image, undo, was)
    PROVE  (call \in CallOfSave =>
               call.image \in Recent /\ call.undo \in Recent /\ call.kind # "open")'
BY SavingType

\* A step of a call that keeps what it saves keeps it recent.
LEMMA RecentStep ==
    ASSUME NothingOld, call \in CallOfSave,
           NEW step, NEW copy \in Nat, call' = [call EXCEPT !.step = step, !.copy = copy]
    PROVE  /\ call'.image = call.image /\ call'.undo = call.undo /\ call'.kind = call.kind
           /\ (call \in CallOfSave =>
                 call.image \in Recent /\ call.undo \in Recent /\ call.kind # "open")'
BY DEF CallOfSave, NothingOld

\* Without outdated images at first, nothing becomes outdated.
LEMMA NothingOldInvariant ==
    ASSUME ~Migrates
    PROVE  Spec => []NothingOld
<1>1. Init => NothingOld
  <2> SUFFICES ASSUME Init PROVE NothingOld
    OBVIOUS
  <2>1. file \in Recent /\ <<>> \in Seq(Recent)
    BY InitialImagesAssumption DEF Init, Recent, Migrates
  <2> QED
    BY <2>1, Kinds DEF Init, NothingOld
<1>2. Inv /\ NothingOld /\ [Next]_vars => NothingOld'
  <2> SUFFICES ASSUME Inv, NothingOld, [Next]_vars
               PROVE  NothingOld'
    OBVIOUS
  <2>0. TypeOK
    BY DEF Inv
  <2>1. CASE Open
    <3>1. ~file.old /\ file \in Recent
      BY <2>1, FilesAssumption DEF Open, NothingOld, Recent
    <3> QED
      BY <2>1, <3>1, Kinds DEF Open, NothingOld
  <2>2. CASE Close \/ Crash
    BY <2>2, Kinds DEF Close, Crash, NothingOld
  <2>3. CASE Save
    <3>1. mem \in Image /\ mem \in Recent /\ modified \in BOOLEAN
      BY <2>0, <2>3 DEF Save, TypeOK, IsOpen, NothingOld
    <3>2. PICK backup \in BOOLEAN : call' = Saving("save", backup, mem, mem, modified)
      BY <2>3 DEF Save
    <3> QED
      BY <2>3, <3>1, <3>2, RecentSaving DEF Save, NothingOld
  <2>4. ASSUME NEW d \in Data \cup {Empty}, Edit(d) \/ EditAndSave(d) \/ EditThenSave(d)
        PROVE  NothingOld'
    <3>1. IsOpen /\ mem' = [mem EXCEPT !.data = d] /\ modified \in BOOLEAN
          /\ UNCHANGED <<file, backups, survivors>>
      BY <2>0, <2>4 DEF Edit, EditAndSave, EditThenSave, TypeOK
    <3>2. mem \in Image /\ mem' \in Image /\ mem \in Recent /\ mem' \in Recent
      <4>1. mem \in Image /\ mem' \in Image /\ mem \in Recent
        BY <2>0, <3>1, EditType DEF IsOpen, NothingOld
      <4>2. mem'.old = mem.old /\ ~mem.old
        BY <3>1, <4>1, FilesAssumption DEF Image, Recent
      <4> QED
        BY <4>1, <4>2 DEF Recent
    <3>3. CASE Edit(d)
      BY <3>1, <3>2, <3>3, Kinds DEF Edit, NothingOld
    <3>4. CASE EditAndSave(d)
      <4>1. PICK backup \in BOOLEAN : call' = Saving("group", backup, mem', mem, modified)
        BY <3>4 DEF EditAndSave
      <4> QED
        BY <3>1, <3>2, <4>1, RecentSaving DEF NothingOld
    <3>5. CASE EditThenSave(d)
      <4>1. PICK backup \in BOOLEAN : call' = Saving("save", backup, mem', mem, modified)
        BY <3>5 DEF EditThenSave
      <4> QED
        BY <3>1, <3>2, <4>1, RecentSaving DEF NothingOld
    <3> QED
      BY <2>4, <3>3, <3>4, <3>5
  <2>5. CASE CopyStart
    <3>1. call \in CallOfSave
      BY <2>0, <2>5, AtSave DEF CopyStart
    <3>2. PICK i \in 1..(Len(backups) + 1) :
             /\ backups' = InsertAt(backups, i, Torn)
             /\ call' = [call EXCEPT !.step = "copy", !.copy = i]
      BY <2>5 DEF CopyStart
    <3>3. backups' \in Seq(Recent) /\ i \in Nat
      <4>1. backups \in Seq(Recent) /\ Torn \in Recent
        BY DEF NothingOld, Recent
      <4> QED
        BY <3>2, <4>1, InsertType
    <3> QED
      BY <2>5, <3>1, <3>2, <3>3, RecentStep DEF CopyStart, NothingOld
  <2>6. CASE CopyDone
    <3>1. call \in CallOfSave /\ call.copy \in 1..Len(backups) /\ call.copy \in Nat
      BY <2>0, <2>6, AtSave DEF CopyDone, Inv, CallSound, CallOfSave
    <3>2. backups' \in Seq(Recent)
      BY <2>6, <3>1, KeptType DEF CopyDone, NothingOld
    <3>3. call' = [call EXCEPT !.step = "write", !.copy = call.copy]
      BY <2>6, <3>1 DEF CopyDone, CallOfSave
    <3> QED
      BY <2>6, <3>1, <3>2, <3>3, RecentStep DEF CopyDone, NothingOld
  <2>7. CASE CopyFails \/ WriteFails
    <3>1. call \in CallOfSave
      BY <2>0, <2>7, AtSave DEF CopyFails, WriteFails
    <3> QED
      BY <2>7, <3>1, Kinds DEF CopyFails, WriteFails, Failed, NothingOld
  <2>8. CASE WriteStart \/ WriteDone \/ Rename
    <3>1. call \in CallOfSave
      BY <2>0, <2>8, AtSave DEF WriteStart, WriteDone, Rename
    <3>2. PICK step : call' = [call EXCEPT !.step = step]
      BY <2>8 DEF WriteStart, WriteDone, Rename
    <3>3. call.copy \in Nat /\ call' = [call EXCEPT !.step = step, !.copy = call.copy]
      BY <3>1, <3>2 DEF CallOfSave
    <3>4. file' \in Recent /\ survivors' \subseteq Recent
      <4>1. CASE Rename
        <5>1. tmp \in Recent /\ Torn \in Recent
          BY <2>0, <3>1, <4>1, AtSave DEF Rename, Inv, CallSound, NothingOld, Recent
        <5> QED
          BY <4>1, <5>1 DEF Rename, NothingOld
      <4>2. CASE ~Rename
        BY <2>8, <4>2 DEF WriteStart, WriteDone, NothingOld
      <4> QED
        BY <4>1, <4>2
    <3> QED
      BY <2>8, <3>1, <3>3, <3>4, RecentStep DEF WriteStart, WriteDone, Rename, NothingOld
  <2>9. CASE SyncDirectory
    <3>1. call \in CallOfSave
      BY <2>0, <2>9, AtSave DEF SyncDirectory
    <3> QED
      BY <2>9, <3>1, Kinds DEF SyncDirectory, NothingOld
  <2>10. CASE RestoreStart \/ RestoreDone \/ RestoreFails
    <3>1. call \notin CallOfSave /\ call' \notin CallOfSave
      BY <2>10, Kinds DEF RestoreStart, RestoreDone, RestoreFails
    <3>2. RestoreDone => backups[1] \in Recent
      BY <2>0, Kinds DEF RestoreDone, TypeOK, Idle, NothingOld
    <3> QED
      BY <2>10, <3>1, <3>2 DEF RestoreStart, RestoreDone, RestoreFails, NothingOld, Recent
  <2>11. CASE WriteBack \/ UNCHANGED vars
    BY <2>11 DEF WriteBack, vars, NothingOld
  <2>12. CASE PowerFailure
    <3>1. /\ file' \in Recent /\ mem' = NoVault /\ survivors' \subseteq Recent
          /\ call' \notin CallOfSave
      BY <2>12, Kinds DEF PowerFailure, NothingOld
    <3>2. backups' \in Seq(Recent)
      <4>1. backups \in Seq(Recent) /\ Torn \in Recent
        BY DEF NothingOld, Recent
      <4>2. CASE backups # <<>>
        <5>1. 1 \in 1..Len(backups)
          BY <4>1, <4>2
        <5>2. [backups EXCEPT ![1] = Torn] \in Seq(Recent)
          BY <4>1, <5>1, ExceptSeq
        <5> QED
          BY <2>12, <4>1, <5>2 DEF PowerFailure
      <4> QED
        BY <2>12, <4>1, <4>2 DEF PowerFailure
    <3> QED
      BY <3>1, <3>2 DEF NothingOld
  <2> QED
    BY <2>1, <2>2, <2>3, <2>4, <2>5, <2>6, <2>7, <2>8, <2>9, <2>10, <2>11, <2>12
       DEF Next, SaveStep
<1> QED
  BY <1>1, <1>2, Invariance, PTL DEF Spec

\* Saving is atomic: every behaviour, with its failures and migrations, is one
\* of a file that a save replaces at once.
THEOREM SavingIsAtomic == Spec => SavesAtomically
<1> DEFINE working == IF Opening THEN NoVault ELSE IF Pending THEN call.undo ELSE mem
           dirty == IF Opening \/ At("sync") THEN FALSE
                    ELSE IF Pending THEN call.was ELSE modified
           current == Migrates \/ NothingOld
<1>1. Init => Register!Init
  BY Kinds, InitialImagesAssumption DEF Init, Register!Init, Opening, Pending, At, Idle
<1>2. Inv /\ current /\ [Next]_vars => [Register!Next]_(Register!vars)
  <2> SUFFICES ASSUME Inv, current, [Next]_vars
               PROVE  Register!Next \/ UNCHANGED <<file, working, dirty>>
    BY DEF Register!vars
  <2>0. TypeOK /\ (call = Idle => working = mem /\ dirty = modified)
               /\ (call' = Idle => working' = mem' /\ dirty' = modified')
    BY Kinds DEF Inv, Opening, Pending, At
  <2> HIDE DEF working, dirty
  <2>1. CASE Open
    <3>1. call = Idle /\ file \in Image /\ modified' = TRUE /\ UNCHANGED file
      BY <2>1 DEF Open
    <3>2. CASE file.old
      <4>1. PICK backup \in BOOLEAN :
               call' = Saving("open", backup, [data |-> Empty, old |-> FALSE],
                              [file EXCEPT !.old = FALSE], TRUE)
        BY <2>1, <3>2 DEF Open
      <4>2. call'.kind = "open"
        BY <4>1 DEF Saving
      <4>3. Register!Forget
        BY <3>1, <4>2 DEF Register!Forget, Opening, working, dirty
      <4> QED
        BY <4>3 DEF Register!Next
    <3>3. CASE ~file.old
      <4>1. call' = Idle /\ mem' = file
        BY <2>1, <3>1, <3>3 DEF Open
      <4>2. Register!Load
        BY <2>0, <3>1, <4>1 DEF Register!Load, working, dirty
      <4> QED
        BY <4>2 DEF Register!Next
    <3> QED
      BY <3>2, <3>3
  <2>2. CASE Close \/ Crash
    <3>1. call' = Idle /\ mem' = NoVault /\ modified' = FALSE /\ UNCHANGED file
      BY <2>2 DEF Close, Crash
    <3>2. Register!Forget
      BY <2>0, <3>1 DEF Register!Forget, working, dirty
    <3> QED
      BY <3>2 DEF Register!Next
  <2>3. CASE Save
    <3>1. PICK backup \in BOOLEAN : call' = Saving("save", backup, mem, mem, modified)
      BY <2>3 DEF Save
    <3>2. mem \in Image /\ modified \in BOOLEAN
      BY <2>0, <2>3 DEF Save, TypeOK, IsOpen
    <3>3. call'.kind = "save" /\ call'.step # "sync"
      BY <3>1, <3>2, SavingType
    <3> QED
      BY <2>0, <2>3, <3>3 DEF Save, Opening, Pending, At, working, dirty
  <2>4. ASSUME NEW d \in Data \cup {Empty}, Edit(d) \/ EditThenSave(d)
        PROVE  Register!Next
    <3>1. /\ call = Idle /\ IsOpen /\ mem' = [mem EXCEPT !.data = d] /\ modified' = TRUE
          /\ UNCHANGED file
      BY <2>4 DEF Edit, EditThenSave
    <3>2. mem \in Image /\ mem' \in Image /\ mem # NoVault /\ modified \in BOOLEAN
      BY <2>0, <3>1, EditType DEF IsOpen, TypeOK
    <3>3. working' = mem' /\ dirty' = modified'
      <4>1. CASE Edit(d)
        BY <2>0, <4>1 DEF Edit
      <4>2. CASE EditThenSave(d)
        <5>1. PICK backup \in BOOLEAN : call' = Saving("save", backup, mem', mem, modified)
          BY <4>2 DEF EditThenSave
        <5>2. call'.kind = "save" /\ call'.step # "sync"
          BY <3>2, <5>1, SavingType
        <5> QED
          BY <5>2 DEF Opening, Pending, At, working, dirty
      <4> QED
        BY <2>4, <4>1, <4>2
    <3>4. Register!Edit
      BY <2>0, <3>1, <3>2, <3>3 DEF Register!Edit, working, dirty
    <3> QED
      BY <3>4 DEF Register!Next
  <2>5. ASSUME NEW d \in Data \cup {Empty}, EditAndSave(d)
        PROVE  UNCHANGED <<file, working, dirty>>
    <3>1. PICK backup \in BOOLEAN : call' = Saving("group", backup, mem', mem, modified)
      BY <2>5 DEF EditAndSave
    <3>2. mem \in Image /\ mem' \in Image /\ modified \in BOOLEAN
      BY <2>0, <2>5, EditType DEF EditAndSave, TypeOK
    <3>3. /\ call'.kind = "group" /\ call'.step # "sync"
          /\ call'.undo = mem /\ call'.was = modified
      BY <3>1, <3>2, SavingType
    <3> QED
      BY <2>0, <2>5, <3>3 DEF EditAndSave, Opening, Pending, At, working, dirty
  <2>6. CASE CopyStart \/ CopyDone \/ WriteStart \/ WriteDone
    <3>1. call \in CallOfSave /\ call.step # "sync"
      <4>1. PICK step \in {"backup", "copy", "write", "flush"} : At(step)
        BY <2>6 DEF CopyStart, CopyDone, WriteStart, WriteDone
      <4> QED
        BY <2>0, <4>1, AtSave
    <3>2. /\ call'.kind = call.kind /\ call'.step # "sync"
          /\ call'.undo = call.undo /\ call'.was = call.was
      BY <2>6, <3>1 DEF CopyStart, CopyDone, WriteStart, WriteDone, CallOfSave
    <3> QED
      BY <2>6, <3>1, <3>2
         DEF CopyStart, CopyDone, WriteStart, WriteDone, Opening, Pending, At, working, dirty
  <2>7. CASE CopyFails \/ WriteFails
    <3>1. /\ call \in CallOfSave /\ call.step # "sync"
          /\ call.kind \in {"save", "group", "open"} /\ call.undo \in Image
      BY <2>0, <2>7, AtSave DEF CopyFails, WriteFails, CallOfSave
    <3>2. Failed /\ UNCHANGED file
      BY <2>7 DEF CopyFails, WriteFails
    <3>3. CASE call.kind # "open"
      <4>1. working' = working /\ dirty' = dirty
        BY <2>0, <3>1, <3>2, <3>3 DEF Failed, Opening, Pending, At, working, dirty
      <4> QED
        BY <3>2, <4>1
    <3>4. CASE call.kind = "open"
      <4>1. Migrates /\ file \in Image /\ modified
        BY <3>1, <3>4 DEF NothingOld, Inv, CallSound
      <4>2. working' = call.undo /\ dirty' = TRUE
        BY <2>0, <3>2, <3>4, <4>1 DEF Failed, Inv, TypeOK
      <4>3. Register!Load
        BY <3>1, <3>2, <4>1, <4>2 DEF Register!Load, Migrates, working, dirty
      <4> QED
        BY <4>3 DEF Register!Next
    <3> QED
      BY <3>3, <3>4
  <2>8. CASE Rename
    <3>1. /\ call \in CallOfSave /\ call.step = "rename"
          /\ call.kind \in {"save", "group", "open"}
          /\ call.image \in Image /\ call.undo \in Image /\ call.image = mem
          /\ tmp = call.image
      BY <2>0, <2>8, AtSave DEF Rename, Inv, CallSound, CallOfSave
    <3>2. call'.kind = call.kind /\ call'.step = "sync"
      BY <2>8, <3>1 DEF Rename, CallOfSave
    <3>3. file' = mem /\ mem' = mem
      BY <2>8, <3>1 DEF Rename
    <3>4. CASE call.kind = "save"
      <4>1. working = mem /\ mem # NoVault /\ working' = mem /\ dirty' = FALSE
        BY <3>1, <3>2, <3>3, <3>4, FilesAssumption DEF Opening, Pending, At, working, dirty
      <4>2. Register!Save
        BY <3>3, <4>1 DEF Register!Save, working, dirty
      <4> QED
        BY <4>2 DEF Register!Next
    <3>5. CASE call.kind = "group"
      <4>1. working # NoVault /\ working' = mem /\ dirty' = FALSE
        BY <3>1, <3>2, <3>3, <3>5, FilesAssumption DEF Opening, Pending, At, working, dirty
      <4>2. Register!EditAndSave
        BY <3>1, <3>3, <4>1 DEF Register!EditAndSave, working, dirty
      <4> QED
        BY <4>2 DEF Register!Next
    <3>6. CASE call.kind = "open"
      <4>1. working = NoVault /\ UNCHANGED <<working, dirty>>
        BY <3>2, <3>6 DEF Opening, working, dirty
      <4>2. Register!Replace
        BY <3>1, <3>3, <4>1 DEF Register!Replace, working, dirty
      <4> QED
        BY <4>2 DEF Register!Next
    <3> QED
      BY <3>1, <3>4, <3>5, <3>6
  <2>9. CASE SyncDirectory
    <3>1. /\ call \in CallOfSave /\ call.step = "sync" /\ At("sync")
          /\ call.image \in Image /\ call.undo \in Image
      BY <2>0, <2>9, AtSave DEF SyncDirectory, CallOfSave
    <3>2. CASE call.kind # "open"
      <4>1. working = mem /\ dirty = FALSE
        BY <3>1, <3>2 DEF Opening, Pending, working, dirty
      <4> QED
        BY <2>0, <2>9, <3>2, <4>1 DEF SyncDirectory
    <3>3. CASE call.kind = "open"
      <4>1. Migrates /\ file \in Image /\ UNCHANGED file
        BY <2>9, <3>1, <3>3 DEF SyncDirectory, NothingOld, Inv, CallSound
      <4>2. working' = call.undo /\ dirty' = TRUE
        BY <2>0, <2>9, <3>3 DEF SyncDirectory
      <4>3. Register!Load
        BY <3>1, <4>1, <4>2 DEF Register!Load, Migrates, working, dirty
      <4> QED
        BY <4>3 DEF Register!Next
    <3> QED
      BY <3>2, <3>3
  <2>10. CASE RestoreStart \/ RestoreDone
    <3>1. /\ mem = NoVault /\ file' \in Image \cup {Torn} /\ UNCHANGED <<mem, modified>>
          /\ call.kind \in {"none", "restore"} /\ call'.kind \in {"none", "restore"}
      <4>1. CASE RestoreStart
        BY <4>1, Kinds DEF RestoreStart, IsOpen
      <4>2. CASE RestoreDone
        <5>1. backups \in Seq(AnyImage) /\ backups # <<>> /\ ~IsOpen
          BY <2>0, <4>2, Kinds DEF RestoreDone, TypeOK, Idle, AnyImage
        <5>2. backups[1] \in AnyImage
          BY <5>1
        <5> QED
          BY <4>2, <5>1, <5>2, Kinds DEF RestoreDone, IsOpen, AnyImage
      <4> QED
        BY <2>10, <4>1, <4>2
    <3>2. working = NoVault /\ working' = working /\ dirty' = dirty
      BY <3>1 DEF Opening, Pending, At, working, dirty
    <3>3. Register!Replace
      BY <3>1, <3>2 DEF Register!Replace, working, dirty
    <3> QED
      BY <3>3 DEF Register!Next
  <2>11. CASE RestoreFails
    <3>1. working = mem /\ dirty = modified
      BY <2>11 DEF RestoreFails, Opening, Pending, At, working, dirty
    <3> QED
      BY <2>0, <2>11, <3>1 DEF RestoreFails
  <2>12. CASE WriteBack \/ UNCHANGED vars
    BY <2>12 DEF WriteBack, vars, Opening, Pending, At, working, dirty
  <2>13. CASE PowerFailure
    <3>1. /\ PowerFails /\ call' = Idle /\ mem' = NoVault /\ modified' = FALSE
          /\ file' \in Image \cup {Torn}
      BY <2>0, <2>13 DEF PowerFailure, TypeOK
    <3>2. Register!PowerFailure
      BY <2>0, <3>1 DEF Register!PowerFailure, working, dirty
    <3> QED
      BY <3>2 DEF Register!Next
  <2> QED
    BY <2>1, <2>2, <2>3, <2>4, <2>5, <2>6, <2>7, <2>8, <2>9, <2>10, <2>11, <2>12, <2>13
       DEF Next, SaveStep
<1>3. Spec => []current
  <2>1. CASE Migrates
    <3>1. current
      BY <2>1
    <3> QED
      BY <3>1, PTL
  <2>2. CASE ~Migrates
    <3>1. NothingOld => current
      OBVIOUS
    <3> QED
      BY <2>2, <3>1, NothingOldInvariant, PTL
  <2> QED
    BY <2>1, <2>2
<1> QED
  BY <1>1, <1>2, <1>3, Invariance, PTL DEF Spec, SavesAtomically, Register!Spec

-----------------------------------------------------------------------------
(* The bytes of the file (VaultFile): where slots begin *)

\* The order of the naturals, as a set, is well-founded.
LEMMA Smaller == IsWellFoundedOn({ss \in Nat \X Nat : ss[1] < ss[2]}, Nat)
<1>1. OpToRel(<, Nat) = {ss \in Nat \X Nat : ss[1] < ss[2]}
  BY DEF OpToRel
<1> QED
  BY <1>1, NatLessThanWellFounded, Zenon

\* A set with zero and every successor has every natural.
LEMMA Upwards ==
    ASSUME NEW T \in SUBSET Nat, 0 \in T, \A n \in T : n + 1 \in T
    PROVE  T = Nat
<1>1. SUFFICES ASSUME Nat \ T # {} PROVE FALSE
  OBVIOUS
<1>2. \E x \in Nat \ T : \A y \in Nat \ T : ~(<<y, x>> \in {ss \in Nat \X Nat : ss[1] < ss[2]})
  BY <1>1, Smaller, WFMin
<1>3. PICK x \in Nat \ T : \A y \in Nat \ T : ~(y < x)
  BY <1>2
<1> QED
  BY <1>3

\* g adds up the first N values of w, from z on.
AddsUp(g, z, w, N) ==
    g = [n \in 0..N |-> IF n = 0 THEN z ELSE g[n - 1] + w[n]]

\* There are such sums ...
LEMMA SumsExist ==
    ASSUME NEW N \in Nat, NEW z \in Nat, NEW w \in [1..N -> Nat]
    PROVE  \E g : AddsUp(g, z, w, N)
<1> DEFINE Works(n) == \E g \in [0..n -> Nat] :
                            g[0] = z /\ \A k \in 1..n : g[k] = g[k - 1] + w[k]
           T == {n \in Nat : n <= N => Works(n)}
<1>1. Works(0)
  <2> DEFINE g == [k \in 0..0 |-> z]
  <2>1. g \in [0..0 -> Nat] /\ g[0] = z /\ \A k \in 1..0 : g[k] = g[k - 1] + w[k]
    OBVIOUS
  <2> QED
    BY <2>1
<1>2. ASSUME NEW n \in Nat, n + 1 <= N, Works(n) PROVE Works(n + 1)
  <2>1. PICK g \in [0..n -> Nat] : g[0] = z /\ \A k \in 1..n : g[k] = g[k - 1] + w[k]
    BY <1>2
  <2> DEFINE h == [k \in 0..n + 1 |-> IF k = n + 1 THEN g[n] + w[n + 1] ELSE g[k]]
  <2>2. g[n] \in Nat /\ w[n + 1] \in Nat
    BY <1>2
  <2>3. h \in [0..n + 1 -> Nat]
    BY <2>2
  <2>4. h[n + 1] = g[n] + w[n + 1] /\ \A k \in 0..n : h[k] = g[k]
    OBVIOUS
  <2> HIDE DEF h
  <2>5. ASSUME NEW k \in 1..n + 1 PROVE h[k] = h[k - 1] + w[k]
    <3>1. CASE k = n + 1
      BY <2>4, <3>1
    <3>2. CASE k # n + 1
      <4>1. k \in 1..n /\ k \in 0..n /\ k - 1 \in 0..n
        BY <3>2
      <4> QED
        BY <2>1, <2>4, <4>1
    <3> QED
      BY <3>1, <3>2
  <2>6. h[0] = z
    BY <2>1, <2>4
  <2> QED
    BY <2>3, <2>5, <2>6
<1> HIDE DEF Works
<1>3. Works(N)
  <2>1. T \in SUBSET Nat /\ 0 \in T /\ \A n \in T : n + 1 \in T
    BY <1>1, <1>2
  <2>2. T = Nat
    <3> HIDE DEF T
    <3> QED
      BY <2>1, Upwards
  <2> QED
    BY <2>2
<1>4. PICK g \in [0..N -> Nat] : g[0] = z /\ \A k \in 1..N : g[k] = g[k - 1] + w[k]
  BY <1>3 DEF Works
<1>5. g = [n \in 0..N |-> IF n = 0 THEN z ELSE g[n - 1] + w[n]]
  <2>1. \A n \in 0..N : g[n] = IF n = 0 THEN z ELSE g[n - 1] + w[n]
    BY <1>4
  <2> QED
    BY <1>4, <2>1
<1> QED
  BY <1>5 DEF AddsUp

\* ... and they are natural numbers, each the one before and a value more.
Stepwise(g, w, N) ==
    /\ \A n \in 0..N : g[n] \in Nat
    /\ \A n \in 1..N : g[n] = g[n - 1] + w[n]

\* Any such sums are these.
LEMMA SumsStep ==
    ASSUME NEW N \in Nat, NEW z \in Nat, NEW w \in [1..N -> Nat], NEW g, AddsUp(g, z, w, N)
    PROVE  Stepwise(g, w, N)
<1>1. \A n \in 0..N : g[n] = IF n = 0 THEN z ELSE g[n - 1] + w[n]
  BY DEF AddsUp
<1> DEFINE T == {n \in Nat : n <= N => g[n] \in Nat}
<1>2. T \in SUBSET Nat /\ 0 \in T /\ \A n \in T : n + 1 \in T
  <2>1. 0 \in T
    BY <1>1
  <2>2. ASSUME NEW n \in T PROVE n + 1 \in T
    <3>1. CASE n + 1 <= N
      <4>1. g[n] \in Nat /\ n + 1 \in 1..N /\ w[n + 1] \in Nat
        BY <3>1
      <4>2. g[n + 1] = g[n] + w[n + 1]
        BY <1>1, <4>1
      <4> QED
        BY <4>1, <4>2
    <3>2. CASE ~(n + 1 <= N)
      BY <3>2
    <3> QED
      BY <3>1, <3>2
  <2> QED
    BY <2>1, <2>2
<1>3. T = Nat
  <2> HIDE DEF T
  <2> QED
    BY <1>2, Upwards
<1>4. \A n \in 0..N : g[n] \in Nat
  BY <1>3
<1>5. 0 \in 0..N /\ \A n \in 1..N : n \in 0..N /\ n # 0
  OBVIOUS
<1> QED
  BY <1>1, <1>4, <1>5 DEF Stepwise

\* A slot takes room for all its fields.
LEMMA SlotSizes ==
    ASSUME NEW s \in Slot
    PROVE  /\ SlotSize(s) \in Nat
           /\ YubiKeyEnd(s) \in Nat /\ YubiKeyEnd(s) <= PinEnd(s)
           /\ PinEnd(s) \in Nat /\ PinEnd(s) <= CredentialEnd(s)
           /\ CredentialEnd(s) \in Nat /\ CredentialEnd(s) <= HistoryEnd(s)
           /\ HistoryEnd(s) \in Nat /\ HistoryEnd(s) <= SlotSize(s)
<1>1. s.serial \in Nat /\ s.pin \in Nat /\ s.credential \in Nat /\ s.history \in Nat
  BY DEF Slot
<1> QED
  BY <1>1 DEF SlotSize, HistoryEnd, CredentialEnd, PinEnd,
     YubiKeyEnd, CoreSize, HistorySize

\* Each slot begins where the one before ends.
LEMMA Starts ==
    ASSUME NEW ss \in Seq(Slot)
    PROVE  /\ \A i \in 1..Len(ss) + 1 : Start(ss, i) \in Nat
           /\ \A i \in 1..Len(ss) :
                Start(ss, i + 1) = Start(ss, i) + SlotSize(ss[i])
<1> DEFINE N == Len(ss)
           z == PolicySize + 1
           w == [i \in 1..N |-> SlotSize(ss[i])]
           g == CHOOSE f : f = [n \in 0..N |-> IF n = 0 THEN z ELSE f[n - 1] + SlotSize(ss[n])]
<1>1. N \in Nat /\ z \in Nat
  BY DEF PolicySize
<1>2. w \in [1..N -> Nat]
  <2>1. \A i \in 1..N : ss[i] \in Slot
    OBVIOUS
  <2> QED
    BY <2>1, SlotSizes
<1>3. \A i : Start(ss, i) = g[i - 1]
  BY DEF Start
<1>4. \A f : [n \in 0..N |-> IF n = 0 THEN z ELSE f[n - 1] + SlotSize(ss[n])]
            = [n \in 0..N |-> IF n = 0 THEN z ELSE f[n - 1] + w[n]]
  BY <1>1
<1>5. \A f : AddsUp(f, z, w, N) <=>
            f = [n \in 0..N |-> IF n = 0 THEN z ELSE f[n - 1] + SlotSize(ss[n])]
  BY <1>4 DEF AddsUp
<1>6. AddsUp(g, z, w, N)
  <2>1. \E f : AddsUp(f, z, w, N)
    <3> HIDE DEF w, z, N
    <3> QED
      BY <1>1, <1>2, SumsExist
  <2>2. \E f : f = [n \in 0..N |-> IF n = 0 THEN z ELSE f[n - 1] + SlotSize(ss[n])]
    BY <1>5, <2>1
  <2>3. g = [n \in 0..N |-> IF n = 0 THEN z ELSE g[n - 1] + SlotSize(ss[n])]
    BY <2>2
  <2> HIDE DEF g
  <2> QED
    BY <1>5, <2>3
<1> HIDE DEF g, w, z, N
<1>7. Stepwise(g, w, N)
  <2>1. w \in [1..N -> Nat] /\ N \in Nat /\ z \in Nat
    BY <1>1, <1>2
  <2> QED
    BY <2>1, <1>6, SumsStep
<1>8. ASSUME NEW i \in 1..N + 1 PROVE Start(ss, i) \in Nat
  <2>1. i - 1 \in 0..N
    BY <1>1
  <2> QED
    BY <1>3, <1>7, <2>1 DEF Stepwise
<1>9. ASSUME NEW i \in 1..N
      PROVE  Start(ss, i + 1) = Start(ss, i) + SlotSize(ss[i])
  <2>1. (i + 1) - 1 = i
    BY <1>1
  <2>2. w[i] = SlotSize(ss[i])
    BY DEF w
  <2> QED
    BY <1>3, <1>7, <2>1, <2>2 DEF Stepwise
<1> QED
  BY <1>8, <1>9 DEF N

-----------------------------------------------------------------------------
(* What the file holds *)

\* What is written has the types of a file.
LEMMA WrittenType ==
    ASSUME NEW ss \in Seq(Slot), NEW percent \in 0..255
    PROVE  Written(ss, percent) \in File /\ Written(ss, percent).slots = ss
<1> DEFINE size == HeaderSize(ss)
           blocks == Blocks(size)
           hits == [b \in 1..blocks |-> 0]
<1>1. size \in Nat
  <2>1. Len(ss) + 1 \in 1..Len(ss) + 1
    OBVIOUS
  <2> QED
    BY <2>1, Starts DEF HeaderSize
<1> HIDE DEF size
<1>2. blocks \in Nat
  BY <1>1 DEF Blocks, DataBytes
<1> HIDE DEF blocks
<1>3. hits \in Seq(0..BlockSize)
  BY <1>2 DEF BlockSize
<1>4. Written(ss, percent) =
        [slots |-> ss, redundancy |-> percent, original |-> size,
         size |-> 6 + BlockSize * blocks, hits |-> hits,
         good |-> Fields, damages |-> 0,
         length |-> 22 + BlockSize * blocks + AfterHeader]
  BY DEF Written, size, blocks
<1>5. /\ 6 + BlockSize * blocks \in Nat
      /\ 22 + BlockSize * blocks + AfterHeader \in Nat
  BY <1>2 DEF BlockSize, AfterHeader
<1> HIDE DEF hits
<1> QED
  BY <1>1, <1>3, <1>4, <1>5 DEF File, Slot

\* What is read of a slot is one, of the same user with the same wrapped key.
LEMMA ReadType ==
    ASSUME NEW s \in Slot, NEW n
    PROVE  /\ ReadSlot(s, n) \in Slot
           /\ ReadSlot(s, n).user = s.user /\ ReadSlot(s, n).device = s.device
BY DEF ReadSlot, Slot

\* The users of a header.
UsersOf(ss) == {ss[i].user : i \in DOMAIN ss}

\* A header that is parsed has the slots and the users of the one in the file.
LEMMA ParsedType ==
    ASSUME NEW f \in File, NEW ss, ss = Parsed(f)
    PROVE  ss \in Seq(Slot) /\ Len(ss) = Len(f.slots) /\ UsersOf(ss) = UsersOf(f.slots)
<1>1. f.slots \in Seq(Slot)
  BY DEF File, Slot
<1>2. ss = [i \in 1..Len(f.slots) |-> ReadSlot(f.slots[i], SlotBytes(f, i))]
  BY <1>1 DEF Parsed
<1>3. \A i \in 1..Len(f.slots) : ss[i] \in Slot /\ ss[i].user = f.slots[i].user
  <2>1. \A i \in 1..Len(f.slots) : f.slots[i] \in Slot
    BY <1>1
  <2> QED
    BY <1>2, <2>1, ReadType
<1>4. Len(f.slots) \in Nat
  BY <1>1
<1>5. ss \in Seq(Slot) /\ Len(ss) = Len(f.slots)
  BY <1>2, <1>3, <1>4
<1>6. DOMAIN ss = 1..Len(f.slots) /\ DOMAIN f.slots = 1..Len(f.slots)
  BY <1>1, <1>2
<1> QED
  BY <1>3, <1>5, <1>6 DEF UsersOf

\* What can be read of the file leaves all slots but the last whole: behind each of
\* them there must be the core of another.
LEMMA ReadWhole ==
    ASSUME NEW f \in File, Readable(f), NEW i \in 1..Len(f.slots), i < Len(f.slots)
    PROVE  ReadSlot(f.slots[i], SlotBytes(f, i)) = f.slots[i]
<1> DEFINE s == f.slots[i]
           n == SlotBytes(f, i)
           U == Unpadded(f)
           from == Start(f.slots, i)
<1>1. f.slots \in Seq(Slot) /\ f.original \in Nat
  BY DEF File, Slot
<1>2. U \in Int
  BY <1>1 DEF Unpadded
<1>3. s \in Slot /\ i + 1 \in 1..Len(f.slots) /\ i + 1 \in DOMAIN f.slots
  BY <1>1
<1>4. from \in Nat /\ Start(f.slots, i + 1) = from + SlotSize(s)
  BY <1>1, Starts
<1>5. ~MidField(f.slots[i + 1], SlotBytes(f, i + 1))
  BY <1>3 DEF Readable
<1>6. SlotBytes(f, i + 1) = U - (from + SlotSize(s)) /\ n = U - from
  BY <1>4 DEF SlotBytes
<1> HIDE DEF from, U, n, s
<1>7. ~(U - (from + SlotSize(s)) < 173)
  BY <1>5, <1>6 DEF MidField, CoreSize
<1>8. n >= SlotSize(s) /\ n \in Int
  BY <1>2, <1>3, <1>4, <1>6, <1>7, SlotSizes
<1>9. /\ n >= YubiKeyEnd(s) /\ n >= PinEnd(s)
      /\ n >= CredentialEnd(s) /\ n >= HistoryEnd(s)
  BY <1>3, <1>8, SlotSizes
<1>10. ReadSlot(s, n) = s
  BY <1>3, <1>9 DEF ReadSlot, Slot
<1> QED
  BY <1>10 DEF s, n

-----------------------------------------------------------------------------
(* What the program makes of it *)

\* The types, and that the header in memory has every user of the one in the file.
BytesInv ==
    /\ FileTypeOK
    /\ HeaderIsOpen /\ bytes # NoBytes => UsersOf(bytes.slots) \subseteq UsersOf(slots)

\* An operation on the header: its users stay.
LEMMA HeaderStep ==
    ASSUME BytesInv, UNCHANGED <<fec, bytes>>, HeaderIsOpen,
           NEW ss \in Seq(Slot), slots' = ss, UsersOf(slots) \subseteq UsersOf(ss)
    PROVE  BytesInv'
BY DEF BytesInv, FileTypeOK, Slot

\* One slot changes, but not whose it is.
LEMMA SlotStep ==
    ASSUME BytesInv, UNCHANGED <<fec, bytes>>, HeaderIsOpen, NEW i \in DOMAIN slots,
           NEW s \in Slot, s.user = slots[i].user, slots' = [slots EXCEPT ![i] = s]
    PROVE  BytesInv'
<1> DEFINE ss == [slots EXCEPT ![i] = s]
<1>1. slots \in Seq(Slot)
  BY DEF BytesInv, FileTypeOK, Slot
<1>2. ss \in Seq(Slot)
  BY <1>1
<1>3. UsersOf(slots) \subseteq UsersOf(ss)
  <2>1. \A j \in DOMAIN slots : j \in DOMAIN ss /\ ss[j].user = slots[j].user
    BY <1>1
  <2> HIDE DEF ss
  <2> QED
    BY <2>1 DEF UsersOf
<1> HIDE DEF ss
<1> QED
  BY <1>2, <1>3, HeaderStep DEF ss

\* The slot of a new user is his.
LEMMA NewSlotType ==
    ASSUME NEW u \in Users
    PROVE  NewSlot(u) \in Slot /\ NewSlot(u).user = u
BY DEF NewSlot, Slot

\* Every operation on the slots of an open vault.
LEMMA EditSteps ==
    ASSUME BytesInv,
           \/ \E u \in Users : AddUser(u)
           \/ \E i : Enroll(i) \/ ChangePassword(i) \/ Reset(i)
    PROVE  BytesInv'
<1>1. HeaderIsOpen /\ slots \in Seq(Slot) /\ UNCHANGED <<fec, bytes>>
  BY DEF BytesInv, FileTypeOK, Slot, AddUser, Enroll, ChangePassword,
     Reset
<1>2. \A i \in DOMAIN slots : slots[i] \in Slot
  BY <1>1
<1>3. ASSUME NEW u \in Users, AddUser(u) PROVE BytesInv'
  <2> DEFINE s == NewSlot(u)
             ss == Append(slots, s)
  <2>1. s \in Slot /\ slots' = ss
    BY <1>3, NewSlotType DEF AddUser
  <2> HIDE DEF s
  <2>2. ss \in Seq(Slot) /\ \A j \in DOMAIN slots : j \in DOMAIN ss /\ ss[j] = slots[j]
    BY <1>1, <2>1
  <2> HIDE DEF ss
  <2>3. UsersOf(slots) \subseteq UsersOf(ss)
    BY <2>2 DEF UsersOf
  <2> QED
    BY <1>1, <2>1, <2>2, <2>3, HeaderStep
<1>4. ASSUME NEW i, Enroll(i) PROVE BytesInv'
  <2> DEFINE s == [slots[i] EXCEPT !.device = TRUE, !.enrolled = TRUE,
                                   !.serial = 12, !.pin = 48, !.credential = 64]
  <2>1. i \in DOMAIN slots
    BY <1>4 DEF Enroll
  <2>2. s \in Slot /\ s.user = slots[i].user
    BY <1>2, <2>1 DEF Slot
  <2>3. slots' = [slots EXCEPT ![i] = s]
    BY <1>1, <1>4, <2>1 DEF Enroll
  <2> HIDE DEF s
  <2> QED
    BY <1>1, <2>1, <2>2, <2>3, SlotStep
<1>5. ASSUME NEW i, ChangePassword(i) PROVE BytesInv'
  <2> DEFINE s == [slots[i] EXCEPT !.history = @ + 1]
  <2>1. i \in DOMAIN slots
    BY <1>5 DEF ChangePassword
  <2>2. s \in Slot /\ s.user = slots[i].user
    BY <1>2, <2>1 DEF Slot
  <2>3. slots' = [slots EXCEPT ![i] = s]
    BY <1>1, <1>5, <2>1 DEF ChangePassword
  <2> HIDE DEF s
  <2> QED
    BY <1>1, <2>1, <2>2, <2>3, SlotStep
<1>6. ASSUME NEW i, Reset(i) PROVE BytesInv'
  <2> DEFINE u == slots[i].user
             s == [NewSlot(u) EXCEPT !.history = 0]
  <2>1. i \in DOMAIN slots
    BY <1>6 DEF Reset
  <2>2. u \in Users
    BY <1>2, <2>1 DEF Slot
  <2>3. s \in Slot /\ s.user = u
    BY <2>2, NewSlotType DEF Slot
  <2>4. slots' = [slots EXCEPT ![i] = s]
    BY <1>1, <1>6, <2>1 DEF Reset
  <2> HIDE DEF s
  <2> QED
    BY <1>1, <2>1, <2>3, <2>4, SlotStep
<1> QED
  BY <1>3, <1>4, <1>5, <1>6

\* A file by its fields.
FileOf(ss, redundancy, original, size, hits, good, damages, length) ==
    [slots |-> ss, redundancy |-> redundancy, original |-> original, size |-> size,
     hits |-> hits, good |-> good, damages |-> damages, length |-> length]

\* Damage changes the types of nothing, and never the slots that were written:
\* what it does to them is done by reading them.
LEMMA Damaged ==
    ASSUME bytes \in File, Accident
    PROVE  bytes' \in File /\ bytes'.slots = bytes.slots
<1> DEFINE ss == bytes.slots
           redundancy == bytes.redundancy
           original == bytes.original
           size == bytes.size
           hits == bytes.hits
           good == bytes.good
           damages == bytes.damages
           length == bytes.length
           Like(f) == f \in File /\ f.slots = ss
<1>1. /\ ss \in Seq(Slot) /\ redundancy \in 0..255 /\ original \in Nat
      /\ size \in Nat /\ hits \in Seq(0..BlockSize) /\ good \in SUBSET Fields
      /\ damages \in Nat /\ length \in Nat
  BY DEF File
<1>2. bytes = FileOf(ss, redundancy, original, size, hits, good, damages, length)
  BY DEF File, FileOf
<1> HIDE DEF ss, redundancy, original, size, hits, good, damages, length
<1>3. ASSUME NEW r \in 0..255, NEW o \in Nat, NEW z \in Nat, NEW h \in Seq(0..BlockSize),
             NEW g \in SUBSET Fields, NEW l \in Nat
      PROVE  Like(FileOf(ss, r, o, z, h, g, damages + 1, l))
  BY <1>1 DEF File, FileOf
<1>4. /\ bytes.redundancy = redundancy /\ bytes.original = original /\ bytes.size = size
      /\ bytes.hits = hits /\ bytes.good = good /\ bytes.damages = damages
      /\ bytes.length = length
  BY DEF redundancy, original, size, hits, good, damages, length
<1> HIDE DEF Like
<1>5. ASSUME NEW k \in DOMAIN hits, NEW n \in Hits, DamageBlock(k, n)
      PROVE  Like(bytes')
  <2> DEFINE h == [hits EXCEPT ![k] = @ + n]
  <2>1. hits[k] \in Nat /\ n \in Nat /\ hits[k] + n <= 255
    <3>1. hits[k] + n <= 255
      BY <1>4, <1>5 DEF DamageBlock, BlockSize
    <3>2. hits[k] \in 0..BlockSize
      <4> DEFINE counts == 0..BlockSize
      <4>1. hits \in Seq(counts) /\ k \in 1..Len(hits)
        BY <1>1
      <4> HIDE DEF counts
      <4>2. hits[k] \in counts
        BY <4>1
      <4> QED
        BY <4>2 DEF counts
    <3>3. n \in 1..255
      BY DamageAssumption
    <3> QED
      BY <3>1, <3>2, <3>3 DEF BlockSize
  <2>2. h \in Seq(0..BlockSize)
    <3>1. hits[k] + n \in 0..BlockSize
      BY <2>1 DEF BlockSize
    <3> QED
      BY <1>1, <3>1
  <2>3. bytes' = FileOf(ss, redundancy, original, size, h, good, damages + 1, length)
    BY <1>2, <1>5 DEF DamageBlock, FileOf
  <2> HIDE DEF h
  <2> QED
    BY <1>1, <1>3, <2>2, <2>3
<1>6. ASSUME NEW x \in Fields, DamageField(x) PROVE Like(bytes')
  <2>1. bytes' = FileOf(ss, redundancy, original, size, hits, good \ {x}, damages + 1, length)
    BY <1>2, <1>6 DEF DamageField, FileOf
  <2>2. good \ {x} \in SUBSET Fields
    BY <1>1
  <2> QED
    BY <1>1, <1>3, <2>1, <2>2
<1>7. ASSUME NEW d \in OffBy, DamageSize(d) PROVE Like(bytes')
  <2>1. size + d \in Nat
    BY <1>1, <1>4, <1>7, DamageAssumption DEF DamageSize
  <2>2. bytes' = FileOf(ss, redundancy, original, size + d, hits, good, damages + 1, length)
    BY <1>2, <1>7 DEF DamageSize, FileOf
  <2> QED
    BY <1>1, <1>3, <2>1, <2>2
<1>8. ASSUME NEW d \in OffBy, DamageOriginal(d) PROVE Like(bytes')
  <2>1. original + d \in Nat
    BY <1>1, <1>4, <1>8, DamageAssumption DEF DamageOriginal
  <2>2. bytes' = FileOf(ss, redundancy, original + d, size, hits, good, damages + 1, length)
    BY <1>2, <1>8 DEF DamageOriginal, FileOf
  <2> QED
    BY <1>1, <1>3, <2>1, <2>2
<1>9. ASSUME NEW p \in DamagedPercents, DamageRedundancy(p) PROVE Like(bytes')
  <2>1. bytes' = FileOf(ss, p, original, size, hits, good, damages + 1, length)
    BY <1>2, <1>9 DEF DamageRedundancy, FileOf
  <2>2. p \in 0..255
    BY DamageAssumption
  <2> QED
    BY <1>1, <1>3, <2>1, <2>2
<1>10. ASSUME NEW n \in Lengths, CutShort(n) PROVE Like(bytes')
  <2>1. bytes' = FileOf(ss, redundancy, original, size, hits, good, damages + 1, n)
    BY <1>2, <1>10 DEF CutShort, FileOf
  <2>2. n \in Nat
    BY DamageAssumption
  <2> QED
    BY <1>1, <1>3, <2>1, <2>2
<1>11. Like(bytes')
  BY <1>4, <1>5, <1>6, <1>7, <1>8, <1>9, <1>10 DEF Accident
<1> QED
  BY <1>11 DEF Like, ss

\* Writing the file, reading it, damage, and what touches neither.
LEMMA BytesSteps ==
    ASSUME BytesInv, [FileNext]_fileVars
    PROVE  BytesInv'
<1>1. /\ HeaderIsOpen => slots \in Seq(Slot)
      /\ fec \in [use : BOOLEAN, percent : 0..255]
      /\ bytes # NoBytes => bytes \in File
      /\ HeaderIsOpen /\ bytes # NoBytes => UsersOf(bytes.slots) \subseteq UsersOf(slots)
  BY DEF BytesInv, FileTypeOK, Slot
<1>2. CASE UNCHANGED fileVars
  BY <1>2 DEF fileVars, BytesInv, FileTypeOK, HeaderIsOpen
<1>3. ASSUME NEW u \in Users, Create(u) PROVE BytesInv'
  <2> DEFINE s == NewSlot(u)
             ss == <<s>>
             f == Written(ss, 0)
  <2>1. s \in Slot
    BY NewSlotType
  <2>2. ss \in Seq(Slot)
    <3> HIDE DEF s
    <3> QED
      BY <2>1
  <2>3. slots' = ss /\ bytes' = f /\ fec' = fec
    BY <1>3 DEF Create
  <2> HIDE DEF ss
  <2>4. f \in File /\ f.slots = ss
    <3> DEFINE none == 0
    <3>1. none \in 0..255 /\ f = Written(ss, none)
      OBVIOUS
    <3> HIDE DEF none, f
    <3> QED
      BY <2>2, <3>1, WrittenType
  <2> HIDE DEF f
  <2> QED
    BY <1>1, <2>2, <2>3, <2>4 DEF BytesInv, FileTypeOK, Slot
<1>4. CASE WriteV2Vault
  <2> DEFINE percent == Setting
             f == Written(slots, percent)
  <2>1. percent \in 0..255
    BY <1>1 DEF Setting
  <2>2. HeaderIsOpen /\ slots \in Seq(Slot) /\ bytes' = f /\ UNCHANGED <<slots, fec>>
    BY <1>1, <1>4 DEF WriteV2Vault
  <2> HIDE DEF percent
  <2>3. f \in File /\ f.slots = slots
    BY <2>1, <2>2, WrittenType
  <2> HIDE DEF f
  <2> QED
    BY <1>1, <2>2, <2>3 DEF BytesInv, FileTypeOK, Slot
<1>5. ASSUME NEW u \in Users, LogIn(u) PROVE BytesInv'
  <2> DEFINE ss == Parsed(bytes)
  <2>1. bytes \in File /\ UNCHANGED bytes /\ slots' = ss
    BY <1>1, <1>5 DEF LogIn, Metadata
  <2>2. ss \in Seq(Slot) /\ UsersOf(ss) = UsersOf(bytes.slots)
    <3> HIDE DEF ss
    <3> QED
      BY <2>1, ParsedType DEF ss
  <2>3. fec' \in [use : BOOLEAN, percent : 0..255]
    <3>1. bytes.redundancy \in 0..255
      BY <2>1 DEF File
    <3> QED
      BY <1>1, <1>5, <3>1 DEF LogIn, Metadata
  <2> HIDE DEF ss
  <2> QED
    BY <2>1, <2>2, <2>3 DEF BytesInv, FileTypeOK, Slot
<1>6. ASSUME NEW on \in BOOLEAN, NEW p \in Percents, SetCorrection(on, p)
      PROVE  BytesInv'
  <2>1. fec' \in [use : BOOLEAN, percent : 0..255] /\ UNCHANGED <<slots, bytes>>
    BY <1>6, PercentsAssumption DEF SetCorrection
  <2> QED
    BY <1>1, <2>1 DEF BytesInv, FileTypeOK, HeaderIsOpen, Slot
<1>7. CASE CloseVault \/ Terminate
  <2>1. slots' = NoHeader /\ UNCHANGED bytes /\ fec' \in [use : BOOLEAN, percent : 0..255]
    <3>1. CASE CloseVault
      BY <1>1, <3>1 DEF CloseVault
    <3>2. CASE Terminate
      <4>1. slots' = NoHeader /\ bytes' = bytes /\ fec' = [use |-> FALSE, percent |-> 10]
        BY <3>2 DEF Terminate
      <4> QED
        BY <4>1
    <3> QED
      BY <1>7, <3>1, <3>2
  <2> QED
    BY <1>1, <2>1 DEF BytesInv, FileTypeOK, HeaderIsOpen
<1>8. CASE Accident
  <2>1. bytes # NoBytes /\ UNCHANGED <<slots, fec>>
    BY <1>8 DEF Accident
  <2>2. bytes' \in File /\ bytes'.slots = bytes.slots
    BY <1>1, <1>8, <2>1, Damaged
  <2> QED
    BY <1>1, <2>1, <2>2 DEF BytesInv, FileTypeOK, HeaderIsOpen, Slot
<1> QED
  BY <1>2, <1>3, <1>4, <1>5, <1>6, <1>7, <1>8, EditSteps DEF FileNext

\* The invariant always holds.
LEMMA BytesInvariance == FileSpec => []BytesInv
<1>1. FileInit => BytesInv
  BY DEF FileInit, BytesInv, FileTypeOK, HeaderIsOpen
<1>2. BytesInv /\ [FileNext]_fileVars => BytesInv'
  BY BytesSteps
<1> QED
  BY <1>1, <1>2, PTL DEF FileSpec

-----------------------------------------------------------------------------
(* What damage does to users *)

\* Whatever happens to the file, what is read of it and saved again is a header of
\* slots (VaultHeaderV2).
THEOREM FileTypeCorrect == FileSpec => []FileTypeOK
<1>1. BytesInv => FileTypeOK
  BY DEF BytesInv, FileTypeOK
<1> QED
  BY <1>1, BytesInvariance, PTL

\* A header of which a part is missing can be read (KeySlot::deserialize) only if what
\* is missing is of the last slot: behind every other there has to be the core of a next.
THEOREM OnlyTheLastSlotEverSuffers == FileSpec => []OnlyTheLastSlotSuffers
<1>1. ASSUME BytesInv, bytes # NoBytes, Readable(bytes), NEW i \in DOMAIN bytes.slots
      PROVE  LET was == bytes.slots[i]
                 is  == Parsed(bytes)[i]
             IN  /\ is.user = was.user /\ is.device = was.device
                 /\ i < Len(bytes.slots) => is = was
  <2>1. bytes \in File /\ bytes.slots \in Seq(Slot)
    BY <1>1 DEF BytesInv, FileTypeOK, File, Slot
  <2>2. i \in 1..Len(bytes.slots) /\ bytes.slots[i] \in Slot
    BY <1>1, <2>1
  <2>3. Parsed(bytes)[i] = ReadSlot(bytes.slots[i], SlotBytes(bytes, i))
    BY <1>1 DEF Parsed
  <2>4. i < Len(bytes.slots) => Parsed(bytes)[i] = bytes.slots[i]
    BY <1>1, <2>1, <2>2, <2>3, ReadWhole
  <2> QED
    BY <2>2, <2>3, <2>4, ReadType
<1>2. BytesInv => OnlyTheLastSlotSuffers
  BY <1>1 DEF OnlyTheLastSlotSuffers
<1> QED
  BY <1>2, BytesInvariance, PTL

\* Whatever happens to the file between two saves, the second one (write_v2_vault) has
\* every user whom the first one had: a login reads all slots or fails, and no operation
\* takes a user out.
THEOREM UsersAlwaysStay == FileSpec => UsersStayInTheFile
<1>1. ASSUME BytesInv, [FileNext]_fileVars, bytes # NoBytes,
             bytes' # bytes
      PROVE  UsersOf(bytes.slots) \subseteq UsersOf(bytes'.slots)
  <2>1. bytes \in File
    BY <1>1 DEF BytesInv, FileTypeOK
  <2>2. WriteV2Vault \/ Accident
    BY <1>1 DEF FileNext, fileVars, Create, AddUser, LogIn, Enroll,
       ChangePassword, Reset, SetCorrection, CloseVault, Terminate
  <2>3. CASE WriteV2Vault
    <3>1. BytesInv' /\ HeaderIsOpen /\ UNCHANGED slots
      BY <1>1, <2>3, BytesSteps DEF WriteV2Vault
    <3>2. slots \in Seq(Slot) /\ Setting \in 0..255
      BY <1>1, <3>1 DEF BytesInv, FileTypeOK, Slot, Setting
    <3>3. bytes'.slots = slots
      BY <2>3, <3>2, WrittenType DEF WriteV2Vault
    <3> QED
      BY <1>1, <3>1, <3>3 DEF BytesInv
  <2>4. CASE Accident
    BY <1>1, <2>1, <2>4, Damaged
  <2> QED
    BY <2>2, <2>3, <2>4
<1>2. BytesInv /\ [FileNext]_fileVars =>
        [bytes # NoBytes /\ bytes' # bytes =>
            UsersOf(bytes.slots) \subseteq UsersOf(bytes'.slots)]_fileVars
  BY <1>1
<1>3. [][bytes # NoBytes /\ bytes' # bytes =>
            UsersOf(bytes.slots) \subseteq UsersOf(bytes'.slots)]_fileVars
        <=> UsersStayInTheFile
  BY PTL DEF UsersStayInTheFile, UsersOf
<1> QED
  BY <1>2, <1>3, BytesInvariance, PTL DEF FileSpec
=============================================================================
