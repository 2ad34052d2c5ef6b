------------------------- MODULE SettingsProofs --------------------------
(***************************************************************************)
(* Two parts in which settings outlive the vault they were made for.       *)
(*                                                                         *)
(* Preferences: what is in force stays with the vault it belongs to, and   *)
(* backups follow the vault that is open, for all vaults, preferences and  *)
(* intervals.                                                              *)
(*                                                                         *)
(* AccountSave: passwords do not return while the history holds them,      *)
(* whatever limits were set in between; what is shown as unmodified is     *)
(* what the vault has; and protected accounts stay as they are in sessions *)
(* of standard users, for all vault files, accounts, passwords and limits. *)
(***************************************************************************)
EXTENDS Preferences, AccountSave, SequenceTheorems, TLAPS

-----------------------------------------------------------------------------
(* Preferences *)

Inv == TypeOK /\ PreferencesBelongToVault /\ BackupsFollowVault

Settings == [scoped : [Keys -> Nat], backup : Policies, fec : Corrections,
             fips : BOOLEAN, hash : Hashes]
Answerable == [model : Model, open : BOOLEAN, admin : BOOLEAN, fips : BOOLEAN]

\* What a model that the dialog may show is: its numbers are in the intervals.
Shown(m) == m \in Model /\ \A k \in Keys : m.scoped[k] \in Allowed(k)

-----------------------------------------------------------------------------
(* The values that the operators make *)

\* Clamping a number to an interval that has one puts it there.
LEMMA ClampedIn ==
    ASSUME NEW interval \in [from : Nat, to : Nat], interval.from <= interval.to, NEW n \in Nat
    PROVE  Clamped(interval, n) \in interval.from .. interval.to /\ Clamped(interval, n) \in Nat
BY DEF Clamped

\* The intervals of the dialog are not empty and hold those of the validator.
LEMMA Intervals ==
    ASSUME NEW k \in Keys
    PROVE  /\ Spin[k] \in [from : Nat, to : Nat] /\ Spin[k].from <= Spin[k].to
           /\ Valid[k] \in [from : Nat, to : Nat] /\ Valid[k].from <= Valid[k].to
<1>1. /\ Spin[k] \in [from : Nat, to : Nat] /\ Valid[k] \in [from : Nat, to : Nat]
      /\ Spin[k].from <= Valid[k].from /\ Valid[k].to <= Spin[k].to
      /\ Valid[k].from <= Valid[k].to
  BY PreferenceAssumption
<1> QED
  BY <1>1

\* Defaults are numbers.
LEMMA DefaultType == ASSUME TypeOK, NEW k \in Keys PROVE Default(k) \in Nat
<1>1. settings.scoped[k] \in Nat
  BY DEF TypeOK
<1> QED
  BY <1>1, Intervals, ClampedIn DEF Default

\* A new vault hashes names by a known algorithm.
LEMMA HashType == ASSUME TypeOK PROVE HashInUse \in Hashes
BY DEF TypeOK, HashInUse, Hashes

\* The dialog opens with a model that it may show.
LEMMA LoadedShown == ASSUME TypeOK PROVE Shown(Loaded)
<1> DEFINE from(k) == IF IsOpen /\ runtime[k] # 0 THEN runtime[k] ELSE Default(k)
           scoped == [k \in Keys |-> Clamped(Spin[k], from(k))]
<1>1. \A k \in Keys : from(k) \in Nat
  BY DefaultType DEF TypeOK
<1>2. \A k \in Keys : Clamped(Spin[k], from(k)) \in Allowed(k) /\ Clamped(Spin[k], from(k)) \in Nat
  BY <1>1, Intervals, ClampedIn DEF Allowed
<1>3. Loaded.scoped = scoped
  BY DEF Loaded
<1>4. /\ Loaded.backup \in Policies /\ Loaded.fec \in Corrections /\ Loaded.here \in BOOLEAN
      /\ Loaded.fips \in BOOLEAN /\ Loaded.hash \in Hashes
  BY HashType DEF Loaded, TypeOK, IsOpen
<1>5. Loaded = [scoped |-> Loaded.scoped, backup |-> Loaded.backup, fec |-> Loaded.fec,
                here |-> Loaded.here, fips |-> Loaded.fips, hash |-> Loaded.hash]
  BY DEF Loaded
<1>6. scoped \in [Keys -> Nat]
  BY <1>2
<1>7. Loaded \in Model
  BY <1>3, <1>4, <1>5, <1>6 DEF Model
<1> QED
  BY <1>2, <1>3, <1>7 DEF Shown

\* An edit leaves a model that may be shown.
LEMMA EditKeeps ==
    ASSUME Inv, NEW change, Edit(change), Shown(change)
    PROVE  Inv'
<1>1. dialog \in Answerable
  BY DEF Inv, TypeOK, Edit, Privileged, Asking, Answerable
<1>2. dialog' \in Answerable /\ dialog'.model = change
  BY <1>1 DEF Edit, Shown, Answerable
<1>3. edits' \in 0..MaxEdits
  BY PreferenceAssumption DEF Inv, TypeOK, Edit
<1>4. UNCHANGED <<settings, file, vault, data, admin, runtime, policy, fec, creating>>
  BY DEF Edit, manager
<1>5. TypeOK'
  BY <1>2, <1>3, <1>4 DEF Inv, TypeOK, Answerable, Shown, Allowed, IsOpen
<1> QED
  BY <1>4, <1>5 DEF Inv, PreferencesBelongToVault, BackupsFollowVault, IsOpen

\* The model on the screen may be shown.
LEMMA ModelShown == ASSUME TypeOK, Asking PROVE dialog \in Answerable /\ Shown(dialog.model)
BY DEF TypeOK, Asking, Answerable, Shown

-----------------------------------------------------------------------------
(* The actions *)

\* Whatever is changed in the dialog.
LEMMA Editing ==
    ASSUME Inv,
           EditScoped \/ EditBackup \/ EditCorrection \/ ToggleTarget \/ EditFips \/ EditHash
    PROVE  Inv'
<1> DEFINE m == dialog.model
<1>0. Privileged => Shown(m) /\ dialog \in Answerable
  BY ModelShown DEF Inv, Privileged
<1>1. CASE EditScoped
  <2>0. PICK k \in Keys : \E n \in Allowed(k) : Edit([m EXCEPT !.scoped[k] = n])
    BY <1>1 DEF EditScoped
  <2>1. PICK n \in Allowed(k) : Edit([m EXCEPT !.scoped[k] = n])
    BY <2>0
  <2>2. n \in Nat
    BY <2>1, Intervals DEF Allowed
  <2>3. Shown([m EXCEPT !.scoped[k] = n])
    BY <1>0, <2>1, <2>2 DEF Shown, Model, Edit
  <2> QED
    BY <2>1, <2>3, EditKeeps
<1>2. CASE EditBackup
  <2>1. PICK p \in Policies : Edit([m EXCEPT !.backup = p])
    BY <1>2 DEF EditBackup
  <2>2. Shown([m EXCEPT !.backup = p])
    BY <1>0, <2>1 DEF Shown, Model, Edit
  <2> QED
    BY <2>1, <2>2, EditKeeps
<1>3. CASE EditCorrection
  <2>1. PICK c \in Corrections : Edit([m EXCEPT !.fec = c])
    BY <1>3 DEF EditCorrection
  <2>2. Shown([m EXCEPT !.fec = c])
    BY <1>0, <2>1 DEF Shown, Model, Edit
  <2> QED
    BY <2>1, <2>2, EditKeeps
<1>4. CASE ToggleTarget
  <2> DEFINE here == ~m.here
             c == IF ~IsOpen THEN m.fec ELSE IF here THEN fec ELSE settings.fec
  <2>1. Edit([m EXCEPT !.here = here, !.fec = c]) /\ Privileged
    BY <1>4 DEF ToggleTarget
  <2>2. here \in BOOLEAN /\ c \in Corrections
    BY <1>0, <2>1 DEF Inv, TypeOK, Shown, Model
  <2>3. Shown([m EXCEPT !.here = here, !.fec = c])
    BY <1>0, <2>1, <2>2 DEF Shown, Model
  <2> QED
    BY <2>1, <2>3, EditKeeps
<1>5. CASE EditFips
  <2>1. Edit([m EXCEPT !.fips = ~@])
    BY <1>5 DEF EditFips
  <2>2. Shown([m EXCEPT !.fips = ~@])
    BY <1>0, <2>1 DEF Shown, Model, Edit
  <2> QED
    BY <2>1, <2>2, EditKeeps
<1>6. CASE EditHash
  <2>1. PICK h \in Hashes : Edit([m EXCEPT !.hash = IF dialog.fips THEN "approved" ELSE h])
    BY <1>6 DEF EditHash
  <2>2. (IF dialog.fips THEN "approved" ELSE h) \in Hashes
    BY DEF Hashes
  <2>3. Shown([m EXCEPT !.hash = IF dialog.fips THEN "approved" ELSE h])
    BY <1>0, <2>1, <2>2 DEF Shown, Model, Edit
  <2> QED
    BY <2>1, <2>3, EditKeeps
<1> QED
  BY <1>1, <1>2, <1>3, <1>4, <1>5, <1>6

\* Applying the dialog, to the vault that is open now or to the defaults.
LEMMA Applying == ASSUME Inv, Apply PROVE Inv'
<1> DEFINE m == dialog.model
<1>1. Shown(m) /\ dialog' = NoDialog /\ UNCHANGED <<vault, admin, creating, edits>>
  BY ModelShown DEF Inv, Apply
<1>2. CASE IsOpen
  <2> DEFINE c == IF m.here THEN m.fec ELSE fec
  <2>1. PICK saved \in BOOLEAN : ApplyToVault(m, saved)
    BY <1>2 DEF Apply
  <2>2. data \in Stored /\ vault \in DOMAIN file
    BY <1>2 DEF Inv, TypeOK, IsOpen
  <2>3. /\ runtime' = m.scoped /\ policy' = m.backup /\ fec' = c
        /\ data' = [StoredPolicy(data, m.backup) EXCEPT !.scoped = m.scoped]
        /\ settings' = [settings EXCEPT !.fips = m.fips, !.hash = m.hash,
                                        !.fec = IF m.here THEN @ ELSE m.fec]
        /\ file' \in {file, [file EXCEPT ![vault] = Contents(data', c)]}
    BY <2>1 DEF ApplyToVault, SetScoped
  <2>4. /\ data' \in Stored /\ data'.scoped = m.scoped
        /\ data'.backup = IF m.backup # policy THEN m.backup ELSE data.backup
    BY <1>1, <2>2, <2>3 DEF StoredPolicy, Stored, Shown, Model
  <2>5. c \in Corrections /\ policy' \in Policies /\ runtime' \in [Keys -> Nat]
    BY <1>1, <2>3 DEF Inv, TypeOK, Shown, Model
  <2>6. Contents(data', c) \in Stored
    BY <2>4, <2>5 DEF Contents, Stored
  <2>7. DOMAIN file' = DOMAIN file /\ \A v \in DOMAIN file' : file'[v] \in Stored
    BY <2>2, <2>3, <2>6 DEF Inv, TypeOK
  <2>8. settings' \in Settings
    BY <1>1, <2>3 DEF Inv, TypeOK, Settings, Shown, Model
  <2>9. TypeOK'
    BY <1>1, <1>2, <2>3, <2>4, <2>5, <2>7, <2>8 DEF Inv, TypeOK, Settings, IsOpen, Asking
  <2>10. BackupsFollowVault'
    BY <1>1, <1>2, <2>3, <2>4 DEF Inv, BackupsFollowVault, IsOpen
  <2> QED
    BY <1>1, <1>2, <2>3, <2>4, <2>9, <2>10 DEF Inv, PreferencesBelongToVault, IsOpen
<1>3. CASE ~IsOpen
  <2>1. ApplyToDefaults(m)
    BY <1>3 DEF Apply
  <2>2. settings' \in Settings /\ UNCHANGED <<file, data, runtime, policy, fec>>
    BY <1>1, <2>1 DEF ApplyToDefaults, Shown, Model, Settings
  <2>3. TypeOK'
    BY <1>1, <1>3, <2>2 DEF Inv, TypeOK, Settings, IsOpen, Asking
  <2> QED
    BY <1>1, <1>3, <2>2, <2>3 DEF Inv, PreferencesBelongToVault, BackupsFollowVault, IsOpen
<1> QED
  BY <1>2, <1>3

\* The file that a new vault gets, and what is in force then, whatever was
\* opened since its creation was started.
LEMMA Creating == ASSUME Inv, FinishNewVault PROVE Inv'
<1> DEFINE v == creating.vault
           scoped == [k \in Keys |-> IF k \in Raw THEN settings.scoped[k] ELSE Default(k)]
           blank == FirstContents(creating.hash)
           first == StoredPolicy(blank, settings.backup)
<1>0. v \in Vaults /\ creating.hash \in Hashes
  BY DEF Inv, TypeOK, FinishNewVault
<1>1. PICK saved \in BOOLEAN :
        file' = [w \in DOMAIN file \cup {v} |->
                    IF w # v THEN file[w]
                    ELSE IF saved THEN Contents(data', settings.fec) ELSE blank]
  BY DEF FinishNewVault
<1>2. /\ vault' = v /\ admin' = TRUE /\ runtime' = scoped /\ creating' = NoCreation
      /\ data' = [first EXCEPT !.scoped = scoped]
      /\ policy' = settings.backup /\ fec' = settings.fec
      /\ UNCHANGED <<settings, dialog, edits>>
  BY DEF FinishNewVault, SetScoped
<1>3. scoped \in [Keys -> Nat]
  BY DefaultType DEF Inv, TypeOK
<1>4. blank \in Stored /\ blank.backup = NoPolicy
  BY <1>0, PreferenceAssumption DEF FirstContents, Stored
<1>5. settings.backup \in Policies /\ settings.fec \in Corrections
  BY DEF Inv, TypeOK
<1>6. first \in Stored /\ first.backup \in {NoPolicy, settings.backup}
  BY <1>4, <1>5 DEF StoredPolicy, Stored
<1> HIDE DEF scoped, first, blank
<1>7. /\ data' \in Stored /\ data'.scoped = scoped
      /\ data'.backup \in {NoPolicy, settings.backup}
  BY <1>2, <1>3, <1>6 DEF Stored
<1>8. Contents(data', settings.fec) \in Stored
  BY <1>5, <1>7 DEF Contents, Stored
<1>9. DOMAIN file' = DOMAIN file \cup {v} /\ \A w \in DOMAIN file' : file'[w] \in Stored
  BY <1>1, <1>4, <1>8 DEF Inv, TypeOK
<1>10. TypeOK'
  BY <1>0, <1>2, <1>3, <1>5, <1>7, <1>9, PreferenceAssumption
  DEF Inv, TypeOK, IsOpen, Asking, Allowed
<1>11. PreferencesBelongToVault' /\ BackupsFollowVault'
  BY <1>0, <1>2, <1>7, PreferenceAssumption
  DEF PreferencesBelongToVault, BackupsFollowVault, IsOpen
<1> QED
  BY <1>10, <1>11 DEF Inv

\* Opening, saving and closing.
LEMMA Sessions ==
    ASSUME Inv,
           \/ \E v \in Vaults : StartNewVault(v)
           \/ NewVaultFails \/ Save \/ Close
           \/ \E v \in Vaults, who \in BOOLEAN : Open(v, who)
    PROVE  Inv'
<1>0. \A c \in Corrections : IsOpen => Contents(data, c) \in Stored
  BY DEF Inv, TypeOK, Contents, Stored, IsOpen
<1>1. ASSUME NEW v \in Vaults, StartNewVault(v) PROVE Inv'
  <2>1. Builtin \in [Keys -> Nat] /\ settings.fec \in Corrections
    BY PreferenceAssumption DEF Inv, TypeOK
  <2>2. /\ fec' = settings.fec /\ vault' = NoVault /\ data' = <<>> /\ admin' = FALSE
        /\ runtime' = Builtin /\ UNCHANGED <<settings, file, policy, dialog, edits>>
        /\ creating' = [vault |-> v, hash |-> HashInUse]
    BY <1>1 DEF StartNewVault, Closed
  <2>3. creating' \in [vault : Vaults, hash : Hashes]
    BY <2>2, HashType DEF Inv
  <2>4. TypeOK'
    BY <2>1, <2>2, <2>3 DEF Inv, TypeOK, IsOpen, Asking
  <2> QED
    BY <2>2, <2>4 DEF Inv, PreferencesBelongToVault, BackupsFollowVault, IsOpen
<1>2. CASE NewVaultFails
  <2>1. /\ creating' = NoCreation
        /\ UNCHANGED <<settings, file, vault, data, admin, runtime, policy, fec, dialog, edits>>
    BY <1>2 DEF NewVaultFails, manager
  <2>2. TypeOK'
    BY <2>1 DEF Inv, TypeOK, IsOpen, Asking
  <2> QED
    BY <2>1, <2>2 DEF Inv, PreferencesBelongToVault, BackupsFollowVault, IsOpen
<1>3. CASE Save
  <2>1. /\ file' = [file EXCEPT ![vault] = Contents(data, fec)] /\ IsOpen
        /\ UNCHANGED <<settings, vault, data, admin, runtime, policy, fec, dialog, creating, edits>>
    BY <1>3 DEF Save, manager
  <2>2. DOMAIN file' = DOMAIN file /\ \A v \in DOMAIN file' : file'[v] \in Stored
    BY <1>0, <2>1 DEF Inv, TypeOK
  <2>3. TypeOK'
    BY <2>1, <2>2 DEF Inv, TypeOK, IsOpen, Asking
  <2> QED
    BY <2>1, <2>3 DEF Inv, PreferencesBelongToVault, BackupsFollowVault, IsOpen
<1>4. CASE Close
  <2>1. /\ file' \in {file, [file EXCEPT ![vault] = Contents(data, fec)]} /\ IsOpen
        /\ vault' = NoVault /\ data' = <<>> /\ admin' = FALSE /\ runtime' = Builtin
        /\ UNCHANGED <<settings, policy, fec, dialog, creating, edits>>
    BY <1>4 DEF Close, Closed, SaveIfItCan
  <2>2. DOMAIN file' = DOMAIN file /\ \A v \in DOMAIN file' : file'[v] \in Stored
    BY <1>0, <2>1 DEF Inv, TypeOK
  <2>3. Builtin \in [Keys -> Nat]
    BY PreferenceAssumption
  <2>4. TypeOK'
    BY <2>1, <2>2, <2>3 DEF Inv, TypeOK, IsOpen, Asking
  <2> QED
    BY <2>1, <2>4 DEF Inv, PreferencesBelongToVault, BackupsFollowVault, IsOpen
<1>5. ASSUME NEW v \in Vaults, NEW who \in BOOLEAN, Open(v, who) PROVE Inv'
  <2>1. /\ v \in DOMAIN file /\ vault' = v /\ admin' = who /\ data' = file[v]
        /\ policy' = IF file[v].backup # NoPolicy THEN file[v].backup ELSE policy
        /\ fec' = file[v].fec /\ runtime' = Builtin
        /\ file' \in {file, [file EXCEPT ![v] = EmptyContents(v)]}
        /\ UNCHANGED <<settings, dialog, creating, edits>>
    BY <1>5 DEF Open, OpenFrom
  <2>2. /\ data' \in Stored /\ fec' \in Corrections /\ policy' \in Policies
        /\ data'.backup # NoPolicy => policy' = data'.backup
    BY <2>1 DEF Inv, TypeOK, Stored
  <2>3. EmptyContents(v) \in Stored
    BY <2>1 DEF Inv, TypeOK, Stored, EmptyContents
  <2>4. DOMAIN file' = DOMAIN file /\ \A w \in DOMAIN file' : file'[w] \in Stored
    BY <2>1, <2>3 DEF Inv, TypeOK
  <2>5. TypeOK'
    BY <2>1, <2>2, <2>4, PreferenceAssumption DEF Inv, TypeOK, IsOpen, Asking
  <2>6. PreferencesBelongToVault'
    BY <2>1 DEF Inv, PreferencesBelongToVault
  <2> QED
    BY <2>2, <2>5, <2>6 DEF Inv, BackupsFollowVault
<1> QED
  BY <1>1, <1>2, <1>3, <1>4, <1>5

-----------------------------------------------------------------------------
(* What holds in every behaviour *)

\* The invariant is inductive.
THEOREM Invariance == Spec => []Inv
<1>1. Init => Inv
  <2> SUFFICES ASSUME Init PROVE Inv
    OBVIOUS
  <2>1. DOMAIN file = {} /\ IF IsOpen THEN data \in Stored ELSE data = <<>>
    BY DEF Init, IsOpen
  <2>2. settings \in Settings
    BY PreferenceAssumption DEF Init, Settings, Hashes
  <2>3. /\ runtime \in [Keys -> Nat] /\ policy \in Policies /\ fec \in Corrections
        /\ edits \in 0..MaxEdits /\ admin \in BOOLEAN /\ ~Asking /\ dialog = NoDialog
        /\ creating = NoCreation
    <3>1. Builtin \in [Keys -> Nat] /\ FirstPolicy \in Policies /\ 0 \in Corrections
      BY PreferenceAssumption
    <3>2. 0 \in 0..MaxEdits
      BY PreferenceAssumption
    <3>3. ~Asking /\ dialog = NoDialog /\ admin \in BOOLEAN
      BY DEF Init, Asking
    <3> QED
      BY <3>1, <3>2, <3>3 DEF Init
  <2>4. TypeOK
    BY <2>1, <2>2, <2>3 DEF Init, TypeOK, Settings
  <2> QED
    BY <2>4 DEF Init, Inv, PreferencesBelongToVault, BackupsFollowVault, IsOpen
<1>2. Inv /\ [Next]_vars => Inv'
  <2> SUFFICES ASSUME Inv, [Next]_vars PROVE Inv'
    OBVIOUS
  <2>1. CASE ShowDialog
    <3>1. dialog' \in Answerable /\ Shown(dialog'.model)
      BY <2>1, LoadedShown DEF ShowDialog, Answerable, Inv, TypeOK, IsOpen, Shown
    <3>2. UNCHANGED <<settings, file, vault, data, admin, runtime, policy, fec, creating, edits>>
      BY <2>1 DEF ShowDialog, manager
    <3>3. TypeOK'
      BY <3>1, <3>2 DEF Inv, TypeOK, Shown, Answerable, IsOpen, Allowed
    <3> QED
      BY <3>2, <3>3 DEF Inv, PreferencesBelongToVault, BackupsFollowVault, IsOpen
  <2>2. CASE Cancel \/ UNCHANGED vars
    <3>1. /\ UNCHANGED <<settings, file, vault, data, admin, runtime, policy, fec, creating, edits>>
          /\ dialog' \in {dialog, NoDialog}
      BY <2>2 DEF Cancel, vars, manager
    <3>2. TypeOK'
      BY <3>1 DEF Inv, TypeOK, IsOpen, Asking, Allowed
    <3> QED
      BY <3>1, <3>2 DEF Inv, PreferencesBelongToVault, BackupsFollowVault, IsOpen
  <2> QED
    BY <2>1, <2>2, Editing, Applying, Creating, Sessions DEF Next
<1> QED
  BY <1>1, <1>2, PTL DEF Spec

\* Every number that is stored, in force or on the screen is one that the dialog
\* could show.
THEOREM TypeCorrect == Spec => []TypeOK
<1>1. Inv => TypeOK
  BY DEF Inv
<1> QED
  BY <1>1, Invariance, PTL

\* No preference of one vault is in force in another, or without a vault.
THEOREM PreferencesAlwaysBelong == Spec => []PreferencesBelongToVault
<1>1. Inv => PreferencesBelongToVault
  BY DEF Inv
<1> QED
  BY <1>1, Invariance, PTL

\* An open vault that stores backup settings is backed up by them.
THEOREM BackupsAlwaysFollow == Spec => []BackupsFollowVault
<1>1. Inv => BackupsFollowVault
  BY DEF Inv
<1> QED
  BY <1>1, Invariance, PTL

-----------------------------------------------------------------------------
(* Saving an account *)

\* What a file holds of protected accounts, a standard user's session has too.
SessionKeeps ==
    role = "standard" =>
        \A a \in DOMAIN stored[current] : stored[current][a].guarded =>
            a \in DOMAIN accounts /\ accounts[a] = stored[current][a]

SaveInv == SaveTypeOK /\ SessionKeeps /\ NoPasswordReused /\ UnmodifiedShowsSaved

-----------------------------------------------------------------------------
(* Sequences without repetitions *)

\* An element that is not in a sequence may be appended.
LEMMA AppendDistinct ==
    ASSUME NEW S, NEW s \in Seq(S), NEW e \in S, IsInjective(s), e \notin ToSet(s)
    PROVE  /\ Append(s, e) \in Seq(S) /\ IsInjective(Append(s, e))
           /\ ToSet(Append(s, e)) = ToSet(s) \cup {e}
<1> DEFINE t == Append(s, e)
<1>1. /\ t \in Seq(S) /\ Len(t) = Len(s) + 1 /\ Len(s) \in Nat
      /\ \A i \in 1..Len(s) : t[i] = s[i]
      /\ t[Len(s) + 1] = e
  OBVIOUS
<1>2. DOMAIN t = 1..(Len(s) + 1) /\ DOMAIN s = 1..Len(s)
  BY <1>1
<1> HIDE DEF t
<1>3. IsInjective(t)
  BY <1>1, <1>2 DEF IsInjective, ToSet
<1>4. ToSet(t) = ToSet(s) \cup {e}
  BY <1>1, <1>2 DEF ToSet
<1> QED
  BY <1>1, <1>3, <1>4 DEF t

\* The end of a sequence repeats nothing that the sequence does not.
LEMMA EndDistinct ==
    ASSUME NEW S, NEW s \in Seq(S), NEW n \in 1..Len(s), IsInjective(s)
    PROVE  LET t == SubSeq(s, n, Len(s))
           IN  t \in Seq(S) /\ IsInjective(t) /\ ToSet(t) \subseteq ToSet(s)
<1> DEFINE t == SubSeq(s, n, Len(s))
<1>1. Len(s) \in Nat /\ n \in 1..(Len(s) + 1) /\ Len(s) \in (n - 1)..Len(s)
  OBVIOUS
<1>2. /\ t \in Seq(S) /\ Len(t) = Len(s) - n + 1
      /\ \A i \in 1..(Len(s) - n + 1) : t[i] = s[n + i - 1]
  BY <1>1, SubSeqProperties
<1>3. DOMAIN t = 1..(Len(s) - n + 1) /\ DOMAIN s = 1..Len(s)
  BY <1>2
<1> HIDE DEF t
<1>4. IsInjective(t)
  <2> SUFFICES ASSUME NEW i \in DOMAIN t, NEW j \in DOMAIN t, t[i] = t[j]
               PROVE  i = j
    BY DEF IsInjective
  <2>1. n + i - 1 \in DOMAIN s /\ n + j - 1 \in DOMAIN s /\ s[n + i - 1] = s[n + j - 1]
    BY <1>1, <1>2, <1>3
  <2>2. n + i - 1 = n + j - 1
    BY <2>1 DEF IsInjective
  <2> QED
    BY <1>1, <1>3, <2>2
<1>5. ToSet(t) \subseteq ToSet(s)
  <2>1. \A i \in DOMAIN t : n + i - 1 \in DOMAIN s /\ t[i] = s[n + i - 1]
    BY <1>1, <1>2, <1>3
  <2> QED
    BY <2>1 DEF ToSet
<1> QED
  BY <1>2, <1>4, <1>5 DEF t

-----------------------------------------------------------------------------
(* What saving the pane does *)

\* The account that a save replaces, and the limit of its history.
LEMMA SaverType ==
    ASSUME SaveTypeOK, Saves
    PROVE  /\ shown \in DOMAIN accounts /\ shown \in Accounts /\ Old \in Account
           /\ Old.history \in Seq(Passwords) /\ Old.password \in Passwords \cup {NoPassword}
           /\ historySettings.limit \in Nat \ {0}
           /\ current \in VaultFiles
<1>1. shown \in DOMAIN accounts /\ shown \in Accounts /\ Old \in Account
  BY DEF SaveTypeOK, IsVault, Saves, Saving, Old
<1>2. historySettings.limit \in 1..20
  BY LimitsAssumption DEF SaveTypeOK, HistorySettings
<1>3. current # NoFile
  BY <1>1 DEF SaveTypeOK
<1> QED
  BY <1>1, <1>2, <1>3 DEF Account, SaveTypeOK

\* The history after a save that changed the password has no repetition, and
\* not the new password.
LEMMA ArchivedDistinct ==
    ASSUME SaveTypeOK, Saves, IsInjective(Old.history), Old.password \notin ToSet(Old.history),
           Changed => historySettings.enabled
    PROVE  IsInjective(Archived) /\ pane.password \notin ToSet(Archived)
<1>1. /\ Old.history \in Seq(Passwords) /\ Old.password \in Passwords \cup {NoPassword}
      /\ historySettings.limit \in Nat \ {0}
  BY SaverType
<1>2. CASE ~Changed
  BY <1>2 DEF Archived, Changed
<1>3. CASE Changed /\ Old.password = NoPassword
  BY <1>3 DEF Archived, Saves, Reused
<1>4. CASE Changed /\ Old.password # NoPassword
  <2> DEFINE all == Append(Old.history, Old.password)
             excess == Len(all) - historySettings.limit
  <2>1. /\ all \in Seq(Passwords) /\ IsInjective(all)
        /\ ToSet(all) = ToSet(Old.history) \cup {Old.password}
    BY <1>1, <1>4, AppendDistinct
  <2>2. pane.password \notin ToSet(all)
    BY <1>4, <2>1 DEF Saves, Reused, Changed
  <2>3. Len(all) \in Nat /\ excess \in Int /\ excess < Len(all)
    BY <1>1, <2>1
  <2>4. Archived = IF excess > 0 THEN SubSeq(all, excess + 1, Len(all)) ELSE all
    BY <1>4 DEF Archived
  <2> HIDE DEF all, excess
  <2>5. CASE excess > 0
    <3>1. excess + 1 \in 1..Len(all)
      BY <2>3, <2>5
    <3> QED
      BY <2>1, <2>2, <2>4, <2>5, <3>1, EndDistinct
  <2>6. CASE ~(excess > 0)
    BY <2>1, <2>2, <2>4, <2>6
  <2> QED
    BY <2>5, <2>6
<1> QED
  BY <1>2, <1>3, <1>4

\* The history after a save is one of passwords.
LEMMA ArchivedType ==
    ASSUME SaveTypeOK, Saves
    PROVE  Archived \in Seq(Passwords)
<1>1. /\ Old.history \in Seq(Passwords) /\ Old.password \in Passwords \cup {NoPassword}
      /\ historySettings.limit \in Nat \ {0}
  BY SaverType
<1>2. CASE Old.password # NoPassword
  <2> DEFINE all == Append(Old.history, Old.password)
             excess == Len(all) - historySettings.limit
  <2>1. all \in Seq(Passwords) /\ Len(all) \in Nat /\ excess \in Int /\ excess < Len(all)
    BY <1>1, <1>2
  <2>2. Archived \in {IF excess > 0 THEN SubSeq(all, excess + 1, Len(all)) ELSE all,
                      Old.history}
    BY DEF Archived
  <2> HIDE DEF all, excess
  <2>3. CASE excess > 0
    <3>1. excess + 1 \in 1..(Len(all) + 1) /\ Len(all) \in excess..Len(all)
      BY <2>1, <2>3
    <3>2. SubSeq(all, excess + 1, Len(all)) \in Seq(Passwords)
      BY <2>1, <3>1, SubSeqProperties
    <3> QED
      BY <1>1, <2>2, <2>3, <3>2
  <2>4. CASE ~(excess > 0)
    BY <1>1, <2>1, <2>2, <2>4
  <2> QED
    BY <2>3, <2>4
<1>3. CASE Old.password = NoPassword
  BY <1>1, <1>3 DEF Archived
<1> QED
  BY <1>2, <1>3

\* The account that a save makes.
SavedAccount == [password |-> pane.password, history |-> Archived, guarded |-> pane.guarded]

\* It is an account, and repeats no password unless the one before did.
LEMMA SavedAccountSound ==
    ASSUME SaveInv, Lapses, Saves
    PROVE  /\ SavedAccount \in Account
           /\ SavedAccount.password = pane.password /\ SavedAccount.guarded = pane.guarded
           /\ <<current, shown>> \notin lapsed' => RepeatsNothing(SavedAccount)
           /\ lapsed \subseteq lapsed' /\ lapsed' \subseteq VaultFiles \X Accounts
<1>1. /\ pane.password \in Passwords \cup {NoPassword} /\ pane.guarded \in BOOLEAN
      /\ Archived \in Seq(Passwords)
  BY ArchivedType DEF SaveInv, SaveTypeOK, Pane, Saves, Saving
<1>2. /\ SavedAccount \in Account /\ SavedAccount.password = pane.password
      /\ SavedAccount.guarded = pane.guarded /\ SavedAccount.history = Archived
  BY <1>1 DEF SavedAccount, Account
<1>3. lapsed \subseteq lapsed' /\ lapsed' \subseteq VaultFiles \X Accounts
  BY SaverType DEF Lapses, SaveInv, SaveTypeOK
<1>4. ASSUME <<current, shown>> \notin lapsed' PROVE RepeatsNothing(SavedAccount)
  <2>1. Changed => historySettings.enabled
    BY <1>4 DEF Lapses
  <2>2. RepeatsNothing(Old)
    BY <1>3, <1>4, SaverType DEF SaveInv, NoPasswordReused, Old
  <2>3. IsInjective(Archived) /\ pane.password \notin ToSet(Archived)
    BY <2>1, <2>2, ArchivedDistinct DEF SaveInv, RepeatsNothing
  <2> QED
    BY <1>2, <2>3 DEF RepeatsNothing
<1> QED
  BY <1>2, <1>3, <1>4

\* A save keeps the types, the places and the histories, and changes only the
\* account shown; a standard user's changes no protected account.
LEMMA SavedSound ==
    ASSUME SaveInv, Lapses
    PROVE  /\ IsVault(SavedAccounts) /\ DOMAIN SavedAccounts = DOMAIN accounts
           /\ lapsed \subseteq lapsed' /\ lapsed' \subseteq VaultFiles \X Accounts
           /\ \A a \in DOMAIN accounts :
                /\ <<current, a>> \notin lapsed' => RepeatsNothing(SavedAccounts[a])
                /\ role = "standard" /\ accounts[a].guarded => SavedAccounts[a] = accounts[a]
           /\ Saves => SavedAccounts[shown] = SavedAccount
           /\ ~Saves => SavedAccounts = accounts
<1>1. CASE ~Saves
  <2>1. SavedAccounts = accounts /\ lapsed' = lapsed
    BY <1>1 DEF SavedAccounts, Lapses
  <2> QED
    BY <1>1, <2>1 DEF SaveInv, SaveTypeOK, NoPasswordReused
<1>2. CASE Saves
  <2>1. shown \in DOMAIN accounts /\ current \in VaultFiles
    BY <1>2, SaverType DEF SaveInv
  <2>2. /\ SavedAccount \in Account
        /\ <<current, shown>> \notin lapsed' => RepeatsNothing(SavedAccount)
        /\ lapsed \subseteq lapsed' /\ lapsed' \subseteq VaultFiles \X Accounts
    BY <1>2, SavedAccountSound
  <2>3. SavedAccounts = [accounts EXCEPT ![shown] = SavedAccount]
    BY <1>2 DEF SavedAccounts, SavedAccount
  <2>4. DOMAIN accounts \subseteq Accounts /\ accounts \in [DOMAIN accounts -> Account]
    BY DEF SaveInv, SaveTypeOK, IsVault
  <2>5. /\ DOMAIN SavedAccounts = DOMAIN accounts
        /\ SavedAccounts[shown] = SavedAccount
        /\ \A a \in DOMAIN accounts : a # shown => SavedAccounts[a] = accounts[a]
        /\ SavedAccounts \in [DOMAIN accounts -> Account]
    BY <2>1, <2>2, <2>3, <2>4
  <2>6. role = "standard" => ~accounts[shown].guarded
    BY <1>2 DEF Saves, Permitted, Old
  <2>7. IsVault(SavedAccounts)
    BY <2>4, <2>5 DEF IsVault
  <2>8. ASSUME NEW a \in DOMAIN accounts, <<current, a>> \notin lapsed'
        PROVE  RepeatsNothing(SavedAccounts[a])
    BY <2>2, <2>5, <2>8 DEF SaveInv, NoPasswordReused
  <2>9. ASSUME NEW a \in DOMAIN accounts, role = "standard", accounts[a].guarded
        PROVE  SavedAccounts[a] = accounts[a]
    BY <2>5, <2>6, <2>9
  <2> QED
    BY <1>2, <2>2, <2>5, <2>7, <2>8, <2>9
<1> QED
  BY <1>1, <1>2

\* The files after the vault was saved, or not.
WrittenFiles ==
    stored' \in {stored} \cup
        {[stored EXCEPT ![v] = SavedAccounts] : v \in VaultFiles \cap {current}}

\* Their types and their passwords.
FilesSound ==
    /\ stored' = [v \in VaultFiles |-> stored'[v]]
    /\ \A v \in VaultFiles :
        /\ IsVault(stored'[v])
        /\ \A a \in DOMAIN stored'[v] :
            <<v, a>> \notin lapsed' => RepeatsNothing(stored'[v][a])

\* What the files hold after the vault was saved.
LEMMA WrittenSound ==
    ASSUME SaveInv, Lapses, WrittenFiles
    PROVE  /\ FilesSound /\ KeepsGuarded
           /\ current \in VaultFiles => stored'[current] \in {stored[current], SavedAccounts}
<1>0. /\ stored = [v \in VaultFiles |-> stored[v]]
      /\ \A v \in VaultFiles : IsVault(stored[v])
      /\ lapsed \subseteq lapsed'
  BY SavedSound DEF SaveInv, SaveTypeOK
<1>1. CASE stored' = stored
  <2>1. FilesSound
    BY <1>0, <1>1 DEF FilesSound, SaveInv, NoPasswordReused
  <2> QED
    BY <1>1, <2>1 DEF KeepsGuarded
<1>2. CASE current \in VaultFiles /\ stored' = [stored EXCEPT ![current] = SavedAccounts]
  <2>1. /\ stored' = [v \in VaultFiles |-> stored'[v]]
        /\ stored'[current] = SavedAccounts
        /\ \A v \in VaultFiles \ {current} : stored'[v] = stored[v]
    BY <1>0, <1>2
  <2>2. /\ IsVault(SavedAccounts) /\ DOMAIN SavedAccounts = DOMAIN accounts
        /\ \A a \in DOMAIN accounts :
            <<current, a>> \notin lapsed' => RepeatsNothing(SavedAccounts[a])
    BY SavedSound
  <2>3. ASSUME NEW v \in VaultFiles
        PROVE  /\ IsVault(stored'[v])
               /\ \A a \in DOMAIN stored'[v] :
                    <<v, a>> \notin lapsed' => RepeatsNothing(stored'[v][a])
    <3>1. CASE v = current
      BY <2>1, <2>2, <3>1
    <3>2. CASE v # current
      BY <1>0, <2>1, <3>2 DEF SaveInv, NoPasswordReused
    <3> QED
      BY <3>1, <3>2
  <2>4. ASSUME NEW v \in VaultFiles, NEW a \in DOMAIN stored[v],
               role = "standard", stored[v][a].guarded
        PROVE  a \in DOMAIN stored'[v] /\ stored'[v][a] = stored[v][a]
    <3>1. CASE v # current
      BY <2>1, <3>1
    <3>2. CASE v = current
      <4>1. a \in DOMAIN accounts /\ accounts[a] = stored[current][a]
        BY <2>4, <3>2 DEF SaveInv, SessionKeeps
      <4>2. SavedAccounts[a] = accounts[a]
        BY <2>4, <3>2, <4>1, SavedSound
      <4> QED
        BY <2>1, <2>2, <3>2, <4>1, <4>2
    <3> QED
      BY <3>1, <3>2
  <2> QED
    BY <2>1, <2>3, <2>4 DEF FilesSound, KeepsGuarded
<1> QED
  BY <1>1, <1>2 DEF WrittenFiles

-----------------------------------------------------------------------------
(* What holds in every behaviour *)

\* Saving the pane and the vault keeps the invariant.
LEMMA SavingPane ==
    ASSUME SaveInv, OnSave, current # NoFile,
           UNCHANGED <<current, role, shown, historySettings, generating>>,
           window' \in BOOLEAN, pending' \in BOOLEAN
    PROVE  SaveInv'
<1>1. /\ accounts' = SavedAccounts /\ Lapses /\ pane' = SavedPane
      /\ stale' = (stale /\ ~Saves) /\ current \in VaultFiles
      /\ stored' \in {stored, [stored EXCEPT ![current] = SavedAccounts]}
  BY DEF OnSave, SavePane, Written, SaveInv, SaveTypeOK
<1>2. WrittenFiles
  BY <1>1 DEF WrittenFiles
<1>3. /\ FilesSound /\ stored'[current] \in {stored[current], SavedAccounts}
  BY <1>1, <1>2, WrittenSound
<1>4. /\ IsVault(SavedAccounts) /\ DOMAIN SavedAccounts = DOMAIN accounts
      /\ lapsed' \subseteq VaultFiles \X Accounts
      /\ \A a \in DOMAIN accounts :
          /\ <<current, a>> \notin lapsed' => RepeatsNothing(SavedAccounts[a])
          /\ role = "standard" /\ accounts[a].guarded => SavedAccounts[a] = accounts[a]
      /\ Saves => SavedAccounts[shown] = SavedAccount
      /\ ~Saves => SavedAccounts = accounts
  BY <1>1, SavedSound
<1>5. IsVault(accounts')
  BY <1>1, <1>4
<1>6. pane' \in Pane /\ (shown = NoAccount => ~pane'.editable)
  <2>1. pane \in Pane /\ (shown = NoAccount => ~pane.editable)
    BY DEF SaveInv, SaveTypeOK
  <2>2. CASE Saves
    BY <1>1, <2>1, <2>2 DEF SavedPane, Pane
  <2>3. CASE ~Saves /\ Denied
    <3>1. shown \in DOMAIN accounts /\ shown \in Accounts /\ Old \in Account
      BY <2>3 DEF Denied, Saving, SaveInv, SaveTypeOK, IsVault, Old
    <3> QED
      BY <1>1, <2>1, <2>3, <3>1, AccountsAssumption DEF SavedPane, Pane, Account
  <2>4. CASE ~Saves /\ ~Denied
    BY <1>1, <2>1, <2>4 DEF SavedPane
  <2> QED
    BY <2>2, <2>3, <2>4
<1>7. stale' \in BOOLEAN /\ (shown = NoAccount => ~stale')
      /\ (shown # NoAccount /\ ~stale' => shown \in DOMAIN accounts')
  <2>1. stale \in BOOLEAN /\ (shown = NoAccount => ~stale)
        /\ (shown # NoAccount /\ ~stale => shown \in DOMAIN accounts)
    BY DEF SaveInv, SaveTypeOK
  <2>2. Saves => shown \in DOMAIN accounts
    BY DEF Saves, Saving
  <2> QED
    BY <1>1, <1>4, <2>1, <2>2
<1>8. SaveTypeOK'
  <2>1. accounts' \in {accounts} \/ current # NoFile
    OBVIOUS
  <2> QED
    BY <1>1, <1>3, <1>4, <1>5, <1>6, <1>7 DEF SaveInv, SaveTypeOK, FilesSound
<1>9. SessionKeeps'
  <2> SUFFICES ASSUME role = "standard", NEW a \in DOMAIN stored'[current],
                      stored'[current][a].guarded
               PROVE  a \in DOMAIN accounts' /\ accounts'[a] = stored'[current][a]
    BY DEF SessionKeeps
  <2>1. CASE stored'[current] = SavedAccounts
    BY <1>1, <2>1
  <2>2. CASE stored'[current] = stored[current]
    <3>1. a \in DOMAIN accounts /\ accounts[a] = stored[current][a]
      BY <2>2 DEF SaveInv, SessionKeeps
    <3>2. SavedAccounts[a] = accounts[a]
      BY <1>4, <2>2, <3>1
    <3> QED
      BY <1>1, <1>4, <2>2, <3>1, <3>2
  <2> QED
    BY <1>3, <2>1, <2>2
<1>10. NoPasswordReused'
  BY <1>1, <1>3, <1>4 DEF NoPasswordReused, FilesSound
<1>11. UnmodifiedShowsSaved'
  <2>1. CASE Saves
    <3>1. accounts'[shown].password = pane.password /\ accounts'[shown].guarded = pane.guarded
      BY <1>1, <1>4, <2>1, SavedAccountSound
    <3>2. pane'.password = pane.password /\ pane'.guarded = pane.guarded
      BY <1>1, <2>1 DEF SavedPane, SaveInv, SaveTypeOK, Pane
    <3> QED
      BY <3>1, <3>2 DEF UnmodifiedShowsSaved, Old
  <2>2. CASE ~Saves /\ Denied
    <3>1. accounts' = accounts /\ role' = role /\ shown' = shown
      BY <1>1, <1>4, <2>2
    <3>2. ~Permitted'
      BY <2>2, <3>1 DEF Denied, Permitted, Old
    <3> QED
      BY <3>2 DEF UnmodifiedShowsSaved
  <2>3. CASE ~Saves /\ ~Denied
    <3>1. accounts' = accounts /\ pane' = pane /\ stale' = stale
      BY <1>1, <1>4, <2>3 DEF SavedPane, SaveInv, SaveTypeOK
    <3> QED
      BY <3>1 DEF SaveInv, UnmodifiedShowsSaved, Old, Permitted
  <2> QED
    BY <2>1, <2>2, <2>3
<1> QED
  BY <1>8, <1>9, <1>10, <1>11 DEF SaveInv

\* The invariant is inductive.
THEOREM SaveInvariance == SaveSpec => []SaveInv
<1>1. SaveInit => SaveInv
  <2> SUFFICES ASSUME SaveInit PROVE SaveInv
    OBVIOUS
  <2>1. /\ <<>> \in Seq(Passwords) /\ IsInjective(<<>>) /\ ToSet(<<>>) = {}
        /\ DOMAIN <<>> = {}
    BY DEF IsInjective, ToSet
  <2>2. ASSUME NEW v \in VaultFiles
        PROVE  /\ IsVault(stored[v])
               /\ \A a \in DOMAIN stored[v] : RepeatsNothing(stored[v][a])
    <3>1. PICK places \in SUBSET Accounts : stored[v] \in [places -> Fresh]
      BY DEF SaveInit
    <3>2. \A account \in Fresh : account \in Account /\ RepeatsNothing(account)
      BY <2>1 DEF Fresh, Account, RepeatsNothing
    <3> QED
      BY <3>1, <3>2 DEF IsVault
  <2>3. IsVault(accounts) /\ DOMAIN accounts = {}
    BY <2>1 DEF SaveInit, IsVault
  <2>4. stored = [v \in VaultFiles |-> stored[v]]
    BY DEF SaveInit
  <2>5. SaveTypeOK
    BY <2>2, <2>3, <2>4 DEF SaveInit, SaveTypeOK, Pane, HistorySettings
  <2>6. NoPasswordReused
    BY <2>2, <2>3 DEF NoPasswordReused
  <2> QED
    BY <2>5, <2>6 DEF SaveInit, SaveInv, SessionKeeps, UnmodifiedShowsSaved
<1>2. SaveInv /\ [SaveNext]_saveVars => SaveInv'
  <2> SUFFICES ASSUME SaveInv, [SaveNext]_saveVars
               PROVE  SaveInv'
    OBVIOUS
  <2>0. SaveTypeOK
    BY DEF SaveInv
  <2>1. ASSUME NEW a \in Accounts, Select(a) PROVE SaveInv'
    <3>1. /\ accounts' = SavedAccounts /\ Lapses /\ shown' = a /\ ~stale'
          /\ stale' = FALSE /\ a \in DOMAIN accounts /\ pane' = Displayed(accounts'[a])
          /\ UNCHANGED <<stored, current, role, window, pending, historySettings, generating>>
      BY <2>1 DEF Select, SavePane
    <3>2. /\ IsVault(SavedAccounts) /\ DOMAIN SavedAccounts = DOMAIN accounts
          /\ lapsed \subseteq lapsed' /\ lapsed' \subseteq VaultFiles \X Accounts
          /\ \A b \in DOMAIN accounts :
              /\ <<current, b>> \notin lapsed' => RepeatsNothing(SavedAccounts[b])
              /\ role = "standard" /\ accounts[b].guarded => SavedAccounts[b] = accounts[b]
      BY <3>1, SavedSound
    <3>3. IsVault(accounts') /\ accounts'[a] \in Account
      BY <3>1, <3>2 DEF IsVault
    <3>4. current # NoFile
      BY <2>0, <3>1 DEF SaveTypeOK
    <3>5. /\ pane' \in Pane /\ pane'.guarded = accounts'[a].guarded
          /\ pane'.password = accounts'[a].password
      BY <2>0, <3>1, <3>3 DEF Displayed, Account, Pane, SaveTypeOK
    <3>6. SaveTypeOK'
      BY <2>0, <3>1, <3>2, <3>3, <3>4, <3>5, AccountsAssumption DEF SaveTypeOK
    <3>7. SessionKeeps'
      BY <3>1, <3>2 DEF SaveInv, SessionKeeps
    <3>8. NoPasswordReused'
      BY <3>1, <3>2 DEF SaveInv, NoPasswordReused
    <3> QED
      BY <3>1, <3>5, <3>6, <3>7, <3>8 DEF SaveInv, UnmodifiedShowsSaved, Old
  <2>2. CASE OnSaveVault
    <3>1. window' \in BOOLEAN /\ pending' \in BOOLEAN
      BY <2>0, <2>2 DEF OnSaveVault, SaveTypeOK
    <3> QED
      BY <2>2, <3>1, SavingPane DEF OnSaveVault
  <2>3. ASSUME NEW p \in Passwords \cup {NoPassword, TooLong},
               Type(p) \/ Generate(p) \/ TickGuarded \/ RemoveTag
        PROVE  SaveInv'
    <3>1. /\ UNCHANGED <<stored, current, accounts, role, lapsed, window, pending, shown,
                         historySettings, stale>>
          /\ generating' \in BOOLEAN /\ pane'.edited /\ pane' \in Pane
          /\ pane'.editable = pane.editable
      BY <2>0, <2>3 DEF Type, Generate, TickGuarded, RemoveTag, SaveTypeOK, Pane, Operates,
         GeneratorIs, vaults, screen
    <3>2. SaveTypeOK'
      BY <2>0, <3>1 DEF SaveTypeOK
    <3> QED
      BY <3>1, <3>2 DEF SaveInv, SessionKeeps, NoPasswordReused, UnmodifiedShowsSaved, Old
  <2>4. CASE AskGenerate \/ CancelGenerate \/ GiveUp
             \/ \E new \in HistorySettings : SetHistory(new)
    <3>1. /\ UNCHANGED <<stored, current, accounts, role, lapsed, window, shown, pane, stale>>
          /\ generating' \in BOOLEAN /\ pending' \in BOOLEAN
          /\ historySettings' \in HistorySettings
      BY <2>0, <2>4 DEF AskGenerate, CancelGenerate, GiveUp, SetHistory, SaveTypeOK, GeneratorIs,
         vaults
    <3>2. SaveTypeOK'
      BY <2>0, <3>1 DEF SaveTypeOK
    <3> QED
      BY <3>1, <3>2
         DEF SaveInv, SessionKeeps, NoPasswordReused, UnmodifiedShowsSaved, Old, Permitted
  <2>5. ASSUME NEW v \in VaultFiles, NEW as \in {"admin", "standard"}, Login(v, as)
        PROVE  SaveInv'
    <3>1. /\ current' = v /\ role' = as /\ accounts' = stored[v] /\ pending' = TRUE
          /\ stale' = (shown # NoAccount)
          /\ UNCHANGED <<stored, lapsed, window, shown, pane, historySettings, generating>>
      BY <2>5 DEF Login
    <3>2. SaveTypeOK'
      BY <2>0, <3>1, AccountsAssumption DEF SaveTypeOK
    <3>3. NoPasswordReused'
      BY <3>1 DEF SaveInv, NoPasswordReused
    <3> QED
      BY <3>1, <3>2, <3>3 DEF SaveInv, SessionKeeps, UnmodifiedShowsSaved
  <2>6. CASE LoginFails
    <3>1. /\ current' = NoFile /\ role' = "none" /\ accounts' = <<>>
          /\ stale' = (shown # NoAccount)
          /\ UNCHANGED <<stored, lapsed, window, pending, shown, pane, historySettings, generating>>
      BY <2>6 DEF LoginFails
    <3>2. IsVault(accounts') /\ DOMAIN accounts' = {}
      BY <3>1 DEF IsVault
    <3>3. SaveTypeOK'
      BY <2>0, <3>1, <3>2 DEF SaveTypeOK
    <3> QED
      BY <3>1, <3>2, <3>3 DEF SaveInv, SessionKeeps, NoPasswordReused, UnmodifiedShowsSaved
  <2>7. CASE CompleteOpening
    <3>1. CASE window
      <4>1. window' \in BOOLEAN /\ pending' \in BOOLEAN
        BY <2>7 DEF CompleteOpening
      <4> QED
        BY <2>7, <3>1, <4>1, SavingPane DEF CompleteOpening
    <3>2. CASE ~window
      <4>1. /\ UNCHANGED <<stored, current, accounts, role, lapsed, shown, pane, stale,
                           historySettings, generating>>
            /\ window' \in BOOLEAN /\ pending' \in BOOLEAN
        BY <2>7, <3>2 DEF CompleteOpening
      <4>2. SaveTypeOK'
        BY <2>0, <4>1 DEF SaveTypeOK
      <4> QED
        BY <4>1, <4>2
           DEF SaveInv, SessionKeeps, NoPasswordReused, UnmodifiedShowsSaved, Old, Permitted
    <3> QED
      BY <3>1, <3>2
  <2>8. CASE OnCloseVault
    <3>1. /\ WrittenFiles /\ Lapses /\ current' = NoFile /\ accounts' = <<>> /\ role' = "none"
          /\ window' = FALSE /\ shown' = NoAccount /\ pane' = Cleared /\ stale' = FALSE
          /\ UNCHANGED <<pending, historySettings, generating>>
      BY <2>8 DEF OnCloseVault, WrittenFiles
    <3>2. FilesSound /\ lapsed' \subseteq VaultFiles \X Accounts
      BY <3>1, WrittenSound, SavedSound
    <3>3. IsVault(accounts') /\ DOMAIN accounts' = {}
      BY <3>1 DEF IsVault
    <3>4. pane' \in Pane /\ ~pane'.editable
      BY <2>0, <3>1 DEF Cleared, SaveTypeOK, Pane
    <3>5. SaveTypeOK'
      BY <2>0, <3>1, <3>2, <3>3, <3>4 DEF SaveTypeOK, FilesSound
    <3>6. NoPasswordReused'
      BY <3>2, <3>3 DEF NoPasswordReused, FilesSound
    <3> QED
      BY <3>1, <3>5, <3>6 DEF SaveInv, SessionKeeps, UnmodifiedShowsSaved
  <2>9. CASE UNCHANGED saveVars
    BY <2>9 DEF saveVars, vaults, screen, SaveInv, SaveTypeOK, SessionKeeps, NoPasswordReused,
       UnmodifiedShowsSaved, Old, Permitted
  <2> QED
    BY <2>1, <2>2, <2>3, <2>4, <2>5, <2>6, <2>7, <2>8, <2>9 DEF SaveNext
<1> QED
  BY <1>1, <1>2, PTL DEF SaveSpec

\* The variables always have their types.
THEOREM SaveTypeCorrect == SaveSpec => []SaveTypeOK
<1>1. SaveInv => SaveTypeOK
  BY DEF SaveInv
<1> QED
  BY <1>1, SaveInvariance, PTL

\* No password returns while the history holds it.
THEOREM PasswordsNeverReused == SaveSpec => []NoPasswordReused
<1>1. SaveInv => NoPasswordReused
  BY DEF SaveInv
<1> QED
  BY <1>1, SaveInvariance, PTL

\* What is shown as unmodified is what the vault has, unless its edit was refused
\* or another login left it on the screen.
THEOREM UnmodifiedAlwaysSaved == SaveSpec => []UnmodifiedShowsSaved
<1>1. SaveInv => UnmodifiedShowsSaved
  BY DEF SaveInv
<1> QED
  BY <1>1, SaveInvariance, PTL

\* No step in a standard user's session changes a protected account of a file.
THEOREM GuardedAlwaysStays == SaveSpec => GuardedStays
<1>1. SaveInv /\ [SaveNext]_saveVars => [KeepsGuarded]_saveVars
  <2> SUFFICES ASSUME SaveInv, [SaveNext]_saveVars PROVE stored' = stored \/ KeepsGuarded
    BY DEF KeepsGuarded
  <2>1. CASE OnSaveVault \/ (CompleteOpening /\ window)
    <3>1. /\ current \in VaultFiles /\ Lapses
          /\ stored' \in {stored, [stored EXCEPT ![current] = SavedAccounts]}
      BY <2>1 DEF OnSaveVault, CompleteOpening, OnSave, SavePane, Written, SaveInv, SaveTypeOK
    <3>2. WrittenFiles
      BY <3>1 DEF WrittenFiles
    <3> QED
      BY <3>1, <3>2, WrittenSound
  <2>2. CASE OnCloseVault
    <3>1. WrittenFiles /\ Lapses
      BY <2>2 DEF OnCloseVault, WrittenFiles
    <3> QED
      BY <3>1, WrittenSound
  <2>3. CASE ~OnSaveVault /\ ~(CompleteOpening /\ window) /\ ~OnCloseVault
    BY <2>3 DEF SaveNext, saveVars, vaults, Select, Type, Generate, TickGuarded, RemoveTag,
       AskGenerate, CancelGenerate, SetHistory, Operates, GeneratorIs, Login, LoginFails,
       CompleteOpening, GiveUp
  <2> QED
    BY <2>1, <2>2, <2>3
<1> QED
  BY <1>1, SaveInvariance, PTL DEF SaveSpec, GuardedStays
=============================================================================
