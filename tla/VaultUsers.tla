--------------------------- MODULE VaultUsers ---------------------------
(***************************************************************************)
(* The multi-user core of VaultManager: one V2 vault file, the header and  *)
(* the session of the vault while it is open, and every operation on users,*)
(* passwords, YubiKeys and the security policy.                            *)
(*                                                                         *)
(* Every operation is synchronous on the GTK main thread here, so each is  *)
(* one action.  A call that fails before it changes anything is a          *)
(* stuttering step; the calls that fail after the slot lookup are the      *)
(* action LookupOnly, because the lookup itself writes to the slot.        *)
(***************************************************************************)
EXTENDS KeySlots

CONSTANTS
    PinWithAdd,        \* what callers of add_user do: {FALSE} never pass a PIN
    CreationPolicies,  \* the policies vaults are created with
    PolicyMoves,       \* the policy updates administrators make, as <<old, new>>
    NoVault,           \* no vault file, or no vault open
    NoSession

ASSUME PinWithAddAssumption == PinWithAdd \subseteq BOOLEAN
ASSUME CreationPoliciesAssumption ==
    /\ CreationPolicies \subseteq Policies
    /\ \A p \in CreationPolicies : ~p.migrating
ASSUME NoVaultAssumption == NoVault \notin Header
ASSUME PolicyMovesAssumption == PolicyMoves \subseteq Policies \X Policies

VARIABLES
    header,     \* m_v2_header while m_vault_open, else NoVault
    session,    \* m_current_session
    modified,   \* m_modified
    disk        \* the header in the vault file

vars == <<header, session, modified, disk>>

Session == [user : Users, role : Roles,
            must   : BOOLEAN,    \* password_change_required
            enroll : BOOLEAN]    \* requires_yubikey_enrollment
ASSUME NoSessionAssumption == NoSession \notin Session

Init ==
    /\ header = NoVault
    /\ session = NoSession
    /\ modified = FALSE
    /\ disk = NoVault

-----------------------------------------------------------------------------
(* Permissions *)

IsOpen  == header # NoVault
IsSelf(u) == session.user = u
IsAdmin == session.role = Admin

\* Mutant: an open vault is permission enough.
MaySelfOrAdmin_Open(u) == IsOpen

MaySelfOrAdmin(u) == IsOpen /\ (IsSelf(u) \/ IsAdmin)

LongEnough(pw) == PwLen[pw] >= header.policy.minlen

\* validate_new_password's and change_user_password's two checks
Acceptable(slot, pw) ==
    /\ LongEnough(pw)
    /\ header.policy.depth > 0 => ~IsReused(pw, slot.hist)

-----------------------------------------------------------------------------
(* Creating, opening, saving and closing the vault *)

\* validate_params
Creatable(pw, p) == p.iter >= 100000 /\ PwLen[pw] >= p.minlen

\* With require_yubikey the enrollment is not optional.
AdminSlot(p, u, pw, dev) ==
    LET plain == NewSlot(p, u, pw, Admin, FALSE)
    IN  IF p.yubikey THEN Enrollment(plain, plain.wrap, dev) ELSE plain

FirstHeader(p, slot) ==
    [policy |-> p, slots |-> [i \in 1..MaxSlots |-> IF i = 1 THEN slot ELSE Free]]

\* create_vault_v2: the file is written before the vault is open.
Create(u, pw, p, dev) ==
    /\ disk = NoVault
    /\ Creatable(pw, p)
    /\ p.yubikey <=> dev # NoDevice
    /\ header' = FirstHeader(p, AdminSlot(p, u, pw, dev))
    /\ session' = [user |-> u, role |-> Admin, must |-> FALSE, enroll |-> FALSE]
    /\ modified' = FALSE
    /\ disk' = OnDisk(header')

MustMigrateNow(h, i) == h.policy.migrating /\ h.slots[i].status = MustMigrate

SessionFor(h, u, i) ==
    [user |-> u, role |-> h.slots[i].role, must |-> h.slots[i].must,
     enroll |-> h.policy.yubikey /\ ~Enrolled(h.slots[i])]

Migrate(h, u, i) == [h EXCEPT !.slots[i] = MigratedSlot(@, h.policy, u)]

\* open_vault_v2.  A vault already open is closed first, unsaved changes and
\* all.  A user found by an old hash is migrated and the header is saved at
\* once; that save may fail, which only the log shows.  The vault is left
\* modified, to save last_login_at.
OpenSlot(u, pw, dev, i) ==
    LET found == Looked(disk, u, i)
    IN  /\ Finds(disk, u, i)
        /\ Unwraps(found.slots[i], pw, dev, disk.policy.iter)
        /\ IF MustMigrateNow(found, i)
           THEN /\ header' = Migrate(found, u, i)
                /\ disk' \in {disk, OnDisk(header')}
           ELSE /\ header' = found
                /\ disk' = disk
        /\ session' = SessionFor(header', u, i)
        /\ modified' = TRUE

Open(u, pw, dev) ==
    /\ disk # NoVault
    /\ Readable(disk.policy)
    /\ \E i \in Active(disk.slots) : OpenSlot(u, pw, dev, i)

\* close_vault, an open_vault_v2 that fails after closing the open vault, and
\* the end of the process, in order or not: memory is gone, the file stays.
Close ==
    /\ IsOpen
    /\ header' = NoVault
    /\ session' = NoSession
    /\ modified' = FALSE
    /\ UNCHANGED disk

\* save_vault.  A save that fails at any step changes none of this state.
Save ==
    /\ IsOpen
    /\ disk' = OnDisk(header)
    /\ modified' = FALSE
    /\ UNCHANGED <<header, session>>

-----------------------------------------------------------------------------
(* User management *)

\* add_user: the new slot takes the first inactive place.
AddUser(u, pw, role, must, withPin, dev) ==
    /\ IsOpen /\ IsAdmin
    /\ LongEnough(pw)
    /\ LET plain  == NewSlot(header.policy, u, pw, role, must)
           enroll == withPin /\ header.policy.yubikey
       IN  /\ enroll <=> dev # NoDevice
           /\ ~UserExists(header, u)
           /\ \E i \in 1..MaxSlots :
                /\ IsFirst(i, (1..MaxSlots) \ Active(header.slots))
                /\ header' = [header EXCEPT !.slots[i] =
                        IF enroll THEN ProvisionedSlot(plain, dev) ELSE plain]
    /\ modified' = TRUE
    /\ UNCHANGED <<session, disk>>

AdminSlots(slots) == {i \in Active(slots) : slots[i].role = Admin}

LastAdmin(slots, i) == AdminSlots(slots) = {i}

\* Mutants: no guard against removing oneself; that one and no count either.
RemoveUser_Self(u) ==
    /\ IsOpen /\ IsAdmin
    /\ \E i \in Active(header.slots) :
        /\ Finds(header, u, i)
        /\ ~LastAdmin(header.slots, i)
        /\ header' = [header EXCEPT !.slots[i] = Free]
    /\ modified' = TRUE
    /\ UNCHANGED <<session, disk>>
RemoveUser_Anyone(u) ==
    /\ IsOpen /\ IsAdmin
    /\ \E i \in Active(header.slots) :
        /\ Finds(header, u, i)
        /\ header' = [header EXCEPT !.slots[i] = Free]
    /\ modified' = TRUE
    /\ UNCHANGED <<session, disk>>

\* remove_user and deactivate_user
RemoveUser(u) ==
    /\ IsOpen /\ IsAdmin
    /\ ~IsSelf(u)
    /\ \E i \in Active(header.slots) :
        /\ Finds(header, u, i)
        /\ ~LastAdmin(header.slots, i)
        /\ header' = [header EXCEPT !.slots[i] = Free]
    /\ modified' = TRUE
    /\ UNCHANGED <<session, disk>>

\* validate_new_password, for which no permission is needed, and every other
\* operation that looks a slot up and then fails: the lookup's mark stays.
LookupOnly(u) ==
    /\ IsOpen
    /\ \E i \in Active(header.slots) :
        /\ Finds(header, u, i)
        /\ header' = Looked(header, u, i)
    /\ UNCHANGED <<session, modified, disk>>

\* update_security_policy: min_password_length and pbkdf2_iterations are only
\* warned about.  A new hash algorithm resets every user's migration status.
UpdatePolicy(p) ==
    /\ IsOpen /\ IsAdmin
    /\ <<header.policy, p>> \in PolicyMoves
    /\ header' =
        [policy |-> p,
         slots  |-> [i \in 1..MaxSlots |->
            IF header.slots[i] # Free /\ p.algo # header.policy.algo
            THEN [header.slots[i] EXCEPT !.status = NotMigrated]
            ELSE header.slots[i]]]
    /\ modified' = TRUE
    /\ UNCHANGED <<session, disk>>

-----------------------------------------------------------------------------
(* Passwords *)

\* Mutant: the session still demands the change.
ChangePassword_StaleSession(u, old, new, dev) ==
    /\ MaySelfOrAdmin(u)
    /\ \E i \in Active(header.slots) :
        /\ Acceptable(header.slots[i], new)
        /\ Unwraps(header.slots[i], old, dev, header.policy.iter)
        /\ Finds(header, u, i)
        /\ header' = [Looked(header, u, i) EXCEPT
                        !.slots[i] = ChangedSlot(@, header.policy, new)]
    /\ modified' = TRUE
    /\ UNCHANGED <<session, disk>>

ChangePassword(u, old, new, dev) ==
    /\ MaySelfOrAdmin(u)
    /\ \E i \in Active(header.slots) :
        /\ Acceptable(header.slots[i], new)
        /\ Unwraps(header.slots[i], old, dev, header.policy.iter)
        /\ Finds(header, u, i)
        /\ header' = [Looked(header, u, i) EXCEPT
                        !.slots[i] = ChangedSlot(@, header.policy, new)]
    /\ session' = IF IsSelf(u) THEN [session EXCEPT !.must = FALSE] ELSE session
    /\ modified' = TRUE
    /\ UNCHANGED disk

AdminReset(u, pw) ==
    /\ IsOpen /\ IsAdmin
    /\ ~IsSelf(u)
    /\ LongEnough(pw)
    /\ \E i \in Active(header.slots) :
        /\ Finds(header, u, i)
        /\ header' = [Looked(header, u, i) EXCEPT
                        !.slots[i] = ResetSlot(@, header.policy, pw)]
    /\ modified' = TRUE
    /\ UNCHANGED <<session, disk>>

\* Mutant: the change is not marked for saving.
ClearHistory_Unmarked(u) ==
    /\ MaySelfOrAdmin(u)
    /\ \E i \in Active(header.slots) :
        /\ Finds(header, u, i)
        /\ header' = [Looked(header, u, i) EXCEPT !.slots[i].hist = <<>>]
    /\ UNCHANGED <<session, modified, disk>>

ClearHistory(u) ==
    /\ MaySelfOrAdmin(u)
    /\ \E i \in Active(header.slots) :
        /\ Finds(header, u, i)
        /\ header' = [Looked(header, u, i) EXCEPT !.slots[i].hist = <<>>]
    /\ modified' = TRUE
    /\ UNCHANGED <<session, disk>>

-----------------------------------------------------------------------------
(* YubiKeys *)

\* enroll_yubikey_for_user: the password must unwrap the slot on its own.
Enroll(u, pw, dev) ==
    /\ MaySelfOrAdmin(u)
    /\ LET kek == PasswordKek(pw, header.policy.iter)
       IN  \E i \in Active(header.slots) :
            /\ Finds(header, u, i)
            /\ ~Enrolled(header.slots[i])
            /\ header.slots[i].wrap = kek
            /\ header' = [Looked(header, u, i) EXCEPT
                            !.slots[i] = Enrollment(@, kek, dev)]
    /\ session' = IF IsSelf(u) THEN [session EXCEPT !.enroll = FALSE] ELSE session
    /\ modified' = TRUE
    /\ UNCHANGED disk

\* unenroll_yubikey_for_user
Unenroll(u, pw, dev) ==
    /\ MaySelfOrAdmin(u)
    /\ \E i \in Active(header.slots) :
        /\ Enrolled(header.slots[i])
        /\ Unwraps(header.slots[i], pw, dev, header.policy.iter)
        /\ Finds(header, u, i)
        /\ header' = [Looked(header, u, i) EXCEPT
                        !.slots[i] = [WithoutYubiKey(@) EXCEPT
                            !.wrap = PasswordKek(pw, header.policy.iter)]]
    /\ session' = IF IsSelf(u) /\ header.policy.yubikey
                  THEN [session EXCEPT !.enroll = TRUE] ELSE session
    /\ modified' = TRUE
    /\ UNCHANGED disk

-----------------------------------------------------------------------------
Plugged == Devices \cup {NoDevice}

Next ==
    \/ \E u \in Users, pw \in Passwords, p \in CreationPolicies, dev \in Plugged :
            Create(u, pw, p, dev)
    \/ \E u \in Users, pw \in Passwords, dev \in Plugged : Open(u, pw, dev)
    \/ Close
    \/ Save
    \/ \E u \in Users, pw \in Passwords, role \in Roles, must \in BOOLEAN,
          withPin \in PinWithAdd, dev \in Plugged :
            AddUser(u, pw, role, must, withPin, dev)
    \/ \E u \in Users : RemoveUser(u) \/ LookupOnly(u) \/ ClearHistory(u)
    \/ \E p \in Policies : UpdatePolicy(p)
    \/ \E u \in Users, old, new \in Passwords, dev \in Plugged :
            ChangePassword(u, old, new, dev)
    \/ \E u \in Users, pw \in Passwords : AdminReset(u, pw)
    \/ \E u \in Users, pw \in Passwords, dev \in Devices : Enroll(u, pw, dev)
    \/ \E u \in Users, pw \in Passwords, dev \in Devices : Unenroll(u, pw, dev)

Spec == Init /\ [][Next]_vars

-----------------------------------------------------------------------------
(* What the vault's users may rely on *)

TypeOK ==
    /\ header \in Header \cup {NoVault}
    /\ disk \in Header \cup {NoVault}
    /\ session \in Session \cup {NoSession}
    /\ modified \in BOOLEAN
    /\ IsOpen <=> session # NoSession

Vaults == {v \in {header, disk} : v # NoVault}

UserSlots(v) == {v.slots[i] : i \in Active(v.slots)}

\* Somebody can always administer the vault, in memory and in the file: no
\* sequence of additions, removals and resets loses the last administrator.
AdminRemains == \A v \in Vaults : AdminSlots(v.slots) # {}

\* The rights of a session are those of a user who still has a slot: neither a
\* removal nor a slot reused by another user leaves a session behind.
SessionBacked ==
    IsOpen => \E slot \in UserSlots(header) :
        slot.hash.user = session.user /\ slot.role = session.role

\* A user without an enrolled YubiKey never needs one: whatever sequence of
\* enrollment, reset, unenrollment and password change came before, the DEK is
\* wrapped under the password alone.
NoHiddenFactor ==
    \A v \in Vaults : \A slot \in UserSlots(v) :
        ~Enrolled(slot) => slot.wrap.dev = NoDevice /\ slot.pin = NoKek

\* Header contents but for what a lookup writes without setting m_modified.
Essence(h) ==
    [h EXCEPT !.slots = [i \in 1..MaxSlots |->
        IF h.slots[i] = Free THEN Free
        ELSE [h.slots[i] EXCEPT !.name = NoUser, !.status = NotMigrated]]]

\* An open vault that is not marked modified loses nothing when it is closed
\* without saving (AutoLockHandler and the close dialog ask m_modified).
CleanMeansSaved ==
    IsOpen /\ ~modified => disk # NoVault /\ Essence(disk) = Essence(header)

\* A migrated slot's hash is the current algorithm's, also after the policy
\* moved on: the first pass of the lookup relies on it.
MigratedIsCurrent ==
    \A v \in Vaults : \A slot \in UserSlots(v) :
        slot.status = Migrated => slot.hash.algo = v.policy.algo

\* The state of the session agrees with its user's slot: a pending password
\* change is pending in both, and nobody enrolled is asked to enroll.
SessionFlagsAgree ==
    IsOpen => \A slot \in UserSlots(header) :
        slot.hash.user = session.user =>
            /\ session.must = slot.must
            /\ session.enroll => ~Enrolled(slot)

\* The lookup finds every user but those added while a migration runs: their
\* slots are marked not migrated and hold the current hash, so no pass fits.
LookupFindsUsers ==
    \A v \in Vaults : \A slot \in UserSlots(v) :
        (v.policy.migrating /\ slot.hash.algo = v.policy.algo => slot.status # NotMigrated)
            => UserExists(v, slot.hash.user)

\* Every user of the vault can log in with the right password and, if one is
\* enrolled, the right YubiKey.
CanLogIn(v, i) ==
    /\ Finds(v, v.slots[i].hash.user, i)
    /\ \E pw \in Passwords, dev \in Plugged :
        Unwraps(v.slots[i], pw, dev, v.policy.iter)

EveryUserCanLogIn == \A v \in Vaults : \A i \in Active(v.slots) : CanLogIn(v, i)

\* The newest entry of a password history is the current password, so that it
\* cannot be chosen again at once.
HistoryEndsWithCurrent ==
    \A v \in Vaults : \A slot \in UserSlots(v) :
        slot.hist # <<>> => slot.hist[Len(slot.hist)] = slot.wrap.pw

\* An enrolled user's DEK is wrapped under the password and the YubiKey.
EnrolledNeedsDevice ==
    \A v \in Vaults : \A slot \in UserSlots(v) :
        Enrolled(slot) => slot.wrap.dev = slot.dev

\* verify_credentials, which asks again before an export, finds the slot by the
\* name in memory, not by its hash, and insists on the serial.
VerifyCredentials(pw, serial, i) ==
    /\ header.slots[i].name = session.user
    /\ IF Enrolled(header.slots[i])
       THEN /\ serial = header.slots[i].dev
            /\ header.slots[i].pin = PasswordKek(pw, header.policy.iter)
            /\ header.slots[i].wrap = Combined(header.slots[i].pin, serial)
       ELSE header.slots[i].wrap = PasswordKek(pw, header.policy.iter)

ReauthSlot(i) ==
    IsFirst(i, {j \in Active(header.slots) : header.slots[j].name = session.user})

\* Credentials that open the vault as it stands for the session's user are also
\* accepted when they are asked for again, and no others are.
ReauthAgreesWithLogin ==
    IsOpen => \A pw \in Passwords, dev \in Plugged :
        (\E i \in Active(header.slots) :
            Finds(header, session.user, i) /\ Unwraps(header.slots[i], pw, dev, header.policy.iter))
        <=> \E i \in Active(header.slots) : ReauthSlot(i) /\ VerifyCredentials(pw, dev, i)

-----------------------------------------------------------------------------
(* What a step may never do *)

LoginStep ==
    IsOpen' /\ \E pw \in Passwords, dev \in Plugged : Open(session'.user, pw, dev)

\* The places that hold one and the same user in two headers.
Kept(h, g) ==
    {i \in Active(h.slots) \cap Active(g.slots) : h.slots[i].hash.user = g.slots[i].hash.user}

\* Within the session of a standard user nobody else's slot changes, but for
\* the name and the mark a lookup leaves, and neither does the policy.
StandardUsersTouchOnlyThemselves ==
    [][ IsOpen /\ IsOpen' /\ session.role = Standard =>
        \/ /\ header'.policy = header.policy
           /\ \A i \in 1..MaxSlots :
                \/ Essence(header').slots[i] = Essence(header).slots[i]
                \/ i \in Kept(header, header') /\ header.slots[i].hash.user = session.user
        \/ LoginStep ]_vars

\* In the file a user becomes a migrated one only through a login of that user:
\* the mark that anybody's lookup leaves never migrates anyone.
OnlyOwnerMigrates ==
    [][ disk # NoVault /\ disk' # NoVault =>
        \A i \in Active(disk.slots) \cap Active(disk'.slots) :
            disk.slots[i].status # Migrated /\ disk'.slots[i].status = Migrated
                => session'.user = disk'.slots[i].hash.user ]_vars
=============================================================================
