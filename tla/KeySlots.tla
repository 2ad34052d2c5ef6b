---------------------------- MODULE KeySlots ----------------------------
(***************************************************************************)
(* The key-slot table of a V2 vault header, and what the services do to    *)
(* one slot of it: looking a user up by username hash, deciding whether    *)
(* credentials unwrap the slot, and building the slot that an operation    *)
(* leaves behind.                                                          *)
(*                                                                         *)
(* Cryptography is abstracted to what it tells apart.  A key-encryption    *)
(* key is the record of what it was derived from (password, PBKDF2         *)
(* iterations, and the YubiKey combined into it, if any); unwrapping with  *)
(* another key fails.  A username hash is the record of what was hashed.   *)
(* Salts are fresh on every use, so two slots never share one by chance    *)
(* and they need no field.                                                 *)
(***************************************************************************)
EXTENDS Naturals, Sequences

CONSTANTS
    Users,       \* usernames
    Passwords,
    PwLen,       \* number of characters of each password
    Devices,     \* YubiKeys
    Policies,    \* the security policies an administrator may set
    MaxSlots,    \* VaultHeaderV2::MAX_KEY_SLOTS (32 in the program)
    NoUser,      \* the empty username of a slot just read from disk
    NoDevice,    \* no YubiKey
    NoKek,       \* no encrypted PIN
    Free         \* an inactive slot, or a place the slot vector does not reach

Algorithms == 0..5           \* UsernameHashService::Algorithm
Legacy     == 0              \* PLAINTEXT_LEGACY
Pbkdf2     == 4              \* PBKDF2_SHA256

Policy == [algo : Algorithms, prev : Algorithms, migrating : BOOLEAN,
           iter : Nat, depth : Nat, minlen : Nat, yubikey : BOOLEAN]

ASSUME PoliciesAssumption ==
    /\ Policies \subseteq Policy
    /\ \A p \in Policies : ~p.migrating => p.prev = Legacy
ASSUME PwLenAssumption == PwLen \in [Passwords -> Nat]
ASSUME MaxSlotsAssumption == MaxSlots \in Nat \ {0}
ASSUME MarkersAssumption ==
    /\ NoUser \notin Users
    /\ NoDevice \notin Devices

Admin    == "ADMINISTRATOR"
Standard == "STANDARD_USER"
Roles    == {Admin, Standard}

\* KeySlot::migration_status
NotMigrated == 0
Migrated    == 1
MustMigrate == 255

Iterations == {p.iter : p \in Policies}
Kek  == [pw : Passwords, iter : Iterations, dev : Devices \cup {NoDevice}]
Hash == [user : Users, algo : Algorithms, iter : Nat]
Slot == [hash   : Hash,
         name   : Users \cup {NoUser},     \* in memory only
         status : {NotMigrated, Migrated, MustMigrate},
         wrap   : Kek,                     \* the key wrapped_dek is wrapped under
         role   : Roles,
         must   : BOOLEAN,                 \* must_change_password
         dev    : Devices \cup {NoDevice}, \* yubikey_enrolled and yubikey_serial
         pin    : Kek \cup {NoKek},        \* the key yubikey_encrypted_pin is under
         hist   : Seq(Passwords)]
SlotTable == [1..MaxSlots -> Slot \cup {Free}]
ASSUME FreeAssumption == Free \notin Slot /\ NoKek \notin Kek
Header    == [policy : Policies, slots : SlotTable]

-----------------------------------------------------------------------------
(* Keys and hashes *)

PasswordKek(pw, iter) == [pw |-> pw, iter |-> iter, dev |-> NoDevice]
Combined(kek, dev)    == [kek EXCEPT !.dev = dev]

\* The PBKDF2 hash is the only one the iteration count enters, at least 1000.
HashOf(u, algo, iter) ==
    [user |-> u, algo |-> algo,
     iter |-> IF algo # Pbkdf2 THEN 0 ELSE IF iter < 1000 THEN 1000 ELSE iter]

Enrolled(slot) == slot.dev # NoDevice

\* Deriving the KEK, decrypting the PIN with it, combining the response of the
\* plugged-in key, unwrapping the DEK.  A serial mismatch is only a warning.
Unwraps(slot, pw, dev, iter) ==
    LET kek == PasswordKek(pw, iter)
    IN  IF Enrolled(slot)
        THEN dev # NoDevice /\ slot.pin = kek /\ slot.wrap = Combined(kek, dev)
        ELSE slot.wrap = kek

-----------------------------------------------------------------------------
(* Slot lookup *)

Active(slots) == {i \in 1..MaxSlots : slots[i] # Free}

IsFirst(i, S) == i \in S /\ \A j \in S : i <= j

Matching(h, u, algo) ==
    LET hash == HashOf(u, algo, h.policy.iter)
    IN  {i \in Active(h.slots) : h.slots[i].hash = hash}

\* Pass 1.  While a migration runs, slots not yet migrated are skipped.
CurrentMatches(h, u) ==
    {i \in Matching(h, u, h.policy.algo) :
        ~(h.policy.migrating /\ h.slots[i].status = NotMigrated)}

HasFallback(p) == p.migrating /\ p.prev # Legacy

\* Pass 2.
FallbackMatches(h, u) ==
    IF HasFallback(h.policy) THEN Matching(h, u, h.policy.prev) ELSE {}

\* Mutant: there is no third pass.
SweepAlgorithms_None(p) == {}

\* Pass 3 tries, in this order, every other algorithm but the legacy one.
SweepAlgorithms(p) ==
    {a \in Algorithms \ {Legacy} : a # p.algo /\ (HasFallback(p) => a # p.prev)}

SweepFinds(h, u, i) ==
    \E a \in SweepAlgorithms(h.policy) :
        /\ IsFirst(i, Matching(h, u, a))
        /\ \A b \in SweepAlgorithms(h.policy) : b < a => Matching(h, u, b) = {}

Finds(h, u, i) ==
    LET current  == CurrentMatches(h, u)
        fallback == FallbackMatches(h, u)
    IN  \/ IsFirst(i, current)
        \/ current = {} /\ IsFirst(i, fallback)
        \/ current = {} /\ fallback = {} /\ SweepFinds(h, u, i)

UserExists(h, u) == \E i \in Active(h.slots) : Finds(h, u, i)

\* Mutants: the name is not remembered; the mark is already the final one.
Looked_NoName(h, u, i) ==
    [h EXCEPT !.slots[i].status = IF i \in CurrentMatches(h, u) THEN @ ELSE MustMigrate]
Looked_Migrated(h, u, i) ==
    [h EXCEPT !.slots[i].name = u,
              !.slots[i].status = IF i \in CurrentMatches(h, u) THEN @ ELSE Migrated]

\* The table after the mutable lookup found slot i: it remembers the name and,
\* unless the first pass found it, is marked for migration.
Looked(h, u, i) ==
    [h EXCEPT !.slots[i].name = u,
              !.slots[i].status = IF i \in CurrentMatches(h, u) THEN @ ELSE MustMigrate]

-----------------------------------------------------------------------------
(* Password history *)

IsReused(pw, hist) == \E k \in DOMAIN hist : hist[k] = pw

\* Mutant: drop the newest entries.
AddToHistory_DropsNewest(hist, pw, depth) ==
    LET long == Append(hist, pw)
    IN  IF depth = 0 THEN hist
        ELSE IF Len(long) > depth THEN SubSeq(long, 1, depth)
        ELSE long

\* Append, then drop the oldest entries beyond depth.
AddToHistory(hist, pw, depth) ==
    LET long == Append(hist, pw)
    IN  IF depth = 0 THEN hist
        ELSE IF Len(long) > depth THEN SubSeq(long, Len(long) - depth + 1, Len(long))
        ELSE long

-----------------------------------------------------------------------------
(* The slots the operations leave *)

Enrollment(slot, kek, dev) ==
    [slot EXCEPT !.dev = dev, !.pin = kek, !.wrap = Combined(kek, dev)]

WithoutYubiKey(slot) == [slot EXCEPT !.dev = NoDevice, !.pin = NoKek]

\* Mutant: the KEK of a new user is derived with the wrong iteration count.
NewSlot_OtherIterations(p, u, pw, role, must) ==
    [hash |-> HashOf(u, p.algo, p.iter), name |-> u, status |-> NotMigrated,
     wrap |-> PasswordKek(pw, p.iter + 1), role |-> role, must |-> must,
     dev |-> NoDevice, pin |-> NoKek, hist |-> AddToHistory(<<>>, pw, p.depth)]

\* create_user_slot and the services around it, password-only.
NewSlot(p, u, pw, role, must) ==
    [hash |-> HashOf(u, p.algo, p.iter), name |-> u, status |-> NotMigrated,
     wrap |-> PasswordKek(pw, p.iter), role |-> role, must |-> must,
     dev |-> NoDevice, pin |-> NoKek, hist |-> AddToHistory(<<>>, pw, p.depth)]

\* The slot add_user stores when a PIN is given and the policy requires a key:
\* the enrollment is applied, the wrapped DEK stays the password-only one.
ProvisionedSlot(slot, dev) == [slot EXCEPT !.dev = dev, !.pin = slot.wrap]

\* change_user_password: the PIN of an enrolled user is re-encrypted under the
\* combined key, after new_final_kek was overwritten.
ChangedSlot(slot, p, pw) ==
    LET final == Combined(PasswordKek(pw, p.iter), slot.dev)
    IN  [slot EXCEPT !.wrap = final,
                     !.pin  = IF Enrolled(slot) THEN final ELSE @,
                     !.must = FALSE,
                     !.hist = AddToHistory(@, pw, p.depth)]

\* Mutants: the new key still has the YubiKey in it; the enrollment stays.
ResetSlot_Combined(slot, p, pw) ==
    [WithoutYubiKey(slot) EXCEPT !.wrap = Combined(PasswordKek(pw, p.iter), slot.dev),
                                 !.must = TRUE, !.hist = <<>>]
ResetSlot_StillEnrolled(slot, p, pw) ==
    [slot EXCEPT !.wrap = PasswordKek(pw, p.iter), !.must = TRUE, !.hist = <<>>]

\* admin_reset_user_password: password-only, no history, no YubiKey.
ResetSlot(slot, p, pw) ==
    [WithoutYubiKey(slot) EXCEPT !.wrap = PasswordKek(pw, p.iter),
                                 !.must = TRUE, !.hist = <<>>]

\* migrate_user_hash
MigratedSlot(slot, p, u) ==
    [slot EXCEPT !.hash = HashOf(u, p.algo, p.iter), !.status = Migrated]

\* What write_v2_vault puts in the file: everything but the usernames.
OnDisk(h) ==
    [h EXCEPT !.slots = [i \in 1..MaxSlots |->
        IF h.slots[i] = Free THEN Free ELSE [h.slots[i] EXCEPT !.name = NoUser]]]

\* The policies VaultSecurityPolicy::deserialize accepts.
Readable(p) ==
    /\ p.minlen \in 8..128
    /\ p.iter \in 100000..1000000
    /\ p.depth <= 24
=============================================================================
