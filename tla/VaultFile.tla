----------------------------- MODULE VaultFile -----------------------------
(***************************************************************************)
(* The bytes of a V2 vault file, what damage to them does, and what a      *)
(* login and the next save make of a damaged file.                         *)
(*                                                                         *)
(*   0  magic, version, iterations, size (4 bytes each)                    *)
(*  16  flags                                                              *)
(*  17  redundancy (1), original size (4)                                  *)
(*  22  the header in Reed-Solomon blocks of 255 bytes, 223 of them data   *)
(*      salt (32), iv (12), the encrypted accounts                         *)
(*                                                                         *)
(* Only the blocks are protected.  Sizes are the real ones, in bytes; the  *)
(* contents of a field are right or wrong.                                 *)
(***************************************************************************)
EXTENDS Integers, Sequences, FiniteSets

CONSTANTS
    Users,
    Argon2Users,    \* those whose slots name Argon2id, the others PBKDF2
    MaxHistory,     \* bound: passwords remembered in a slot
    Percents,       \* the redundancy settings
    OffBy,          \* how far a damaged number is from the one written
    DamagedPercents, \* what a damaged redundancy byte may hold
    Hits,           \* how many bytes of a block one accident damages
    Lengths,        \* where a file may be cut
    MaxDamages,     \* bound: accidents between two saves
    NoHeader, NoBytes

ASSUME PercentsAssumption == Percents \subseteq 5..50
ASSUME DamageAssumption ==
    /\ OffBy \subseteq Int \ {0} /\ DamagedPercents \subseteq 0..255
    /\ Hits \subseteq 1..255 /\ Lengths \subseteq Nat

VARIABLES
    slots,    \* m_v2_header.key_slots while a vault is open, else NoHeader
    fec,      \* [use, percent]: m_use_reed_solomon, m_rs_redundancy_percent
    bytes     \* the vault file

fileVars == <<slots, fec, bytes>>

-----------------------------------------------------------------------------
(* Key slots and their sizes *)

\* A slot has a user, a device (wrapped_dek takes a YubiKey's response), enrolled
\* (yubikey_enrolled), the lengths of its serial, pin and credential, and a
\* history (the number of old passwords).
CoreSize    == 173
PolicySize  == 141
HistorySize == 88

YubiKeyEnd(s)    == CoreSize + 42 + s.serial
PinEnd(s)        == YubiKeyEnd(s) + 2 + s.pin
CredentialEnd(s) == PinEnd(s) + 2 + s.credential
HistoryEnd(s)    == CredentialEnd(s) + 1 + HistorySize * s.history

\* calculate_serialized_size; the last nine bytes are the migration status.
SlotSize(s) == HistoryEnd(s) + 9

\* Where the i-th slot begins; for Len + 1, the size of the header.
Start(ss, i) ==
    LET end[n \in 0..Len(ss)] ==
            IF n = 0 THEN PolicySize + 1 ELSE end[n - 1] + SlotSize(ss[n])
    IN  end[i - 1]
HeaderSize(ss) == Start(ss, Len(ss) + 1)

-----------------------------------------------------------------------------
(* Reading a slot of which only the first n bytes are there *)

\* Mutant: the core fields are read without asking whether they are there.
MidField_NoCore(s, n) ==
    \/ YubiKeyEnd(s) + 2 <= n /\ n < PinEnd(s)
    \/ PinEnd(s) + 2 <= n /\ n < CredentialEnd(s)
    \/ CredentialEnd(s) + 1 <= n /\ n < HistoryEnd(s)

\* Lengths at which KeySlot::deserialize runs into the middle of a field.
MidField(s, n) ==
    \/ n < CoreSize
    \/ CoreSize + 34 <= n /\ n < YubiKeyEnd(s)
    \/ YubiKeyEnd(s) + 2 <= n /\ n < PinEnd(s)
    \/ PinEnd(s) + 2 <= n /\ n < CredentialEnd(s)
    \/ CredentialEnd(s) + 1 <= n /\ n < HistoryEnd(s)

\* A slot that ends between two fields is taken for one of an older format.
ReadSlot(s, n) ==
    [s EXCEPT !.enrolled   = @ /\ n >= YubiKeyEnd(s),
              !.serial     = IF n >= YubiKeyEnd(s) THEN @ ELSE 0,
              !.pin        = IF n >= PinEnd(s) THEN @ ELSE 0,
              !.credential = IF n >= CredentialEnd(s) THEN @ ELSE 0,
              !.history    = IF n >= HistoryEnd(s) THEN @ ELSE 0]

-----------------------------------------------------------------------------
(* Reed-Solomon *)

DataBytes == 223
BlockSize == 255
Correctable == 16

\* pad_data
Blocks(n) == (n + DataBytes - 1) \div DataBytes

\* The redundancy chooses nothing: a block has 32 bytes of parity whatever it
\* is.  It only has to be one the constructor accepts.
Encodable(percent) == percent \in 5..50
AtLeast20(percent) == IF percent < 20 THEN 20 ELSE percent

-----------------------------------------------------------------------------
(* Writing *)

Fields == {"magic", "version", "iterations", "flags", "iv", "data"}
AfterHeader == 32 + 12 + 64     \* salt, iv, the encrypted accounts

\* write_v2_vault and write_header; the header is always protected.
Written(ss, percent) ==
    LET blocks == Blocks(HeaderSize(ss))
    IN  [slots |-> ss, redundancy |-> percent, original |-> HeaderSize(ss),
         size |-> 6 + BlockSize * blocks, hits |-> [b \in 1..blocks |-> 0],
         good |-> Fields, damages |-> 0,
         length |-> 22 + BlockSize * blocks + AfterHeader]

FullLength(f) == 22 + BlockSize * Len(f.hits) + AfterHeader

-----------------------------------------------------------------------------
(* Reading *)

\* detect_version
IsV2(f) == f.length >= 8 /\ {"magic", "version"} \subseteq f.good

DetectsV2(f) == f.length >= 8 /\ IsV2(f)

\* detect_vault_version_from_file, before a login is offered: the first
\* kilobyte, or what there is of it.
LoginOffered(f) ==
    f.length > 0 /\ DetectsV2([f EXCEPT !.length = IF @ > 1024 THEN 1024 ELSE @])

\* read_vault_file
IsRead(f) == f.length > 0 /\ DetectsV2(f)

\* The checks of read_header before the blocks.  With the flag gone the blocks
\* are parsed as a policy whose algorithm byte is the highest of the original
\* size, which is refused.
Framed(f) ==
    /\ IsV2(f)
    /\ f.size > 0 /\ f.size <= 1048576
    /\ f.length >= 16 + f.size + 44
    /\ "flags" \in f.good /\ f.size >= 6

\* The ReedSolomon constructor throws, and nobody catches.
Throws(f) == Framed(f) /\ ~Encodable(AtLeast20(f.redundancy))

BlocksRead(f) == (f.size - 6) \div BlockSize

\* decode.  What follows the header is no code word.
Decodes(f) ==
    /\ Framed(f) /\ ~Throws(f)
    /\ f.size > 6 /\ f.original > 0
    /\ \A b \in 1..BlocksRead(f) : b \in DOMAIN f.hits /\ f.hits[b] <= Correctable

\* How much of the header unpad_data gives: all or nothing of what it is asked
\* for.  Zeros after the header do no harm.
Unpadded(f) == IF f.original > DataBytes * BlocksRead(f) THEN 0 ELSE f.original

SlotBytes(f, i) == Unpadded(f) - Start(f.slots, i)

\* read_header and VaultHeaderV2::deserialize succeed.  A slot that was cut is
\* followed by too few bytes for another.
Readable(f) ==
    /\ Decodes(f)
    /\ Unpadded(f) > PolicySize
    /\ \A i \in DOMAIN f.slots : ~MidField(f.slots[i], SlotBytes(f, i))

Parsed(f) == [i \in DOMAIN f.slots |-> ReadSlot(f.slots[i], SlotBytes(f, i))]

\* read_v2_metadata, of the fields that outlive the opening
Metadata(f) == [slots |-> Parsed(f), percent |-> f.redundancy]

-----------------------------------------------------------------------------
(* What the program does with it *)

FileInit ==
    /\ slots = NoHeader
    /\ fec = [use |-> FALSE, percent |-> 10]
    /\ bytes = NoBytes

HeaderIsOpen == slots # NoHeader
Setting == IF fec.use THEN fec.percent ELSE 0
SlotOf(ss, u) == {i \in DOMAIN ss : ss[i].user = u}

NewSlot(u) ==
    [user |-> u, device |-> FALSE, enrolled |-> FALSE, serial |-> 0, pin |-> 0,
     credential |-> 0, history |-> IF MaxHistory = 0 THEN 0 ELSE 1]

\* The first administrator's slot is always PBKDF2, and the file of a new vault
\* says 0 whatever the setting is.
Create(u) ==
    /\ bytes = NoBytes /\ u \notin Argon2Users
    /\ slots' = <<NewSlot(u)>>
    /\ bytes' = Written(slots', 0)
    /\ UNCHANGED fec

WriteV2Vault ==
    /\ HeaderIsOpen
    /\ bytes' = Written(slots, Setting)
    /\ UNCHANGED <<slots, fec>>

AddUser(u) ==
    /\ HeaderIsOpen /\ SlotOf(slots, u) = {}
    /\ slots' = Append(slots, NewSlot(u))
    /\ UNCHANGED <<fec, bytes>>

\* The wrapped key must be the one the slot's fields say.
HasAccess(s) == s.device = s.enrolled /\ (s.enrolled => s.pin > 0 /\ s.credential > 0)

Enroll(i) ==
    /\ HeaderIsOpen /\ i \in DOMAIN slots /\ ~slots[i].device
    /\ slots' = [slots EXCEPT ![i].device = TRUE, ![i].enrolled = TRUE,
                              ![i].serial = 12, ![i].pin = 48, ![i].credential = 64]
    /\ UNCHANGED <<fec, bytes>>

ChangePassword(i) ==
    /\ HeaderIsOpen /\ i \in DOMAIN slots /\ HasAccess(slots[i])
    /\ slots[i].history < MaxHistory
    /\ slots' = [slots EXCEPT ![i].history = @ + 1]
    /\ UNCHANGED <<fec, bytes>>

\* admin_reset_user_password
Reset(i) ==
    /\ HeaderIsOpen /\ i \in DOMAIN slots
    /\ slots' = [slots EXCEPT ![i] = [NewSlot(@.user) EXCEPT !.history = 0]]
    /\ UNCHANGED <<fec, bytes>>

SetCorrection(on, percent) ==
    /\ fec' = [use |-> on, percent |-> percent]
    /\ UNCHANGED <<slots, bytes>>

CloseVault ==
    /\ HeaderIsOpen
    /\ slots' = NoHeader
    /\ UNCHANGED <<fec, bytes>>

\* The key of a PBKDF2 user is derived with the iterations before the header,
\* though the policy in it holds them too.
DerivesKey(f, s) == s.user \in Argon2Users \/ "iterations" \in f.good

\* AES-GCM, with the salt unused: the iv and all the ciphertext, from the place
\* where they were written.
Decrypts(f) ==
    /\ {"iv", "data"} \subseteq f.good
    /\ f.size = 6 + BlockSize * Len(f.hits)
    /\ f.length = FullLength(f)

\* Mutant: slots that cannot be read are skipped.
LogIn_Skips(u) ==
    /\ bytes # NoBytes /\ Decodes(bytes) /\ Decrypts(bytes)
    /\ \E n \in 1..Len(bytes.slots) :
        /\ \A i \in DOMAIN bytes.slots :
            i <= n <=> ~MidField(bytes.slots[i], SlotBytes(bytes, i))
        /\ \E i \in SlotOf(SubSeq(Parsed(bytes), 1, n), u) : HasAccess(Parsed(bytes)[i])
        /\ slots' = SubSeq(Parsed(bytes), 1, n)
    /\ UNCHANGED <<fec, bytes>>

\* open_vault_v2; an open vault is closed first.
LogIn(u) ==
    /\ bytes # NoBytes /\ LoginOffered(bytes) /\ IsRead(bytes)
    /\ Readable(bytes) /\ Decrypts(bytes)
    /\ LET read == Metadata(bytes)
       IN  /\ \E i \in SlotOf(read.slots, u) :
                HasAccess(read.slots[i]) /\ DerivesKey(bytes, read.slots[i])
           /\ slots' = read.slots
           /\ fec' = IF read.percent > 0
                     THEN [use |-> TRUE, percent |-> read.percent]
                     ELSE [fec EXCEPT !.use = FALSE]
    /\ UNCHANGED bytes

\* check_vault_requires_yubikey reads the header before the login dialog; what
\* it throws ends the program.
Terminate ==
    /\ bytes # NoBytes /\ LoginOffered(bytes) /\ IsRead(bytes) /\ Throws(bytes)
    /\ slots' = NoHeader
    /\ fec' = [use |-> FALSE, percent |-> 10]
    /\ UNCHANGED bytes

-----------------------------------------------------------------------------
(* Accidents to the file, from outside *)

DamageBlock(b, n) ==
    /\ bytes.hits[b] + n <= BlockSize
    /\ bytes' = [bytes EXCEPT !.hits[b] = @ + n, !.damages = @ + 1]

DamageField(x) == bytes' = [bytes EXCEPT !.good = @ \ {x}, !.damages = @ + 1]

DamageSize(d) ==
    /\ bytes.size + d >= 0
    /\ bytes' = [bytes EXCEPT !.size = @ + d, !.damages = @ + 1]

DamageOriginal(d) ==
    /\ bytes.original + d >= 0
    /\ bytes' = [bytes EXCEPT !.original = @ + d, !.damages = @ + 1]

DamageRedundancy(p) == bytes' = [bytes EXCEPT !.redundancy = p, !.damages = @ + 1]

CutShort(n) ==
    /\ n < bytes.length
    /\ bytes' = [bytes EXCEPT !.length = n, !.damages = @ + 1]

\* Bound: the file is damaged while nobody has it open.
Accident ==
    /\ bytes # NoBytes /\ bytes.damages < MaxDamages /\ ~HeaderIsOpen
    /\ \/ \E b \in DOMAIN bytes.hits, n \in Hits : DamageBlock(b, n)
       \/ \E x \in Fields : DamageField(x)
       \/ \E d \in OffBy : DamageSize(d) \/ DamageOriginal(d)
       \/ \E p \in DamagedPercents : DamageRedundancy(p)
       \/ \E n \in Lengths : CutShort(n)
    /\ UNCHANGED <<slots, fec>>

FileNext ==
    \/ \E u \in Users : Create(u) \/ AddUser(u) \/ LogIn(u)
    \/ \E i \in 1..Cardinality(Users) : Enroll(i) \/ ChangePassword(i) \/ Reset(i)
    \/ \E on \in BOOLEAN, p \in Percents : SetCorrection(on, p)
    \/ WriteV2Vault \/ CloseVault \/ Terminate
    \/ Accident

FileSpec == FileInit /\ [][FileNext]_fileVars

-----------------------------------------------------------------------------
(* Properties *)

Slot == [user : Users, device : BOOLEAN, enrolled : BOOLEAN, serial : Nat, pin : Nat,
         credential : Nat, history : Nat]
File == [slots : Seq(Slot), redundancy : 0..255, original : Nat, size : Nat,
         hits : Seq(0..BlockSize), good : SUBSET Fields, damages : Nat, length : Nat]

\* The types of the variables (m_v2_header's slots, the correction settings, the file).
FileTypeOK ==
    /\ HeaderIsOpen => slots \in Seq(Slot)
    /\ fec \in [use : BOOLEAN, percent : 0..255]
    /\ bytes # NoBytes => bytes \in File

\* A login that succeeds on a damaged file (open_vault_v2 after read_header)
\* changes no slot but the last, and of that one only the fields that a format
\* older than this one did not have.
OnlyTheLastSlotSuffers ==
    (bytes # NoBytes /\ Readable(bytes)) =>
        \A i \in DOMAIN bytes.slots :
            LET was == bytes.slots[i]
                is  == Parsed(bytes)[i]
            IN  /\ is.user = was.user /\ is.device = was.device
                /\ i < Len(bytes.slots) => is = was

\* Whatever happens to the file between the saves (read_header, then save_vault),
\* nobody whose slot was ever saved is missing from the header saved later: damage
\* removes no user.  (Administrators do, which is not an operation here.)
UsersStayInTheFile ==
    [][(bytes # NoBytes /\ bytes' # bytes) =>
        {bytes.slots[i].user : i \in DOMAIN bytes.slots} \subseteq
            {bytes'.slots[i].user : i \in DOMAIN bytes'.slots}]_fileVars
=============================================================================
