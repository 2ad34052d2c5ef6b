------------------------ MODULE VaultUsersProofs ------------------------
(***************************************************************************)
(* Safety of VaultUsers for every set of users, passwords, YubiKeys and    *)
(* policies, and every number of slots; then what holds as long as the     *)
(* policies agree on the hash of user names, and at the end that lookups   *)
(* find every user whatever migrations there are.                          *)
(***************************************************************************)
EXTENDS VaultUsers, SequenceTheorems, WellFoundedInduction, TLAPS

-----------------------------------------------------------------------------
(* The operators of KeySlots stay within their types *)

\* A trimmed history is a history.
LEMMA AddToHistoryType ==
    ASSUME NEW hist \in Seq(Passwords), NEW pw \in Passwords, NEW depth \in Nat
    PROVE  AddToHistory(hist, pw, depth) \in Seq(Passwords)
<1> DEFINE long == Append(hist, pw)
<1>1. long \in Seq(Passwords) /\ Len(long) \in Nat
  OBVIOUS
<1>2. CASE Len(long) > depth
  <2>1. Len(long) - depth + 1 \in 1..(Len(long) + 1)
    BY <1>1, <1>2
  <2>2. SubSeq(long, Len(long) - depth + 1, Len(long)) \in Seq(Passwords)
    BY <1>1, <2>1
  <2> QED
    BY <2>2, <1>2 DEF AddToHistory
<1>3. CASE ~(Len(long) > depth)
  BY <1>1, <1>3 DEF AddToHistory
<1> QED
  BY <1>2, <1>3

\* The newest entry of a history that remembers anything is the one added last.
LEMMA AddToHistoryLast ==
    ASSUME NEW hist \in Seq(Passwords), NEW pw \in Passwords, NEW depth \in Nat, depth > 0
    PROVE  AddToHistory(hist, pw, depth)[Len(AddToHistory(hist, pw, depth))] = pw
<1> DEFINE long == Append(hist, pw)
           n    == Len(long)
<1>1. long \in Seq(Passwords) /\ n \in Nat /\ long[n] = pw
  BY AppendProperties
<1> HIDE DEF long
<1>2. CASE n > depth
  <2> DEFINE short == SubSeq(long, n - depth + 1, n)
  <2>1. \A i \in (n - depth + 1)..n : long[i] \in Passwords
    BY <1>1, <1>2
  <2>2. Len(short) = depth /\ short[depth] = long[n]
    BY <1>1, <1>2, <2>1, SubSeqProperties, n - depth + 1 \in Int, n \in Int
  <2>3. AddToHistory(hist, pw, depth) = short
    BY <1>1, <1>2 DEF AddToHistory, long
  <2> HIDE DEF short
  <2> QED
    BY <1>1, <2>2, <2>3
<1>3. CASE ~(n > depth)
  BY <1>1, <1>3 DEF AddToHistory, long
<1> QED
  BY <1>2, <1>3

\* The parts of a policy, and keys and hashes made with one, have their types.
LEMMA PolicyType ==
    ASSUME NEW p \in Policies
    PROVE  /\ p \in Policy
           /\ p.depth \in Nat
           /\ p.algo \in Algorithms
           /\ p.iter \in Iterations /\ p.iter \in Nat
BY PoliciesAssumption DEF Policy, Iterations

\* Keys derived under a policy, with or without a YubiKey, are keys.
LEMMA KekType ==
    ASSUME NEW p \in Policies, NEW pw \in Passwords,
           NEW dev \in Devices \cup {NoDevice}
    PROVE  /\ PasswordKek(pw, p.iter) \in Kek
           /\ Combined(PasswordKek(pw, p.iter), dev) \in Kek
BY PolicyType DEF PasswordKek, Combined, Kek

\* A username hashed under a policy is a username hash.
LEMMA HashType ==
    ASSUME NEW p \in Policies, NEW u \in Users
    PROVE  HashOf(u, p.algo, p.iter) \in Hash
BY PolicyType DEF HashOf, Hash

\* Every operation on a slot yields a slot.
LEMMA NewSlotType ==
    ASSUME NEW p \in Policies, NEW u \in Users, NEW pw \in Passwords,
           NEW role \in Roles, NEW must \in BOOLEAN
    PROVE  NewSlot(p, u, pw, role, must) \in Slot
<1>1. <<>> \in Seq(Passwords)
  OBVIOUS
<1>2. AddToHistory(<<>>, pw, p.depth) \in Seq(Passwords)
  BY <1>1, PolicyType, AddToHistoryType
<1> QED
  BY <1>2, PolicyType, KekType, HashType DEF NewSlot, Slot, NotMigrated

\* So does every operation that starts from a slot: enrollment, reset, change
\* and migration.
LEMMA SlotEditTypes ==
    ASSUME NEW slot \in Slot, NEW p \in Policies, NEW pw \in Passwords,
           NEW dev \in Devices \cup {NoDevice}, NEW u \in Users
    PROVE  /\ Enrollment(slot, PasswordKek(pw, p.iter), dev) \in Slot
           /\ WithoutYubiKey(slot) \in Slot
           /\ ProvisionedSlot(slot, dev) \in Slot
           /\ ChangedSlot(slot, p, pw) \in Slot
           /\ ResetSlot(slot, p, pw) \in Slot
           /\ MigratedSlot(slot, p, u) \in Slot
<1>1. /\ PasswordKek(pw, p.iter) \in Kek
      /\ Combined(PasswordKek(pw, p.iter), dev) \in Kek
      /\ Combined(PasswordKek(pw, p.iter), slot.dev) \in Kek
  BY KekType DEF Slot
<1>2. Enrollment(slot, PasswordKek(pw, p.iter), dev) \in Slot
  BY <1>1 DEF Enrollment, Slot
<1>3. WithoutYubiKey(slot) \in Slot
  BY DEF WithoutYubiKey, Slot
<1>4. ProvisionedSlot(slot, dev) \in Slot
  BY DEF ProvisionedSlot, Slot
<1>5. AddToHistory(slot.hist, pw, p.depth) \in Seq(Passwords)
  BY PolicyType, AddToHistoryType DEF Slot
<1>6. ChangedSlot(slot, p, pw) \in Slot
  BY <1>1, <1>5 DEF ChangedSlot, Slot
<1>7. ResetSlot(slot, p, pw) \in Slot
  <2>1. <<>> \in Seq(Passwords)
    OBVIOUS
  <2> QED
    BY <1>1, <1>3, <2>1 DEF ResetSlot, Slot
<1>8. MigratedSlot(slot, p, u) \in Slot
  BY HashType DEF MigratedSlot, Slot, Migrated
<1> QED
  BY <1>2, <1>3, <1>4, <1>6, <1>7, <1>8

-----------------------------------------------------------------------------
(* A header with one slot replaced *)

Put(h, i, s) == [h EXCEPT !.slots[i] = s]

\* Replacing one slot changes that slot and no other, nor the policy.
LEMMA PutFacts ==
    ASSUME NEW h \in Header, NEW i \in 1..MaxSlots, NEW s \in Slot \cup {Free}
    PROVE  /\ Put(h, i, s) \in Header
           /\ Put(h, i, s).policy = h.policy
           /\ Put(h, i, s).slots[i] = s
           /\ \A j \in 1..MaxSlots : j # i => Put(h, i, s).slots[j] = h.slots[j]
           /\ s # Free => Active(Put(h, i, s).slots) = Active(h.slots) \cup {i}
           /\ s = Free => Active(Put(h, i, s).slots) = Active(h.slots) \ {i}
BY DEF Put, Header, SlotTable, Active

\* What is active is a slot, in one of the places.
LEMMA ActiveType ==
    ASSUME NEW h \in Header, NEW i \in Active(h.slots)
    PROVE  i \in 1..MaxSlots /\ h.slots[i] \in Slot /\ h.slots[i] # Free
BY DEF Active, Header, SlotTable

\* The slot the lookup leaves in the place it found.
Marked(h, u, i) ==
    [h.slots[i] EXCEPT !.name = u,
                       !.status = IF i \in CurrentMatches(h, u) THEN @ ELSE MustMigrate]

\* The mutable lookup replaces the slot it found by the marked one, and an
\* operation that goes on to replace that slot replaces only it.
LEMMA LookedFacts ==
    ASSUME NEW h \in Header, NEW u \in Users, NEW i \in Active(h.slots)
    PROVE  /\ Marked(h, u, i) \in Slot
           /\ Looked(h, u, i) = Put(h, i, Marked(h, u, i))
           /\ Looked(h, u, i).slots[i] = Marked(h, u, i)
           /\ \A s : [Looked(h, u, i) EXCEPT !.slots[i] = s] = Put(h, i, s)
<1>1. h.slots[i] \in Slot /\ i \in 1..MaxSlots
  BY ActiveType
<1>2. Marked(h, u, i) \in Slot
  <2> DEFINE status == IF i \in CurrentMatches(h, u) THEN h.slots[i].status ELSE MustMigrate
  <2>1. status \in {NotMigrated, Migrated, MustMigrate}
    BY <1>1 DEF Slot
  <2>2. Marked(h, u, i) = [h.slots[i] EXCEPT !.name = u, !.status = status]
    BY <1>1 DEF Marked, Slot
  <2> HIDE DEF status
  <2> QED
    BY <1>1, <2>1, <2>2 DEF Slot
<1>3. Looked(h, u, i) = Put(h, i, Marked(h, u, i))
  BY <1>1 DEF Looked, Put, Marked, Header, SlotTable, Slot
<1>4. Looked(h, u, i).slots[i] = Marked(h, u, i)
  BY <1>1, <1>2, <1>3, PutFacts
<1>5. ASSUME NEW s
      PROVE  [Looked(h, u, i) EXCEPT !.slots[i] = s] = Put(h, i, s)
  BY <1>1, <1>3 DEF Put, Header, SlotTable
<1> QED
  BY <1>2, <1>3, <1>4, <1>5

\* A lookup finds only a slot that holds the user's name under some hash.
LEMMA FindsUser ==
    ASSUME NEW h \in Header, NEW u \in Users, NEW i, Finds(h, u, i)
    PROVE  i \in Active(h.slots) /\ h.slots[i].hash.user = u
<1>1. ASSUME NEW algo, i \in Matching(h, u, algo)
      PROVE  i \in Active(h.slots) /\ h.slots[i].hash.user = u
  BY <1>1 DEF Matching, HashOf
<1> QED
  BY <1>1 DEF Finds, IsFirst, CurrentMatches, FallbackMatches, SweepFinds

-----------------------------------------------------------------------------
(* The inductive invariant *)

\* Histories are never switched off, and nobody adds users with a PIN.
Remembering == \A p \in Policies : p.depth > 0
NoPinWithAdd == PinWithAdd \subseteq {FALSE}

\* The history's newest entry is the password the DEK is wrapped under.
Current(slot) ==
    slot.hist # <<>> => slot.hist[Len(slot.hist)] = slot.wrap.pw

\* The username was hashed under some policy, not always the present one.
Hashed(slot) ==
    \E q \in Policies : slot.hash = HashOf(slot.hash.user, q.algo, q.iter)

\* What holds of each slot under the policy of its header.
SlotSound(p, slot) ==
    /\ Hashed(slot)
    /\ ~Enrolled(slot) => slot.wrap.dev = NoDevice /\ slot.pin = NoKek
    /\ NoPinWithAdd /\ Enrolled(slot) => slot.wrap.dev = slot.dev
    /\ slot.status = Migrated => slot.hash.algo = p.algo
    /\ Remembering => Current(slot)

\* An administrator remains and every slot is sound.
HeaderSound(h) ==
    /\ AdminSlots(h.slots) # {}
    /\ \A i \in Active(h.slots) : SlotSound(h.policy, h.slots[i])

\* The user of the session is the only one whom the open vault can have migrated
\* since the file was written.
MigratedByOwner ==
    IsOpen => \A i \in Active(header.slots) \cap Active(disk.slots) :
        header.slots[i].status = Migrated /\ disk.slots[i].status # Migrated
            => header.slots[i].hash.user = session.user

\* Both headers are sound, and the session is backed.  Header and file are
\* related only by Open and Save, so each needs the whole of HeaderSound.
Inv ==
    /\ TypeOK
    /\ IsOpen => HeaderSound(header) /\ disk # NoVault
    /\ disk # NoVault => HeaderSound(disk)
    /\ SessionBacked
    /\ CleanMeansSaved
    /\ MigratedByOwner

\* The operations on the slot of one user, who stays that user in that role.
SlotEdit(p, old, new) ==
    /\ new \in Slot
    /\ new.role = old.role
    /\ new.hash.user = old.hash.user
    /\ SlotSound(p, old) => SlotSound(p, new)

\* Only a login marks a slot migrated.
NotMigratedBy(old, new) == new.status = Migrated => old.status = Migrated

\* The lookup's mark is such an operation.
LEMMA MarkedEdit ==
    ASSUME NEW h \in Header, NEW u \in Users, NEW i \in Active(h.slots)
    PROVE  /\ SlotEdit(h.policy, h.slots[i], Marked(h, u, i))
           /\ NotMigratedBy(h.slots[i], Marked(h, u, i))
           /\ LET m == Marked(h, u, i)
              IN  /\ m.wrap = h.slots[i].wrap /\ m.pin = h.slots[i].pin
                  /\ m.dev = h.slots[i].dev /\ m.hash = h.slots[i].hash
                  /\ m.must = h.slots[i].must /\ m.hist = h.slots[i].hist
<1> DEFINE m == Marked(h, u, i)
<1>1. h.slots[i] \in Slot /\ m \in Slot
  BY ActiveType, LookedFacts
<1>2. /\ m.wrap = h.slots[i].wrap /\ m.pin = h.slots[i].pin
      /\ m.dev = h.slots[i].dev /\ m.hash = h.slots[i].hash /\ m.role = h.slots[i].role
      /\ m.must = h.slots[i].must /\ m.hist = h.slots[i].hist
      /\ m.status = h.slots[i].status \/ m.status = MustMigrate
  BY <1>1 DEF Marked, Slot
<1> HIDE DEF m
<1>3. SlotEdit(h.policy, h.slots[i], m) /\ NotMigratedBy(h.slots[i], m)
  BY <1>1, <1>2
     DEF SlotEdit, SlotSound, Hashed, Current, NotMigratedBy, Enrolled, Migrated, MustMigrate
<1> QED
  BY <1>2, <1>3 DEF m

\* Such an operation keeps the whole header sound.
LEMMA EditSound ==
    ASSUME NEW h \in Header, HeaderSound(h), NEW i \in Active(h.slots),
           NEW s, SlotEdit(h.policy, h.slots[i], s)
    PROVE  Put(h, i, s) \in Header /\ HeaderSound(Put(h, i, s))
<1> DEFINE g == Put(h, i, s)
<1>1. i \in 1..MaxSlots /\ s \in Slot /\ s # Free
  BY ActiveType, FreeAssumption DEF SlotEdit
<1>2. /\ g \in Header /\ g.policy = h.policy
      /\ g.slots[i] = s
      /\ \A j \in 1..MaxSlots : j # i => g.slots[j] = h.slots[j]
      /\ Active(g.slots) = Active(h.slots) \cup {i}
  BY <1>1, PutFacts
<1>3. AdminSlots(g.slots) = AdminSlots(h.slots) /\ Active(g.slots) = Active(h.slots)
  BY <1>1, <1>2 DEF AdminSlots, Active, SlotEdit
<1>4. \A j \in Active(g.slots) : SlotSound(g.policy, g.slots[j])
  BY <1>2, <1>1, <1>3 DEF HeaderSound, SlotEdit, Active
<1> HIDE DEF g
<1> QED
  BY <1>2, <1>3, <1>4 DEF HeaderSound, g

-----------------------------------------------------------------------------
(* The operations on one user's slot *)

\* What those operations have in common.
EditStep ==
    /\ IsOpen
    /\ \E i \in Active(header.slots), s \in Slot :
        /\ SlotEdit(header.policy, header.slots[i], s)
        /\ NotMigratedBy(header.slots[i], s)
        /\ header' = Put(header, i, s)
        /\ \/ IsAdmin
           \/ header.slots[i].hash.user = session.user
           \/ Essence(header') = Essence(header)
    /\ session' \in Session
    /\ session'.user = session.user
    /\ session'.role = session.role
    /\ \/ modified' = TRUE
       \/ modified' = modified /\ Essence(header') = Essence(header)
    /\ disk' = disk

\* While the vault is open there is a header and a session.
LEMMA OpenTypes ==
    ASSUME TypeOK, IsOpen
    PROVE  header \in Header /\ session \in Session /\ header.policy \in Policies
BY DEF TypeOK, IsOpen, Header

\* Replacing the slot a lookup found by an edit of the marked slot is an edit.
LEMMA EditAfterLookup ==
    ASSUME NEW h \in Header, NEW u \in Users, NEW i \in Active(h.slots),
           NEW s, SlotEdit(h.policy, Marked(h, u, i), s), s.status = Marked(h, u, i).status
    PROVE  /\ SlotEdit(h.policy, h.slots[i], s)
           /\ NotMigratedBy(h.slots[i], s)
           /\ s \in Slot
           /\ [Looked(h, u, i) EXCEPT !.slots[i] = s] = Put(h, i, s)
<1>1. SlotEdit(h.policy, h.slots[i], Marked(h, u, i)) /\ NotMigratedBy(h.slots[i], Marked(h, u, i))
  BY MarkedEdit
<1> QED
  BY <1>1, LookedFacts DEF SlotEdit, NotMigratedBy

\* The mark is not part of a header's essence.
LEMMA LookedEssence ==
    ASSUME NEW h \in Header, NEW u \in Users, NEW i \in Active(h.slots)
    PROVE  Essence(Looked(h, u, i)) = Essence(h)
<1> DEFINE m == Marked(h, u, i)
           g == Put(h, i, m)
<1>1. m \in Slot /\ m # Free /\ i \in 1..MaxSlots /\ Looked(h, u, i) = g
      /\ h.slots[i] \in Slot /\ h.slots[i] # Free
  BY LookedFacts, ActiveType, FreeAssumption
<1>2. [m EXCEPT !.name = NoUser, !.status = NotMigrated]
        = [h.slots[i] EXCEPT !.name = NoUser, !.status = NotMigrated]
  BY <1>1 DEF Marked, Slot
<1> HIDE DEF m
<1>3. /\ g.slots[i] = m
      /\ \A j \in 1..MaxSlots : j # i => g.slots[j] = h.slots[j]
  BY <1>1, PutFacts
<1>4. g \in Header /\ g.policy = h.policy
  BY <1>1, PutFacts
<1> HIDE DEF g
<1> DEFINE Bare(slot) == IF slot = Free THEN Free
                         ELSE [slot EXCEPT !.name = NoUser, !.status = NotMigrated]
<1>5. \A j \in 1..MaxSlots : Bare(g.slots[j]) = Bare(h.slots[j])
  BY <1>1, <1>2, <1>3
<1>6. /\ Essence(g) = [g EXCEPT !.slots = [j \in 1..MaxSlots |-> Bare(g.slots[j])]]
      /\ Essence(h) = [h EXCEPT !.slots = [j \in 1..MaxSlots |-> Bare(h.slots[j])]]
  BY DEF Essence
<1> HIDE DEF Bare
<1>7. [j \in 1..MaxSlots |-> Bare(g.slots[j])] = [j \in 1..MaxSlots |-> Bare(h.slots[j])]
  BY <1>5
<1>8. Essence(g) = Essence(h)
  BY <1>4, <1>6, <1>7 DEF Header
<1> QED
  BY <1>1, <1>8

\* An operation of its user or an administrator, marked for saving, is an edit.
LEMMA OperationEdits ==
    ASSUME TypeOK, IsOpen, NEW u \in Users, IsSelf(u) \/ IsAdmin,
           NEW i \in Active(header.slots), Finds(header, u, i),
           NEW s, SlotEdit(header.policy, Marked(header, u, i), s),
           s.status = Marked(header, u, i).status,
           header' = [Looked(header, u, i) EXCEPT !.slots[i] = s],
           session' \in Session, session'.user = session.user,
           session'.role = session.role, modified' = TRUE, disk' = disk
    PROVE  EditStep
<1>1. header \in Header
  BY OpenTypes
<1>2. header.slots[i].hash.user = u
  BY <1>1, FindsUser
<1>3. /\ SlotEdit(header.policy, header.slots[i], s) /\ s \in Slot
      /\ NotMigratedBy(header.slots[i], s)
      /\ header' = Put(header, i, s)
  BY <1>1, EditAfterLookup
<1> QED
  BY <1>2, <1>3 DEF EditStep, IsSelf

\* A lookup whose operation then fails edits one slot.
LEMMA LookupOnlyEdits ==
    ASSUME TypeOK, NEW u \in Users, LookupOnly(u)
    PROVE  EditStep
<1>1. header \in Header /\ session \in Session
  BY OpenTypes DEF LookupOnly
<1>2. PICK i \in Active(header.slots) : header' = Looked(header, u, i)
  BY DEF LookupOnly
<1>3. /\ SlotEdit(header.policy, header.slots[i], Marked(header, u, i))
      /\ NotMigratedBy(header.slots[i], Marked(header, u, i))
      /\ Marked(header, u, i) \in Slot
      /\ header' = Put(header, i, Marked(header, u, i))
      /\ Essence(header') = Essence(header)
  BY <1>1, <1>2, MarkedEdit, LookedFacts, LookedEssence
<1> QED
  BY <1>1, <1>3 DEF EditStep, LookupOnly, TypeOK

\* change_user_password edits one slot and, of the session, one flag.
LEMMA ChangePasswordEdits ==
    ASSUME TypeOK, NEW u \in Users, NEW old \in Passwords, NEW new \in Passwords,
           NEW dev \in Plugged, ChangePassword(u, old, new, dev)
    PROVE  EditStep
<1>1. IsOpen /\ header \in Header /\ session \in Session /\ header.policy \in Policies
  BY OpenTypes DEF ChangePassword, MaySelfOrAdmin
<1>2. PICK i \in Active(header.slots) :
        /\ Finds(header, u, i)
        /\ header' = [Looked(header, u, i) EXCEPT
                        !.slots[i] = ChangedSlot(@, header.policy, new)]
  BY DEF ChangePassword
<1> DEFINE m == Marked(header, u, i)
           s == ChangedSlot(m, header.policy, new)
<1>3. m \in Slot /\ Looked(header, u, i).slots[i] = m
  BY <1>1, LookedFacts
<1>4. SlotEdit(header.policy, m, s) /\ s.status = m.status
  <2>1. s \in Slot /\ NoDevice \in Devices \cup {NoDevice}
    BY <1>1, <1>3, SlotEditTypes
  <2> HIDE DEF m
  <2>2. /\ s.role = m.role /\ s.hash = m.hash /\ s.status = m.status /\ s.dev = m.dev
        /\ s.wrap.dev = m.dev /\ s.wrap.pw = new
        /\ s.hist = AddToHistory(m.hist, new, header.policy.depth)
        /\ ~Enrolled(m) => s.pin = m.pin
    BY <1>3 DEF ChangedSlot, Slot, Combined, PasswordKek, Enrolled
  <2>3. Remembering => Current(s)
    <3>1. Remembering => header.policy.depth > 0
      BY <1>1 DEF Remembering
    <3>2. m.hist \in Seq(Passwords) /\ header.policy.depth \in Nat
      BY <1>1, <1>3, PolicyType DEF Slot
    <3> QED
      BY <2>2, <3>1, <3>2, AddToHistoryLast DEF Current
  <2>4. SlotSound(header.policy, m) => SlotSound(header.policy, s)
    BY <2>2, <2>3 DEF SlotSound, Hashed, Enrolled
  <2> QED
    BY <2>1, <2>2, <2>4 DEF SlotEdit
<1>5. header' = [Looked(header, u, i) EXCEPT !.slots[i] = s]
  BY <1>2, <1>3
<1>6. session' \in Session /\ session'.user = session.user /\ session'.role = session.role
  BY <1>1 DEF ChangePassword, Session
<1> HIDE DEF m, s
<1> QED
  BY <1>1, <1>2, <1>4, <1>5, <1>6, OperationEdits DEF ChangePassword, MaySelfOrAdmin, m

\* admin_reset_user_password edits one slot.
LEMMA AdminResetEdits ==
    ASSUME TypeOK, NEW u \in Users, NEW pw \in Passwords, AdminReset(u, pw)
    PROVE  EditStep
<1>1. IsOpen /\ header \in Header /\ session \in Session /\ header.policy \in Policies
  BY OpenTypes DEF AdminReset
<1>2. PICK i \in Active(header.slots) :
        /\ Finds(header, u, i)
        /\ header' = [Looked(header, u, i) EXCEPT
                        !.slots[i] = ResetSlot(@, header.policy, pw)]
  BY DEF AdminReset
<1> DEFINE m == Marked(header, u, i)
           s == ResetSlot(m, header.policy, pw)
<1>3. m \in Slot /\ Looked(header, u, i).slots[i] = m
  BY <1>1, LookedFacts
<1>4. SlotEdit(header.policy, m, s) /\ s.status = m.status
  <2>1. s \in Slot
    BY <1>1, <1>3, SlotEditTypes
  <2> HIDE DEF m
  <2>2. s.role = m.role /\ s.hash = m.hash /\ s.status = m.status /\ s.hist = <<>>
    BY <1>3 DEF ResetSlot, WithoutYubiKey, Slot
  <2>3. SlotSound(header.policy, m) => SlotSound(header.policy, s)
    <3>1. s.dev = NoDevice /\ s.pin = NoKek /\ s.wrap.dev = NoDevice
      BY <1>3 DEF ResetSlot, WithoutYubiKey, Slot, PasswordKek
    <3> QED
      BY <2>2, <3>1 DEF SlotSound, Hashed, Current, Enrolled
  <2> QED
    BY <2>1, <2>2, <2>3 DEF SlotEdit
<1>5. header' = [Looked(header, u, i) EXCEPT !.slots[i] = s]
  BY <1>2, <1>3
<1> HIDE DEF m, s
<1> QED
  BY <1>1, <1>2, <1>4, <1>5, OperationEdits DEF AdminReset, m

\* clear_user_password_history edits one slot.
LEMMA ClearHistoryEdits ==
    ASSUME TypeOK, NEW u \in Users, ClearHistory(u)
    PROVE  EditStep
<1>1. IsOpen /\ header \in Header /\ session \in Session
  BY OpenTypes DEF ClearHistory, MaySelfOrAdmin
<1>2. PICK i \in Active(header.slots) :
        /\ Finds(header, u, i)
        /\ header' = [Looked(header, u, i) EXCEPT !.slots[i].hist = <<>>]
  BY DEF ClearHistory
<1> DEFINE m == Marked(header, u, i)
           s == [m EXCEPT !.hist = <<>>]
<1>3. m \in Slot /\ Looked(header, u, i).slots[i] = m
  BY <1>1, LookedFacts
<1>4. SlotEdit(header.policy, m, s) /\ s.status = m.status
  <2> HIDE DEF m
  <2>1. <<>> \in Seq(Passwords)
    OBVIOUS
  <2>2. s \in Slot /\ s.hist = <<>>
    BY <1>3, <2>1 DEF Slot
  <2> QED
    BY <1>3, <2>2 DEF SlotEdit, SlotSound, Hashed, Current, Slot, Enrolled
<1>5. header' = [Looked(header, u, i) EXCEPT !.slots[i] = s]
  BY <1>2, <1>3
<1> HIDE DEF m, s
<1> QED
  BY <1>1, <1>2, <1>4, <1>5, OperationEdits DEF ClearHistory, MaySelfOrAdmin, m

\* enroll_yubikey_for_user edits one slot and, of the session, one flag.
LEMMA EnrollEdits ==
    ASSUME TypeOK, NEW u \in Users, NEW pw \in Passwords, NEW dev \in Devices,
           Enroll(u, pw, dev)
    PROVE  EditStep
<1>1. IsOpen /\ header \in Header /\ session \in Session /\ header.policy \in Policies
  BY OpenTypes DEF Enroll, MaySelfOrAdmin
<1> DEFINE kek == PasswordKek(pw, header.policy.iter)
<1>2. PICK i \in Active(header.slots) :
        /\ Finds(header, u, i) /\ header.slots[i].wrap = kek
        /\ header' = [Looked(header, u, i) EXCEPT !.slots[i] = Enrollment(@, kek, dev)]
  BY DEF Enroll
<1> DEFINE m == Marked(header, u, i)
           s == Enrollment(m, kek, dev)
<1>3. m \in Slot /\ Looked(header, u, i).slots[i] = m /\ m.wrap = kek
  BY <1>1, <1>2, LookedFacts, MarkedEdit
<1>4. SlotEdit(header.policy, m, s) /\ s.status = m.status
  <2>1. s \in Slot
    BY <1>1, <1>3, SlotEditTypes
  <2> HIDE DEF m
  <2>2. /\ s.role = m.role /\ s.hash = m.hash /\ s.status = m.status
        /\ s.hist = m.hist /\ s.dev = dev /\ s.wrap.dev = dev /\ s.wrap.pw = kek.pw
    BY <1>3 DEF Enrollment, Slot, Combined, PasswordKek
  <2>3. Enrolled(s)
    BY <2>2, MarkersAssumption DEF Enrolled
  <2>4. Current(m) => Current(s)
    BY <1>3, <2>2 DEF Current
  <2> QED
    BY <2>1, <2>2, <2>3, <2>4 DEF SlotEdit, SlotSound, Hashed
<1>5. header' = [Looked(header, u, i) EXCEPT !.slots[i] = s]
  BY <1>2, <1>3
<1>6. session' \in Session /\ session'.user = session.user /\ session'.role = session.role
  BY <1>1 DEF Enroll, Session
<1> HIDE DEF m, s
<1> QED
  BY <1>1, <1>2, <1>4, <1>5, <1>6, OperationEdits DEF Enroll, MaySelfOrAdmin, m

\* unenroll_yubikey_for_user edits one slot and, of the session, one flag.
LEMMA UnenrollEdits ==
    ASSUME TypeOK, NEW u \in Users, NEW pw \in Passwords, NEW dev \in Devices,
           Unenroll(u, pw, dev)
    PROVE  EditStep
<1>1. IsOpen /\ header \in Header /\ session \in Session /\ header.policy \in Policies
  BY OpenTypes DEF Unenroll, MaySelfOrAdmin
<1> DEFINE kek == PasswordKek(pw, header.policy.iter)
<1>2. PICK i \in Active(header.slots) :
        /\ Finds(header, u, i) /\ header.slots[i].wrap = Combined(kek, dev)
        /\ header' = [Looked(header, u, i) EXCEPT
                        !.slots[i] = [WithoutYubiKey(@) EXCEPT !.wrap = kek]]
  BY DEF Unenroll, Unwraps
<1> DEFINE m == Marked(header, u, i)
           s == [WithoutYubiKey(m) EXCEPT !.wrap = kek]
<1>3. m \in Slot /\ Looked(header, u, i).slots[i] = m /\ m.wrap = Combined(kek, dev)
  BY <1>1, <1>2, LookedFacts, MarkedEdit
<1>4. SlotEdit(header.policy, m, s) /\ s.status = m.status
  <2>1. kek \in Kek /\ kek.dev = NoDevice /\ m.wrap.pw = kek.pw
    BY <1>1, <1>3, KekType DEF PasswordKek, Combined
  <2> HIDE DEF m, kek
  <2>2. /\ s \in Slot /\ s.wrap = kek /\ s.dev = NoDevice /\ s.pin = NoKek
        /\ s.hist = m.hist /\ s.role = m.role /\ s.hash = m.hash /\ s.status = m.status
    BY <1>3, <2>1 DEF WithoutYubiKey, Slot
  <2> QED
    BY <2>1, <2>2 DEF SlotEdit, SlotSound, Hashed, Current, Enrolled
<1>5. header' = [Looked(header, u, i) EXCEPT !.slots[i] = s]
  BY <1>2, <1>3
<1>6. session' \in Session /\ session'.user = session.user /\ session'.role = session.role
  BY <1>1 DEF Unenroll, Session
<1> HIDE DEF m, s
<1> QED
  BY <1>1, <1>2, <1>4, <1>5, <1>6, OperationEdits DEF Unenroll, MaySelfOrAdmin, m

-----------------------------------------------------------------------------
(* Every step preserves the invariant *)

\* An edit of one user's slot leaves the session that user's or another's.
LEMMA EditPreserves ==
    ASSUME Inv, EditStep
    PROVE  Inv'
<1>1. header \in Header /\ session \in Session /\ HeaderSound(header)
  BY OpenTypes DEF Inv, EditStep
<1>2. PICK i \in Active(header.slots), s \in Slot :
        /\ SlotEdit(header.policy, header.slots[i], s)
        /\ NotMigratedBy(header.slots[i], s)
        /\ header' = Put(header, i, s)
  BY DEF EditStep
<1>3. header' \in Header /\ HeaderSound(header')
  BY <1>1, <1>2, EditSound
<1>4. header' # NoVault /\ session' # NoSession
  BY <1>3, NoVaultAssumption, NoSessionAssumption DEF EditStep
<1>5. i \in 1..MaxSlots /\ s # Free
  BY <1>1, <1>2, ActiveType, FreeAssumption
<1>6. /\ header'.slots[i] = s
      /\ \A j \in 1..MaxSlots : j # i => header'.slots[j] = header.slots[j]
      /\ Active(header'.slots) = Active(header.slots) \cup {i}
  BY <1>1, <1>2, <1>5, PutFacts
<1>7. SessionBacked'
  <2>1. PICK j \in Active(header.slots) :
          /\ header.slots[j].hash.user = session.user
          /\ header.slots[j].role = session.role
    BY DEF Inv, SessionBacked, UserSlots, EditStep
  <2>2. /\ header'.slots[j].hash.user = session'.user
        /\ header'.slots[j].role = session'.role
    BY <1>2, <1>6, <2>1 DEF SlotEdit, EditStep, Active
  <2> QED
    BY <1>6, <2>1, <2>2 DEF SessionBacked, UserSlots
<1>8. CleanMeansSaved'
  BY DEF Inv, CleanMeansSaved, IsOpen, EditStep
<1>9. MigratedByOwner'
  BY <1>2, <1>6 DEF Inv, MigratedByOwner, SlotEdit, NotMigratedBy, EditStep, IsOpen, Active
<1> QED
  BY <1>3, <1>4, <1>7, <1>8, <1>9 DEF Inv, TypeOK, IsOpen, EditStep

\* Saving loses nothing the invariant is about.
LEMMA OnDiskSound ==
    ASSUME NEW h \in Header, HeaderSound(h)
    PROVE  OnDisk(h) \in Header /\ HeaderSound(OnDisk(h))
<1> DEFINE g == OnDisk(h)
<1>1. g.policy = h.policy /\ h.policy \in Policies
  BY DEF OnDisk, Header
<1>2. g.slots = [i \in 1..MaxSlots |->
        IF h.slots[i] = Free THEN Free ELSE [h.slots[i] EXCEPT !.name = NoUser]]
  BY DEF OnDisk, Header
<1>3. ASSUME NEW i \in 1..MaxSlots, h.slots[i] # Free
      PROVE  /\ g.slots[i] \in Slot /\ g.slots[i] # Free
             /\ g.slots[i].role = h.slots[i].role
             /\ SlotSound(h.policy, h.slots[i]) => SlotSound(h.policy, g.slots[i])
  <2>1. h.slots[i] \in Slot
    BY <1>3 DEF Header, SlotTable
  <2>2. g.slots[i] = [h.slots[i] EXCEPT !.name = NoUser]
    BY <1>2, <1>3
  <2> HIDE DEF g
  <2>3. g.slots[i] \in Slot
    BY <2>1, <2>2 DEF Slot
  <2> QED
    BY <2>1, <2>2, <2>3, FreeAssumption DEF Slot, SlotSound, Hashed, Current, Enrolled
<1>4. ASSUME NEW i \in 1..MaxSlots, h.slots[i] = Free
      PROVE  g.slots[i] = Free
  BY <1>2, <1>4
<1>5. g \in Header
  <2>1. g.slots \in SlotTable
    BY <1>2, <1>3, <1>4 DEF SlotTable
  <2>2. g = [h EXCEPT !.slots = g.slots]
    BY <1>2 DEF OnDisk
  <2> HIDE DEF g
  <2> QED
    BY <1>1, <2>1, <2>2 DEF Header
<1> HIDE DEF g
<1>6. Active(g.slots) = Active(h.slots)
  BY <1>3, <1>4 DEF Active
<1>7. AdminSlots(g.slots) = AdminSlots(h.slots)
  BY <1>3, <1>6 DEF AdminSlots, Active
<1>8. \A i \in Active(g.slots) : SlotSound(g.policy, g.slots[i])
  BY <1>1, <1>3, <1>6 DEF HeaderSound, Active
<1>9. g \in Header /\ HeaderSound(g)
  BY <1>5, <1>7, <1>8 DEF HeaderSound
<1> QED
  BY <1>9 DEF g

\* The file has the essence of the header, and the marks as well.
LEMMA OnDiskFacts ==
    ASSUME NEW h \in Header
    PROVE  /\ Essence(OnDisk(h)) = Essence(h)
           /\ Active(OnDisk(h).slots) = Active(h.slots)
           /\ \A i \in Active(h.slots) :
                /\ OnDisk(h).slots[i].status = h.slots[i].status
                /\ OnDisk(h).slots[i].hash = h.slots[i].hash
<1> DEFINE g == OnDisk(h)
           Bare(slot) == IF slot = Free THEN Free
                         ELSE [slot EXCEPT !.name = NoUser, !.status = NotMigrated]
<1>1. /\ g = [h EXCEPT !.slots = g.slots]
      /\ g.slots = [i \in 1..MaxSlots |->
           IF h.slots[i] = Free THEN Free ELSE [h.slots[i] EXCEPT !.name = NoUser]]
  BY DEF OnDisk, Header
<1>2. ASSUME NEW i \in 1..MaxSlots, h.slots[i] # Free
      PROVE  /\ g.slots[i] # Free
             /\ g.slots[i].status = h.slots[i].status /\ g.slots[i].hash = h.slots[i].hash
             /\ Bare(g.slots[i]) = Bare(h.slots[i])
  <2>1. h.slots[i] \in Slot /\ g.slots[i] = [h.slots[i] EXCEPT !.name = NoUser]
    BY <1>1, <1>2 DEF Header, SlotTable
  <2> HIDE DEF g
  <2>2. g.slots[i] \in Slot
    BY <2>1 DEF Slot
  <2>3. g.slots[i] # Free
    BY <2>2, FreeAssumption
  <2> QED
    BY <1>2, <2>1, <2>3 DEF Slot
<1>3. ASSUME NEW i \in 1..MaxSlots, h.slots[i] = Free
      PROVE  g.slots[i] = Free
  BY <1>1, <1>3
<1> HIDE DEF g
<1>4. /\ Essence(g) = [g EXCEPT !.slots = [j \in 1..MaxSlots |-> Bare(g.slots[j])]]
      /\ Essence(h) = [h EXCEPT !.slots = [j \in 1..MaxSlots |-> Bare(h.slots[j])]]
  BY DEF Essence
<1>5. \A i \in 1..MaxSlots : Bare(g.slots[i]) = Bare(h.slots[i])
  <2> TAKE i \in 1..MaxSlots
  <2>1. CASE h.slots[i] # Free
    BY <1>2, <2>1
  <2>2. CASE h.slots[i] = Free
    BY <1>3, <2>2
  <2> QED
    BY <2>1, <2>2
<1> HIDE DEF Bare
<1>6. [j \in 1..MaxSlots |-> Bare(g.slots[j])] = [j \in 1..MaxSlots |-> Bare(h.slots[j])]
  BY <1>5
<1>7. Essence(g) = Essence(h)
  BY <1>1, <1>4, <1>6 DEF Header
<1>8. /\ Active(g.slots) = Active(h.slots)
      /\ \A i \in Active(h.slots) :
            g.slots[i].status = h.slots[i].status /\ g.slots[i].hash = h.slots[i].hash
  BY <1>2, <1>3 DEF Active
<1> QED
  BY <1>7, <1>8 DEF g

\* The slot of a new user is sound.
LEMMA NewSlotSound ==
    ASSUME NEW p \in Policies, NEW u \in Users, NEW pw \in Passwords,
           NEW role \in Roles, NEW must \in BOOLEAN
    PROVE  LET slot == NewSlot(p, u, pw, role, must)
           IN  /\ slot.hash.user = u /\ slot.role = role /\ slot.must = must
               /\ slot.wrap = PasswordKek(pw, p.iter) /\ slot.wrap.pw = pw
               /\ slot.dev = NoDevice /\ slot.pin = NoKek /\ slot.status = NotMigrated
               /\ Remembering => Current(slot)
               /\ SlotSound(p, slot)
<1> DEFINE slot == NewSlot(p, u, pw, role, must)
<1>1. /\ slot.hash.user = u /\ slot.role = role /\ slot.must = must
      /\ slot.wrap = PasswordKek(pw, p.iter) /\ slot.wrap.pw = pw
      /\ slot.wrap.dev = NoDevice
      /\ slot.dev = NoDevice /\ slot.pin = NoKek /\ slot.status = NotMigrated
      /\ slot.hist = AddToHistory(<<>>, pw, p.depth)
      /\ slot.hash = HashOf(slot.hash.user, p.algo, p.iter)
  BY DEF NewSlot, HashOf, PasswordKek
<1> HIDE DEF slot
<1>2. Remembering => Current(slot)
  <2> SUFFICES ASSUME Remembering
               PROVE  slot.hist[Len(slot.hist)] = pw
    BY <1>1 DEF Current
  <2>1. <<>> \in Seq(Passwords) /\ p.depth > 0 /\ p.depth \in Nat
    BY PolicyType DEF Remembering
  <2> DEFINE none == <<>>
  <2> HIDE DEF none
  <2>2. none \in Seq(Passwords)
    BY <2>1 DEF none
  <2>3. AddToHistory(none, pw, p.depth)[Len(AddToHistory(none, pw, p.depth))] = pw
    BY <2>1, <2>2, AddToHistoryLast
  <2> QED
    BY <1>1, <2>3 DEF none
<1>3. Hashed(slot)
  BY <1>1 DEF Hashed
<1>4. SlotSound(p, slot)
  BY <1>1, <1>2, <1>3 DEF SlotSound, Enrolled, NotMigrated, Migrated
<1> QED
  BY <1>1, <1>2, <1>4 DEF slot

\* A new vault has its creator as administrator in the first slot.
LEMMA CreatePreserves ==
    ASSUME Inv, NEW u \in Users, NEW pw \in Passwords, NEW p \in CreationPolicies,
           NEW dev \in Plugged, Create(u, pw, p, dev)
    PROVE  Inv'
<1> DEFINE plain == NewSlot(p, u, pw, Admin, FALSE)
           slot  == IF p.yubikey THEN Enrollment(plain, plain.wrap, dev) ELSE plain
<1>1. p \in Policies
  BY CreationPoliciesAssumption
<1>2. plain \in Slot /\ plain.wrap = PasswordKek(pw, p.iter)
  BY <1>1, NewSlotType DEF NewSlot, Roles
<1>3. plain.hash.user = u /\ plain.role = Admin /\ SlotSound(p, plain)
  <2> DEFINE no == FALSE
             new == NewSlot(p, u, pw, Admin, no)
  <2>1. Admin \in Roles /\ no \in BOOLEAN
    BY DEF Roles
  <2> HIDE DEF no
  <2>2. new.hash.user = u /\ new.role = Admin /\ SlotSound(p, new)
    BY <1>1, <2>1, NewSlotSound
  <2> QED
    BY <2>2 DEF no
<1>4. Enrollment(plain, plain.wrap, dev) \in Slot
  BY <1>1, <1>2, SlotEditTypes DEF Plugged
<1>5. slot \in Slot /\ slot.hash.user = u /\ slot.role = Admin /\ SlotSound(p, slot)
  <2>1. CASE p.yubikey
    <3>1. dev # NoDevice
      BY <2>1 DEF Create
    <3> HIDE DEF plain
    <3>2. /\ slot.dev = dev /\ slot.wrap.dev = dev /\ slot.wrap.pw = plain.wrap.pw
          /\ slot.hist = plain.hist /\ slot.status = plain.status /\ slot.hash = plain.hash
          /\ slot.role = plain.role
      BY <1>2, <2>1 DEF Enrollment, Combined, PasswordKek, Slot
    <3> QED
      BY <1>3, <1>4, <2>1, <3>1, <3>2 DEF SlotSound, Hashed, Current, Enrolled
  <2>2. CASE ~p.yubikey
    BY <1>2, <1>3, <2>2
  <2> QED
    BY <2>1, <2>2
<1>6. header' = [policy |-> p,
                 slots  |-> [i \in 1..MaxSlots |-> IF i = 1 THEN slot ELSE Free]]
  BY DEF Create, FirstHeader, AdminSlot
<1>7. 1 \in 1..MaxSlots
  BY MaxSlotsAssumption
<1> HIDE DEF plain, slot
<1>8. header' \in Header
  BY <1>1, <1>5, <1>6 DEF Header, SlotTable
<1>9. /\ header'.policy = p /\ header'.slots[1] = slot
      /\ Active(header'.slots) = {1}
  BY <1>5, <1>6, <1>7, FreeAssumption DEF Active
<1>10. HeaderSound(header')
  BY <1>5, <1>9 DEF HeaderSound, AdminSlots
<1>11. /\ session' = [user |-> u, role |-> Admin, must |-> FALSE, enroll |-> FALSE]
       /\ modified' = FALSE /\ disk' = OnDisk(header')
  BY DEF Create
<1>12. session' \in Session
  BY <1>11 DEF Session, Roles
<1>13. disk' \in Header /\ HeaderSound(disk')
  BY <1>8, <1>10, <1>11, OnDiskSound
<1>14. SessionBacked'
  BY <1>5, <1>9, <1>11 DEF SessionBacked, UserSlots
<1>15. CleanMeansSaved' /\ MigratedByOwner'
  BY <1>8, <1>11, <1>13, OnDiskFacts, NoVaultAssumption DEF CleanMeansSaved, MigratedByOwner
<1> QED
  BY <1>8, <1>10, <1>11, <1>12, <1>13, <1>14, <1>15, NoVaultAssumption, NoSessionAssumption
     DEF Inv, TypeOK, IsOpen

\* A login edits the slot that it finds, migrated or not.
LEMMA OpenEdits ==
    ASSUME Inv, NEW u \in Users, NEW pw \in Passwords, NEW dev \in Plugged,
           Open(u, pw, dev)
    PROVE  \E i \in Active(disk.slots), t \in Slot :
            /\ SlotEdit(disk.policy, disk.slots[i], t) /\ t.hash.user = u
            /\ header' = Put(disk, i, t)
            /\ disk' \in {disk, OnDisk(header')}
            /\ session' = SessionFor(header', u, i)
<1>1. disk \in Header /\ HeaderSound(disk) /\ disk.policy \in Policies
  BY DEF Inv, TypeOK, Open, Header
<1>2. PICK i \in Active(disk.slots) : OpenSlot(u, pw, dev, i)
  BY DEF Open
<1> DEFINE found == Looked(disk, u, i)
           m     == Marked(disk, u, i)
<1>3. disk.slots[i].hash.user = u /\ disk.slots[i] \in Slot
  BY <1>1, <1>2, FindsUser, ActiveType DEF OpenSlot
<1>4. m \in Slot /\ SlotEdit(disk.policy, disk.slots[i], m)
      /\ found = Put(disk, i, m) /\ found.slots[i] = m
  BY <1>1, MarkedEdit, LookedFacts
<1>5. i \in 1..MaxSlots /\ m # Free
  BY <1>1, <1>4, ActiveType, FreeAssumption
<1>6. found \in Header /\ HeaderSound(found) /\ found.policy = disk.policy
  BY <1>1, <1>4, <1>5, EditSound, PutFacts
<1> DEFINE s == MigratedSlot(m, disk.policy, u)
<1>7. Migrate(found, u, i) = Put(disk, i, s)
  <2>1. Migrate(found, u, i) = [found EXCEPT !.slots[i] = s]
    BY <1>4, <1>6 DEF Migrate
  <2> HIDE DEF s
  <2> QED
    BY <1>1, <2>1, LookedFacts
<1>8. SlotEdit(disk.policy, disk.slots[i], s)
  <2>1. s \in Slot
    BY <1>1, <1>4, SlotEditTypes DEF Plugged
  <2> HIDE DEF m
  <2>2. /\ s.role = m.role /\ s.hash.user = u /\ s.hash.algo = disk.policy.algo
        /\ s.wrap = m.wrap /\ s.pin = m.pin /\ s.dev = m.dev /\ s.hist = m.hist
        /\ s.hash = HashOf(s.hash.user, disk.policy.algo, disk.policy.iter)
    BY <1>4 DEF MigratedSlot, HashOf, Slot
  <2>3. Hashed(s)
    BY <1>1, <2>2 DEF Hashed
  <2> HIDE DEF s
  <2> QED
    BY <1>3, <1>4, <2>1, <2>2, <2>3 DEF SlotEdit, SlotSound, Current, Enrolled
<1>9. \E t \in Slot :
        /\ SlotEdit(disk.policy, disk.slots[i], t)
        /\ header' = Put(disk, i, t)
        /\ disk' \in {disk, OnDisk(header')}
        /\ session' = SessionFor(header', u, i)
  <2>1. CASE MustMigrateNow(found, i)
    BY <1>2, <1>7, <1>8, <2>1 DEF OpenSlot, SlotEdit
  <2>2. CASE ~MustMigrateNow(found, i)
    BY <1>2, <1>4, <2>2 DEF OpenSlot
  <2> QED
    BY <2>1, <2>2
<1> HIDE DEF m, s, found
<1> QED
  BY <1>3, <1>9 DEF SlotEdit

\* Whoever opens the vault has the slot that was found.
LEMMA OpenPreserves ==
    ASSUME Inv, NEW u \in Users, NEW pw \in Passwords, NEW dev \in Plugged,
           Open(u, pw, dev)
    PROVE  Inv'
<1>1. disk \in Header /\ HeaderSound(disk) /\ disk.policy \in Policies
  BY DEF Inv, TypeOK, Open, Header
<1>2. PICK i \in Active(disk.slots), t \in Slot :
        /\ SlotEdit(disk.policy, disk.slots[i], t) /\ t.hash.user = u
        /\ header' = Put(disk, i, t)
        /\ disk' \in {disk, OnDisk(header')}
        /\ session' = SessionFor(header', u, i)
  BY OpenEdits
<1>3. i \in 1..MaxSlots
  BY <1>1, <1>2, ActiveType
<1>4. header' \in Header /\ HeaderSound(header')
  BY <1>1, <1>2, EditSound
<1>5. disk' \in Header /\ HeaderSound(disk')
  BY <1>1, <1>2, <1>4, OnDiskSound
<1>6. /\ header'.slots[i] = t /\ i \in Active(header'.slots)
      /\ header'.policy \in Policies
      /\ \A j \in 1..MaxSlots : j # i => header'.slots[j] = disk.slots[j]
  <2>1. t # Free
    BY FreeAssumption
  <2>2. /\ Put(disk, i, t).slots[i] = t /\ Put(disk, i, t).policy = disk.policy
        /\ Active(Put(disk, i, t).slots) = Active(disk.slots) \cup {i}
        /\ \A j \in 1..MaxSlots : j # i => Put(disk, i, t).slots[j] = disk.slots[j]
    BY <1>1, <1>3, <2>1, PutFacts
  <2> QED
    BY <1>1, <1>2, <2>2
<1>7. session' \in Session /\ session'.user = u
  BY <1>2, <1>6, PolicyType DEF SessionFor, Session, Slot, Policy
<1>8. SessionBacked'
  BY <1>2, <1>6 DEF SessionBacked, UserSlots, SessionFor
<1>9. modified' = TRUE /\ CleanMeansSaved'
  BY DEF Open, OpenSlot, CleanMeansSaved
<1>10. MigratedByOwner'
  <2>1. CASE disk' = disk
    BY <1>2, <1>6, <1>7, <2>1 DEF MigratedByOwner, Active
  <2>2. CASE disk' = OnDisk(header')
    BY <1>4, <2>2, OnDiskFacts DEF MigratedByOwner
  <2> QED
    BY <1>2, <2>1, <2>2
<1> QED
  BY <1>4, <1>5, <1>7, <1>8, <1>9, <1>10, NoVaultAssumption, NoSessionAssumption
     DEF Inv, TypeOK, IsOpen

\* A new user takes nobody's slot.
LEMMA AddUserPreserves ==
    ASSUME Inv, NEW u \in Users, NEW pw \in Passwords, NEW role \in Roles,
           NEW must \in BOOLEAN, NEW withPin \in PinWithAdd, NEW dev \in Plugged,
           AddUser(u, pw, role, must, withPin, dev)
    PROVE  Inv'
<1>1. /\ IsOpen /\ header \in Header /\ session \in Session
      /\ header.policy \in Policies /\ HeaderSound(header)
  BY OpenTypes DEF Inv, AddUser
<1> DEFINE plain  == NewSlot(header.policy, u, pw, role, must)
           enroll == withPin /\ header.policy.yubikey
           slot   == IF enroll THEN ProvisionedSlot(plain, dev) ELSE plain
<1>2. PICK i \in 1..MaxSlots :
        /\ IsFirst(i, (1..MaxSlots) \ Active(header.slots))
        /\ header' = Put(header, i, slot)
  BY DEF AddUser, Put
<1>3. plain \in Slot /\ ProvisionedSlot(plain, dev) \in Slot
  BY <1>1, NewSlotType, SlotEditTypes DEF Plugged
<1>4. /\ SlotSound(header.policy, plain) /\ plain.status = NotMigrated
      /\ Remembering => Current(plain)
  BY <1>1, NewSlotSound
<1>5. slot \in Slot /\ SlotSound(header.policy, slot) /\ slot.status = NotMigrated
  <2>1. CASE enroll
    <3>1. dev # NoDevice
      BY <2>1 DEF AddUser
    <3>2. ~NoPinWithAdd
      BY <2>1 DEF NoPinWithAdd
    <3> HIDE DEF plain
    <3>3. /\ slot.dev = dev /\ slot.wrap = plain.wrap /\ slot.hist = plain.hist
          /\ slot.status = plain.status /\ slot.hash = plain.hash
      BY <1>3, <2>1 DEF ProvisionedSlot, Slot
    <3>4. Remembering => Current(slot)
      BY <1>4, <3>3 DEF Current
    <3> QED
      BY <1>3, <1>4, <2>1, <3>1, <3>2, <3>3, <3>4
         DEF SlotSound, Hashed, Enrolled, NotMigrated, Migrated
  <2>2. CASE ~enroll
    BY <1>3, <1>4, <2>2
  <2> QED
    BY <2>1, <2>2
<1> HIDE DEF plain, enroll, slot
<1>6. i \notin Active(header.slots) /\ slot # Free
  BY <1>2, <1>5, FreeAssumption DEF IsFirst
<1>7. /\ header' \in Header /\ header'.policy = header.policy
      /\ header'.slots[i] = slot
      /\ \A j \in 1..MaxSlots : j # i => header'.slots[j] = header.slots[j]
      /\ Active(header'.slots) = Active(header.slots) \cup {i}
  BY <1>1, <1>2, <1>5, <1>6, PutFacts
<1>8. \A j \in Active(header.slots) : header'.slots[j] = header.slots[j]
  BY <1>6, <1>7 DEF Active
<1>9. HeaderSound(header')
  BY <1>1, <1>5, <1>7, <1>8 DEF HeaderSound, AdminSlots
<1>10. SessionBacked'
  BY <1>1, <1>7, <1>8 DEF Inv, SessionBacked, UserSlots, AddUser
<1>11. CleanMeansSaved'
  BY DEF CleanMeansSaved, AddUser
<1>12. MigratedByOwner'
  BY <1>1, <1>5, <1>7, <1>8 DEF Inv, MigratedByOwner, AddUser, NotMigrated, Migrated
<1> QED
  BY <1>1, <1>7, <1>9, <1>10, <1>11, <1>12, NoVaultAssumption DEF Inv, TypeOK, IsOpen, AddUser

\* Neither the last administrator nor the session's own slot is removed.
LEMMA RemoveUserPreserves ==
    ASSUME Inv, NEW u \in Users, RemoveUser(u)
    PROVE  Inv'
<1>1. /\ IsOpen /\ header \in Header /\ session \in Session
      /\ header.policy \in Policies /\ HeaderSound(header)
  BY OpenTypes DEF Inv, RemoveUser
<1>2. PICK i \in Active(header.slots) :
        /\ Finds(header, u, i)
        /\ ~LastAdmin(header.slots, i)
        /\ header' = Put(header, i, Free)
  BY DEF RemoveUser, Put
<1>3. i \in 1..MaxSlots /\ header.slots[i].hash.user # session.user
  BY <1>1, <1>2, FindsUser, ActiveType DEF RemoveUser, IsSelf
<1>4. /\ header' \in Header /\ header'.policy = header.policy
      /\ \A j \in 1..MaxSlots : j # i => header'.slots[j] = header.slots[j]
      /\ Active(header'.slots) = Active(header.slots) \ {i}
  BY <1>1, <1>2, <1>3, PutFacts
<1>5. AdminSlots(header'.slots) = AdminSlots(header.slots) \ {i}
  BY <1>4 DEF AdminSlots, Active
<1>6. AdminSlots(header.slots) # {} /\ AdminSlots(header.slots) # {i}
  BY <1>1, <1>2 DEF HeaderSound, LastAdmin
<1>7. HeaderSound(header')
  BY <1>1, <1>4, <1>5, <1>6 DEF HeaderSound, Active
<1>8. SessionBacked'
  <2>1. PICK j \in Active(header.slots) :
          /\ header.slots[j].hash.user = session.user
          /\ header.slots[j].role = session.role
    BY <1>1 DEF Inv, SessionBacked, UserSlots
  <2>2. j \in Active(header'.slots) /\ header'.slots[j] = header.slots[j]
    BY <1>3, <1>4, <2>1 DEF Active
  <2> QED
    BY <2>1, <2>2 DEF SessionBacked, UserSlots, RemoveUser
<1>9. CleanMeansSaved'
  BY DEF CleanMeansSaved, RemoveUser
<1>10. MigratedByOwner'
  BY <1>1, <1>4 DEF Inv, MigratedByOwner, RemoveUser, Active
<1> QED
  BY <1>1, <1>4, <1>7, <1>8, <1>9, <1>10, NoVaultAssumption
     DEF Inv, TypeOK, IsOpen, RemoveUser

\* A change of algorithm resets the statuses that spoke of the old one.
LEMMA UpdatePolicyPreserves ==
    ASSUME Inv, NEW p \in Policies, UpdatePolicy(p)
    PROVE  Inv'
<1>1. /\ IsOpen /\ header \in Header /\ session \in Session
      /\ header.policy \in Policies /\ HeaderSound(header)
  BY OpenTypes DEF Inv, UpdatePolicy
<1> DEFINE slots == [i \in 1..MaxSlots |->
                IF header.slots[i] # Free /\ p.algo # header.policy.algo
                THEN [header.slots[i] EXCEPT !.status = NotMigrated]
                ELSE header.slots[i]]
<1>2. header' = [policy |-> p, slots |-> slots]
  BY DEF UpdatePolicy
<1>3. ASSUME NEW i \in 1..MaxSlots, header.slots[i] # Free
      PROVE  /\ slots[i] \in Slot /\ slots[i] # Free
             /\ slots[i].role = header.slots[i].role
             /\ slots[i].hash.user = header.slots[i].hash.user
             /\ NotMigratedBy(header.slots[i], slots[i])
             /\ SlotSound(header.policy, header.slots[i]) => SlotSound(p, slots[i])
  <2>1. header.slots[i] \in Slot
    BY <1>1, <1>3 DEF Header, SlotTable
  <2>2. CASE p.algo = header.policy.algo
    BY <1>3, <2>1, <2>2 DEF SlotSound, NotMigratedBy
  <2>3. CASE p.algo # header.policy.algo
    <3>1. slots[i] = [header.slots[i] EXCEPT !.status = NotMigrated]
      BY <1>3, <2>3
    <3> HIDE DEF slots
    <3>2. slots[i] \in Slot
      BY <2>1, <3>1 DEF Slot
    <3> QED
      BY <2>1, <3>1, <3>2, FreeAssumption
         DEF Slot, SlotSound, Hashed, Current, Enrolled, NotMigratedBy, NotMigrated, Migrated
  <2> QED
    BY <2>2, <2>3
<1>4. ASSUME NEW i \in 1..MaxSlots, header.slots[i] = Free
      PROVE  slots[i] = Free
  BY <1>4
<1>5. slots \in SlotTable
  BY <1>3, <1>4 DEF SlotTable
<1> HIDE DEF slots
<1>6. header' \in Header /\ header'.policy = p /\ header'.slots = slots
  BY <1>2, <1>5 DEF Header
<1>7. Active(slots) = Active(header.slots)
  BY <1>3, <1>4 DEF Active
<1>8. AdminSlots(slots) = AdminSlots(header.slots)
  BY <1>3, <1>7 DEF AdminSlots, Active
<1>9. HeaderSound(header')
  BY <1>1, <1>3, <1>6, <1>7, <1>8 DEF HeaderSound, Active
<1>10. SessionBacked'
  <2>1. PICK j \in Active(header.slots) :
          /\ header.slots[j].hash.user = session.user
          /\ header.slots[j].role = session.role
    BY <1>1 DEF Inv, SessionBacked, UserSlots
  <2>2. /\ j \in Active(slots)
        /\ slots[j].hash.user = session.user /\ slots[j].role = session.role
    BY <1>3, <1>7, <2>1 DEF Active
  <2> QED
    BY <1>6, <2>2 DEF SessionBacked, UserSlots, UpdatePolicy
<1>11. CleanMeansSaved'
  BY DEF CleanMeansSaved, UpdatePolicy
<1>12. MigratedByOwner'
  BY <1>1, <1>3, <1>6, <1>7 DEF Inv, MigratedByOwner, NotMigratedBy, UpdatePolicy, Active
<1> QED
  BY <1>1, <1>6, <1>9, <1>10, <1>11, <1>12, NoVaultAssumption
     DEF Inv, TypeOK, IsOpen, UpdatePolicy

\* What a login leaves marked migrated was so in the file, or is the user's own.
LEMMA OpenedMarks ==
    ASSUME Inv, NEW u \in Users, NEW pw \in Passwords, NEW dev \in Plugged,
           Open(u, pw, dev), disk' = OnDisk(header'),
           NEW j \in Active(disk.slots) \cap Active(disk'.slots),
           disk.slots[j].status # Migrated, disk'.slots[j].status = Migrated
    PROVE  disk'.slots[j].hash.user = u
<1>1. disk \in Header
  BY DEF Inv, TypeOK, Open
<1>2. PICK i \in Active(disk.slots), t \in Slot :
        /\ SlotEdit(disk.policy, disk.slots[i], t) /\ t.hash.user = u
        /\ header' = Put(disk, i, t)
  BY OpenEdits
<1>3. /\ i \in 1..MaxSlots /\ header' \in Header /\ header'.slots[i] = t
      /\ \A k \in 1..MaxSlots : k # i => header'.slots[k] = disk.slots[k]
  <2>1. i \in 1..MaxSlots /\ t # Free
    BY <1>1, <1>2, ActiveType, FreeAssumption
  <2> QED
    BY <1>1, <1>2, <2>1, PutFacts
<1>4. /\ j \in Active(header'.slots)
      /\ disk'.slots[j].status = header'.slots[j].status
      /\ disk'.slots[j].hash = header'.slots[j].hash
  BY <1>3, OnDiskFacts
<1>5. j = i
  BY <1>3, <1>4 DEF Active
<1> QED
  BY <1>2, <1>3, <1>4, <1>5

-----------------------------------------------------------------------------
(* The theorems *)

\* The invariant holds at the start, and every step of every operation keeps it.
THEOREM Invariance == Spec => []Inv
<1>1. Init => Inv
  BY NoVaultAssumption, NoSessionAssumption
     DEF Init, Inv, TypeOK, IsOpen, SessionBacked, CleanMeansSaved, MigratedByOwner
<1>2. Inv /\ [Next]_vars => Inv'
  <2> SUFFICES ASSUME Inv, [Next]_vars
               PROVE  Inv'
    OBVIOUS
  <2>1. ASSUME NEW u \in Users, NEW pw \in Passwords, NEW p \in CreationPolicies,
               NEW dev \in Plugged, Create(u, pw, p, dev)
        PROVE  Inv'
    BY <2>1, CreatePreserves
  <2>2. ASSUME NEW u \in Users, NEW pw \in Passwords, NEW dev \in Plugged,
               Open(u, pw, dev)
        PROVE  Inv'
    BY <2>2, OpenPreserves
  <2>3. CASE Close
    BY <2>3, NoVaultAssumption, NoSessionAssumption
       DEF Close, Inv, TypeOK, IsOpen, SessionBacked, CleanMeansSaved, MigratedByOwner
  <2>4. CASE Save
    <3>1. header \in Header /\ session \in Session /\ HeaderSound(header)
      BY <2>4, OpenTypes DEF Inv, Save
    <3>2. disk' \in Header /\ HeaderSound(disk')
      BY <2>4, <3>1, OnDiskSound DEF Save
    <3>3. CleanMeansSaved' /\ MigratedByOwner'
      BY <2>4, <3>1, <3>2, OnDiskFacts, NoVaultAssumption
         DEF Save, CleanMeansSaved, MigratedByOwner
    <3> QED
      BY <2>4, <3>1, <3>2, <3>3, NoVaultAssumption
         DEF Save, Inv, TypeOK, IsOpen, SessionBacked
  <2>5. ASSUME NEW u \in Users, NEW pw \in Passwords, NEW role \in Roles,
               NEW must \in BOOLEAN, NEW withPin \in PinWithAdd, NEW dev \in Plugged,
               AddUser(u, pw, role, must, withPin, dev)
        PROVE  Inv'
    BY <2>5, AddUserPreserves
  <2>6. ASSUME NEW u \in Users, RemoveUser(u)
        PROVE  Inv'
    BY <2>6, RemoveUserPreserves
  <2>7. ASSUME NEW u \in Users, LookupOnly(u)
        PROVE  Inv'
    BY <2>7, LookupOnlyEdits, EditPreserves DEF Inv
  <2>8. ASSUME NEW u \in Users, ClearHistory(u)
        PROVE  Inv'
    BY <2>8, ClearHistoryEdits, EditPreserves DEF Inv
  <2>9. ASSUME NEW p \in Policies, UpdatePolicy(p)
        PROVE  Inv'
    BY <2>9, UpdatePolicyPreserves
  <2>10. ASSUME NEW u \in Users, NEW old \in Passwords, NEW new \in Passwords,
                NEW dev \in Plugged, ChangePassword(u, old, new, dev)
         PROVE  Inv'
    BY <2>10, ChangePasswordEdits, EditPreserves DEF Inv
  <2>11. ASSUME NEW u \in Users, NEW pw \in Passwords, AdminReset(u, pw)
         PROVE  Inv'
    BY <2>11, AdminResetEdits, EditPreserves DEF Inv
  <2>12. ASSUME NEW u \in Users, NEW pw \in Passwords, NEW dev \in Devices,
                Enroll(u, pw, dev)
         PROVE  Inv'
    BY <2>12, EnrollEdits, EditPreserves DEF Inv
  <2>13. ASSUME NEW u \in Users, NEW pw \in Passwords, NEW dev \in Devices,
                Unenroll(u, pw, dev)
         PROVE  Inv'
    BY <2>13, UnenrollEdits, EditPreserves DEF Inv
  <2>14. CASE UNCHANGED vars
    BY <2>14 DEF vars, Inv, TypeOK, IsOpen, SessionBacked, CleanMeansSaved, MigratedByOwner
  <2> QED
    BY <2>1, <2>2, <2>3, <2>4, <2>5, <2>6, <2>7, <2>8, <2>9, <2>10, <2>11, <2>12,
       <2>13, <2>14 DEF Next
<1> QED
  BY <1>1, <1>2, PTL DEF Spec

\* Header, file and session always have their types, and a session exists
\* exactly while the vault is open.
THEOREM TypeCorrect == Spec => []TypeOK
<1>1. Inv => TypeOK
  BY DEF Inv
<1> QED
  BY <1>1, Invariance, PTL

\* No sequence of user management, resets, saves and restarts leaves the open
\* vault or its file without an administrator.
THEOREM AdminAlwaysRemains == Spec => []AdminRemains
<1>1. Inv => AdminRemains
  BY DEF Inv, AdminRemains, Vaults, HeaderSound, IsOpen
<1> QED
  BY <1>1, Invariance, PTL

\* The session is always backed by an active slot with its user and role.
THEOREM SessionAlwaysBacked == Spec => []SessionBacked
<1>1. Inv => SessionBacked
  BY DEF Inv
<1> QED
  BY <1>1, Invariance, PTL

\* A slot without a YubiKey is wrapped under the password alone.
THEOREM NeverHiddenFactor == Spec => []NoHiddenFactor
<1>1. Inv => NoHiddenFactor
  BY DEF Inv, NoHiddenFactor, Vaults, UserSlots, HeaderSound, SlotSound, IsOpen
<1> QED
  BY <1>1, Invariance, PTL

\* A migrated slot's hash is the one the policy names.
THEOREM MigratedAlwaysCurrent == Spec => []MigratedIsCurrent
<1>1. Inv => MigratedIsCurrent
  BY DEF Inv, MigratedIsCurrent, Vaults, UserSlots, HeaderSound, SlotSound, IsOpen
<1> QED
  BY <1>1, Invariance, PTL

\* An enrolled user's DEK is wrapped under the YubiKey of the slot, as long as
\* add_user is never given a PIN.
THEOREM EnrolledAlwaysNeedDevice == NoPinWithAdd => (Spec => []EnrolledNeedsDevice)
<1>1. NoPinWithAdd /\ Inv => EnrolledNeedsDevice
  BY DEF Inv, EnrolledNeedsDevice, Vaults, UserSlots, HeaderSound, SlotSound, IsOpen
<1> SUFFICES ASSUME NoPinWithAdd PROVE Spec => []EnrolledNeedsDevice
  OBVIOUS
<1>2. Inv => EnrolledNeedsDevice
  BY <1>1
<1> QED
  BY <1>2, Invariance, PTL

\* The newest entry of a history is the current password, through every change,
\* reset, enrollment, unenrollment and save, if no policy has a history of none.
THEOREM HistoryAlwaysEndsWithCurrent == Remembering => (Spec => []HistoryEndsWithCurrent)
<1> SUFFICES ASSUME Remembering PROVE Spec => []HistoryEndsWithCurrent
  OBVIOUS
<1>1. Inv => HistoryEndsWithCurrent
  BY DEF Inv, HistoryEndsWithCurrent, Current, Vaults, UserSlots, HeaderSound, SlotSound, IsOpen
<1> QED
  BY <1>1, Invariance, PTL

\* What is not marked modified is in the file, but for the marks of lookups.
THEOREM CleanAlwaysSaved == Spec => []CleanMeansSaved
<1>1. Inv => CleanMeansSaved
  BY DEF Inv
<1> QED
  BY <1>1, Invariance, PTL

\* In a standard user's session an edit is of that user's slot.
LEMMA StandardEdits ==
    ASSUME Inv, EditStep, session.role = Standard
    PROVE  /\ header'.policy = header.policy
           /\ \A j \in 1..MaxSlots :
                \/ Essence(header').slots[j] = Essence(header).slots[j]
                \/ j \in Kept(header, header') /\ header.slots[j].hash.user = session.user
<1>1. header \in Header
  BY OpenTypes DEF Inv, EditStep
<1>2. PICK i \in Active(header.slots), s \in Slot :
        /\ SlotEdit(header.policy, header.slots[i], s)
        /\ header' = Put(header, i, s)
        /\ \/ header.slots[i].hash.user = session.user
           \/ Essence(header') = Essence(header)
  BY DEF EditStep, IsAdmin, Admin, Standard
<1>3. i \in 1..MaxSlots /\ s # Free
  BY <1>1, <1>2, ActiveType, FreeAssumption
<1>4. /\ header' \in Header /\ header'.policy = header.policy
      /\ header'.slots[i] = s
      /\ \A j \in 1..MaxSlots : j # i => header'.slots[j] = header.slots[j]
      /\ Active(header'.slots) = Active(header.slots) \cup {i}
  BY <1>1, <1>2, <1>3, PutFacts
<1>5. ASSUME NEW j \in 1..MaxSlots, j # i
      PROVE  Essence(header').slots[j] = Essence(header).slots[j]
  BY <1>1, <1>4, <1>5 DEF Essence, Header
<1>6. \/ Essence(header') = Essence(header)
      \/ i \in Kept(header, header') /\ header.slots[i].hash.user = session.user
  BY <1>2, <1>4 DEF Kept, SlotEdit
<1> QED
  BY <1>4, <1>5, <1>6

\* Nobody but an administrator changes the policy or another user's slot.
THEOREM StandardUsersKeepToThemselves == Spec => StandardUsersTouchOnlyThemselves
<1> DEFINE Modest ==
        IsOpen /\ IsOpen' /\ session.role = Standard =>
        \/ /\ header'.policy = header.policy
           /\ \A i \in 1..MaxSlots :
                \/ Essence(header').slots[i] = Essence(header).slots[i]
                \/ i \in Kept(header, header') /\ header.slots[i].hash.user = session.user
        \/ LoginStep
<1>1. Inv /\ [Next]_vars => [Modest]_vars
  <2> SUFFICES ASSUME Inv, Next, IsOpen, IsOpen', session.role = Standard
               PROVE  \/ /\ header'.policy = header.policy
                         /\ \A i \in 1..MaxSlots :
                              \/ Essence(header').slots[i] = Essence(header).slots[i]
                              \/ /\ i \in Kept(header, header')
                                 /\ header.slots[i].hash.user = session.user
                      \/ LoginStep
    OBVIOUS
  <2>0. ~IsAdmin /\ disk # NoVault
    BY DEF IsAdmin, Admin, Standard, Inv
  <2>1. ASSUME EditStep
        PROVE  /\ header'.policy = header.policy
               /\ \A i \in 1..MaxSlots :
                    \/ Essence(header').slots[i] = Essence(header).slots[i]
                    \/ /\ i \in Kept(header, header')
                       /\ header.slots[i].hash.user = session.user
    BY <2>1, StandardEdits
  <2>2. ASSUME NEW u \in Users, NEW pw \in Passwords, NEW dev \in Plugged, Open(u, pw, dev)
        PROVE  LoginStep
    <3>1. session'.user = u
      BY <2>2 DEF Open, OpenSlot, SessionFor
    <3> QED
      BY <2>2, <3>1 DEF LoginStep
  <2>3. CASE Save
    BY <2>3 DEF Save
  <2>4. CASE Close
    BY <2>4 DEF Close, IsOpen
  <2>5. ASSUME NEW u \in Users, LookupOnly(u) \/ ClearHistory(u)
        PROVE  EditStep
    BY <2>5, LookupOnlyEdits, ClearHistoryEdits DEF Inv
  <2>6. ASSUME NEW u \in Users, NEW old \in Passwords, NEW new \in Passwords,
               NEW dev \in Plugged, ChangePassword(u, old, new, dev)
        PROVE  EditStep
    BY <2>6, ChangePasswordEdits DEF Inv
  <2>7. ASSUME NEW u \in Users, NEW pw \in Passwords, NEW dev \in Devices,
               Enroll(u, pw, dev) \/ Unenroll(u, pw, dev)
        PROVE  EditStep
    BY <2>7, EnrollEdits, UnenrollEdits DEF Inv
  <2>8. \A u \in Users, pw \in Passwords, p \in CreationPolicies, dev \in Plugged :
            ~Create(u, pw, p, dev)
    BY <2>0 DEF Create
  <2>9. /\ \A u \in Users : ~RemoveUser(u)
        /\ \A p \in Policies : ~UpdatePolicy(p)
        /\ \A u \in Users, pw \in Passwords : ~AdminReset(u, pw)
        /\ \A u \in Users, pw \in Passwords, role \in Roles, must \in BOOLEAN,
              withPin \in PinWithAdd, dev \in Plugged :
                ~AddUser(u, pw, role, must, withPin, dev)
    BY <2>0 DEF RemoveUser, UpdatePolicy, AdminReset, AddUser
  <2> QED
    BY <2>1, <2>2, <2>3, <2>4, <2>5, <2>6, <2>7, <2>8, <2>9 DEF Next
<1> QED
  BY <1>1, Invariance, PTL DEF Spec, StandardUsersTouchOnlyThemselves

\* In the file a user becomes a migrated one only through a login of that user.
THEOREM OnlyOwnersMigrate == Spec => OnlyOwnerMigrates
<1> DEFINE Own ==
        disk # NoVault /\ disk' # NoVault =>
        \A i \in Active(disk.slots) \cap Active(disk'.slots) :
            disk.slots[i].status # Migrated /\ disk'.slots[i].status = Migrated
                => session'.user = disk'.slots[i].hash.user
<1>1. Inv /\ [Next]_vars => [Own]_vars
  <2> SUFFICES ASSUME Inv, Next, disk # NoVault,
                      NEW i \in Active(disk.slots) \cap Active(disk'.slots),
                      disk.slots[i].status # Migrated, disk'.slots[i].status = Migrated
               PROVE  session'.user = disk'.slots[i].hash.user
    OBVIOUS
  <2>1. ASSUME NEW u \in Users, NEW pw \in Passwords, NEW dev \in Plugged, Open(u, pw, dev)
        PROVE  session'.user = disk'.slots[i].hash.user
    <3>1. disk' \in {disk, OnDisk(header')} /\ session'.user = u
      BY <2>1 DEF Open, OpenSlot, SessionFor
    <3>2. disk' = OnDisk(header')
      BY <3>1
    <3> QED
      BY <2>1, <3>1, <3>2, OpenedMarks DEF Inv, TypeOK
  <2>2. CASE Save
    <3>1. header \in Header /\ IsOpen /\ disk' = OnDisk(header) /\ session' = session
      BY <2>2, OpenTypes DEF Inv, Save
    <3>2. /\ i \in Active(header.slots) /\ header.slots[i].status = Migrated
          /\ disk'.slots[i].hash = header.slots[i].hash
      BY <3>1, OnDiskFacts
    <3> QED
      BY <3>1, <3>2 DEF Inv, MigratedByOwner
  <2>3. ASSUME disk' = disk PROVE FALSE
    BY <2>3
  <2>4. \A u \in Users, pw \in Passwords, p \in CreationPolicies, dev \in Plugged :
            ~Create(u, pw, p, dev)
    BY DEF Create
  <2> QED
    BY <2>1, <2>2, <2>3, <2>4
       DEF Next, Close, AddUser, RemoveUser, LookupOnly, ClearHistory, UpdatePolicy,
           ChangePassword, AdminReset, Enroll, Unenroll
<1> QED
  BY <1>1, Invariance, PTL DEF Spec, OnlyOwnerMigrates

-----------------------------------------------------------------------------
(* Steady policies.  The rest holds as long as the policies agree on the   *)
(* hash of user names and its iterations and no migration runs: the lookup *)
(* then finds exactly the user's own slot, so that header and session can  *)
(* be related slot by slot.                                                *)

SteadyHash == \A p, q \in Policies : p.algo = q.algo /\ p.iter = q.iter /\ ~p.migrating

\* The hash is the policy's, the name is the user's or not known yet, and the
\* key was derived with the policy's iterations.
SlotSteady(p, slot) ==
    /\ slot.hash = HashOf(slot.hash.user, p.algo, p.iter)
    /\ slot.name \in {NoUser, slot.hash.user}
    /\ slot.wrap.iter = p.iter

HeaderSteady(h) ==
    /\ \A i \in Active(h.slots) : SlotSteady(h.policy, h.slots[i])
    /\ \A i, j \in Active(h.slots) : h.slots[i].hash.user = h.slots[j].hash.user => i = j

\* The slot of the session's user, and what the session remembers of it.
Agrees(s, slot) ==
    /\ slot.name = s.user
    /\ s.must = slot.must
    /\ s.enroll => ~Enrolled(slot)

SessionSteady ==
    IsOpen => \A i \in Active(header.slots) :
        header.slots[i].hash.user = session.user => Agrees(session, header.slots[i])

Steady ==
    /\ IsOpen => HeaderSteady(header)
    /\ disk # NoVault => HeaderSteady(disk)
    /\ SessionSteady

\* With one hash for all the lookup finds the user's slot and nothing else.
LEMMA FindsSteady ==
    ASSUME SteadyHash, NEW h \in Header, HeaderSteady(h), NEW u \in Users, NEW i
    PROVE  Finds(h, u, i) <=> i \in Active(h.slots) /\ h.slots[i].hash.user = u
<1>1. h.policy \in Policies /\ ~h.policy.migrating
  BY DEF SteadyHash, Header
<1>2. ASSUME NEW j \in Active(h.slots)
      PROVE  h.slots[j].hash = HashOf(h.slots[j].hash.user, h.policy.algo, h.policy.iter)
  BY <1>2 DEF HeaderSteady, SlotSteady
<1>3. CurrentMatches(h, u) = {j \in Active(h.slots) : h.slots[j].hash.user = u}
  <2>1. \A j \in Active(h.slots) :
          h.slots[j].hash = HashOf(u, h.policy.algo, h.policy.iter) <=> h.slots[j].hash.user = u
    BY <1>2 DEF HashOf
  <2> QED
    BY <1>1, <2>1 DEF CurrentMatches, Matching
<1>4. FallbackMatches(h, u) = {}
  BY <1>1 DEF FallbackMatches, HasFallback
<1>5. ~SweepFinds(h, u, i)
  <2> SUFFICES ASSUME NEW a \in SweepAlgorithms(h.policy), i \in Matching(h, u, a)
               PROVE  FALSE
    BY DEF SweepFinds, IsFirst
  <2>1. a # h.policy.algo
    BY DEF SweepAlgorithms
  <2>2. i \in Active(h.slots) /\ h.slots[i].hash.algo = a
    BY DEF Matching, HashOf
  <2>3. h.slots[i].hash = HashOf(h.slots[i].hash.user, h.policy.algo, h.policy.iter)
    BY <1>2, <2>2
  <2>4. h.slots[i].hash.algo = h.policy.algo
    BY <2>3 DEF HashOf
  <2> QED
    BY <2>1, <2>2, <2>4
<1>6. Finds(h, u, i) <=> IsFirst(i, CurrentMatches(h, u))
  BY <1>4, <1>5 DEF Finds, IsFirst
<1>7. \A j \in CurrentMatches(h, u) : i \in CurrentMatches(h, u) => i = j
  BY <1>3 DEF HeaderSteady
<1>8. \A j \in CurrentMatches(h, u) : j <= j
  BY <1>3 DEF Active
<1> QED
  BY <1>3, <1>6, <1>7, <1>8 DEF IsFirst

\* A steady slot put where it does not double a user keeps the header steady.
LEMMA PutSteady ==
    ASSUME NEW h \in Header, HeaderSteady(h), NEW i \in 1..MaxSlots,
           NEW s \in Slot, SlotSteady(h.policy, s),
           \A j \in Active(h.slots) : j # i => h.slots[j].hash.user # s.hash.user
    PROVE  HeaderSteady(Put(h, i, s))
<1> DEFINE g == Put(h, i, s)
<1>0. s # Free
  BY FreeAssumption
<1>1. /\ g.policy = h.policy /\ g.slots[i] = s
      /\ \A j \in 1..MaxSlots : j # i => g.slots[j] = h.slots[j]
      /\ Active(g.slots) = Active(h.slots) \cup {i}
  BY <1>0, PutFacts
<1> HIDE DEF g
<1>2. \A j \in Active(g.slots) : j # i => j \in Active(h.slots) /\ g.slots[j] = h.slots[j]
  BY <1>1 DEF Active
<1>3. HeaderSteady(g)
  BY <1>1, <1>2 DEF HeaderSteady
<1> QED
  BY <1>3 DEF g

\* What is written to the file is steady: it has no names.
LEMMA OnDiskSteady ==
    ASSUME NEW h \in Header, HeaderSteady(h)
    PROVE  HeaderSteady(OnDisk(h))
<1> DEFINE g == OnDisk(h)
<1>1. g.policy = h.policy /\ Active(g.slots) = Active(h.slots)
  BY OnDiskFacts DEF OnDisk, Header
<1>2. ASSUME NEW i \in Active(h.slots)
      PROVE  /\ g.slots[i].hash = h.slots[i].hash /\ g.slots[i].wrap = h.slots[i].wrap
             /\ g.slots[i].name = NoUser
  <2>1. i \in 1..MaxSlots /\ h.slots[i] \in Slot /\ h.slots[i] # Free
    BY <1>2, ActiveType
  <2>2. g.slots[i] = [h.slots[i] EXCEPT !.name = NoUser]
    BY <2>1 DEF OnDisk, Header
  <2> HIDE DEF g
  <2> QED
    BY <2>1, <2>2 DEF Slot
<1> HIDE DEF g
<1>3. HeaderSteady(g)
  BY <1>1, <1>2 DEF HeaderSteady, SlotSteady
<1> QED
  BY <1>3 DEF g

-----------------------------------------------------------------------------
(* The operations on one user's slot *)

\* An operation that replaces the slot of user u by one of the same hash, and
\* brings the session up to date when u is its user.
LEMMA SlotStepSteady ==
    ASSUME SteadyHash, Inv, Steady, IsOpen, NEW u \in Users,
           NEW i \in Active(header.slots), Finds(header, u, i),
           NEW s \in Slot, s.hash = header.slots[i].hash, s.name = u,
           s.wrap.iter = header.policy.iter,
           header' = Put(header, i, s), disk' = disk, session'.user = session.user,
           IsSelf(u) => session'.must = s.must /\ (session'.enroll => ~Enrolled(s)),
           ~IsSelf(u) => session' = session
    PROVE  Steady'
<1>1. header \in Header /\ i \in 1..MaxSlots /\ HeaderSteady(header) /\ s # Free
  BY OpenTypes, ActiveType, FreeAssumption DEF Inv, Steady
<1>2. s.hash.user = u
  BY <1>1, FindsUser
<1>3. HeaderSteady(header')
  <2>1. SlotSteady(header.policy, s)
    BY <1>1, <1>2 DEF HeaderSteady, SlotSteady
  <2>2. \A j \in Active(header.slots) : j # i => header.slots[j].hash.user # s.hash.user
    BY <1>1 DEF HeaderSteady
  <2> QED
    BY <1>1, <2>1, <2>2, PutSteady
<1>4. /\ header'.slots[i] = s
      /\ \A j \in Active(header'.slots) :
            j # i => j \in Active(header.slots) /\ header'.slots[j] = header.slots[j]
  <2>1. /\ header'.slots[i] = s
        /\ \A j \in 1..MaxSlots : j # i => header'.slots[j] = header.slots[j]
        /\ Active(header'.slots) = Active(header.slots) \cup {i}
    BY <1>1, PutFacts
  <2> QED
    BY <2>1 DEF Active
<1>5. SessionSteady'
  <2> SUFFICES ASSUME NEW j \in Active(header'.slots),
                      header'.slots[j].hash.user = session.user
               PROVE  Agrees(session', header'.slots[j])
    BY DEF SessionSteady
  <2>1. CASE j = i
    BY <1>2, <1>4, <2>1 DEF Agrees, IsSelf
  <2>2. CASE j # i
    <3>1. j \in Active(header.slots) /\ header'.slots[j] = header.slots[j]
      BY <1>4, <2>2
    <3>2. ~IsSelf(u)
      BY <1>1, <1>2, <2>2, <3>1 DEF HeaderSteady, IsSelf
    <3> QED
      BY <3>1, <3>2 DEF Steady, SessionSteady, Agrees
  <2> QED
    BY <2>1, <2>2
<1> QED
  BY <1>3, <1>5 DEF Steady

\* What such an operation starts from: the marked slot.
LEMMA MarkedSteady ==
    ASSUME SteadyHash, Inv, Steady, IsOpen, NEW u \in Users,
           NEW i \in Active(header.slots), Finds(header, u, i)
    PROVE  LET m == Marked(header, u, i)
           IN  /\ m \in Slot /\ m.name = u /\ m.hash = header.slots[i].hash
               /\ m.wrap = header.slots[i].wrap /\ m.wrap.iter = header.policy.iter
               /\ m.dev = header.slots[i].dev /\ m.must = header.slots[i].must
               /\ IsSelf(u) => m.must = session.must /\ (session.enroll => ~Enrolled(m))
<1> DEFINE m == Marked(header, u, i)
<1>1. header \in Header /\ HeaderSteady(header) /\ header.slots[i].hash.user = u
  BY OpenTypes, FindsUser DEF Inv, Steady
<1>2. /\ m \in Slot /\ m.hash = header.slots[i].hash /\ m.wrap = header.slots[i].wrap
      /\ m.dev = header.slots[i].dev /\ m.must = header.slots[i].must
  BY <1>1, MarkedEdit, LookedFacts
<1>3. m.name = u
  BY <1>1, ActiveType DEF Marked, Slot
<1> HIDE DEF m
<1>4. m.wrap.iter = header.policy.iter
  BY <1>1, <1>2 DEF HeaderSteady, SlotSteady
<1>5. IsSelf(u) => m.must = session.must /\ (session.enroll => ~Enrolled(m))
  BY <1>1, <1>2 DEF Steady, SessionSteady, Agrees, IsSelf, Enrolled
<1> QED
  BY <1>2, <1>3, <1>4, <1>5 DEF m

\* Looking a user up only fills in the name.
LEMMA LookupOnlySteady ==
    ASSUME SteadyHash, Inv, Steady, NEW u \in Users, LookupOnly(u)
    PROVE  Steady'
<1>1. header \in Header /\ IsOpen
  BY OpenTypes DEF Inv, LookupOnly
<1>2. PICK i \in Active(header.slots) :
        Finds(header, u, i) /\ header' = Put(header, i, Marked(header, u, i))
  BY <1>1, LookedFacts DEF LookupOnly
<1> DEFINE m == Marked(header, u, i)
<1>3. /\ m \in Slot /\ m.name = u /\ m.hash = header.slots[i].hash
      /\ m.wrap.iter = header.policy.iter
      /\ IsSelf(u) => m.must = session.must /\ (session.enroll => ~Enrolled(m))
  BY <1>1, <1>2, MarkedSteady
<1> HIDE DEF m
<1> QED
  BY <1>1, <1>2, <1>3, SlotStepSteady DEF LookupOnly, m

\* Clearing a history leaves hash, name and key alone.
LEMMA ClearHistorySteady ==
    ASSUME SteadyHash, Inv, Steady, NEW u \in Users, ClearHistory(u)
    PROVE  Steady'
<1>1. header \in Header /\ IsOpen
  BY OpenTypes DEF Inv, ClearHistory, MaySelfOrAdmin
<1>2. PICK i \in Active(header.slots) :
        /\ Finds(header, u, i)
        /\ header' = [Looked(header, u, i) EXCEPT !.slots[i].hist = <<>>]
  BY DEF ClearHistory
<1> DEFINE m == Marked(header, u, i)
           s == [m EXCEPT !.hist = <<>>]
<1>3. /\ m \in Slot /\ m.name = u /\ m.hash = header.slots[i].hash
      /\ m.wrap.iter = header.policy.iter
      /\ IsSelf(u) => m.must = session.must /\ (session.enroll => ~Enrolled(m))
  BY <1>1, <1>2, MarkedSteady
<1>4. header' = Put(header, i, s)
  BY <1>1, <1>2, LookedFacts
<1> HIDE DEF m
<1>5. /\ s \in Slot /\ s.name = m.name /\ s.hash = m.hash /\ s.wrap = m.wrap
      /\ s.dev = m.dev /\ s.must = m.must
  <2>1. <<>> \in Seq(Passwords)
    OBVIOUS
  <2> QED
    BY <1>3, <2>1 DEF Slot
<1> HIDE DEF s
<1> QED
  BY <1>1, <1>2, <1>3, <1>4, <1>5, SlotStepSteady DEF ClearHistory, Enrolled

\* A change clears the flag in the slot and, for its own user, in the session.
LEMMA ChangePasswordSteady ==
    ASSUME SteadyHash, Inv, Steady, NEW u \in Users, NEW old \in Passwords,
           NEW new \in Passwords, NEW dev \in Plugged, ChangePassword(u, old, new, dev)
    PROVE  Steady'
<1>1. header \in Header /\ IsOpen /\ session \in Session /\ header.policy \in Policies
  BY OpenTypes DEF Inv, ChangePassword, MaySelfOrAdmin
<1>2. PICK i \in Active(header.slots) :
        /\ Finds(header, u, i)
        /\ header' = [Looked(header, u, i) EXCEPT
                        !.slots[i] = ChangedSlot(@, header.policy, new)]
  BY DEF ChangePassword
<1> DEFINE m == Marked(header, u, i)
           s == ChangedSlot(m, header.policy, new)
<1>3. /\ m \in Slot /\ m.name = u /\ m.hash = header.slots[i].hash
      /\ IsSelf(u) => (session.enroll => ~Enrolled(m))
  BY <1>1, <1>2, MarkedSteady
<1>4. header' = Put(header, i, s)
  BY <1>1, <1>2, LookedFacts
<1> HIDE DEF m
<1>5. /\ s \in Slot /\ s.name = m.name /\ s.hash = m.hash /\ s.dev = m.dev
      /\ s.must = FALSE /\ s.wrap.iter = header.policy.iter
  <2>1. s \in Slot
    BY <1>1, <1>3, SlotEditTypes
  <2>2. /\ s.name = m.name /\ s.hash = m.hash /\ s.dev = m.dev /\ s.must = FALSE
        /\ s.wrap.iter = header.policy.iter
    BY <1>3 DEF ChangedSlot, Slot, Combined, PasswordKek
  <2> QED
    BY <2>1, <2>2
<1> HIDE DEF s
<1>6. /\ session'.user = session.user
      /\ IsSelf(u) => session'.must = FALSE /\ session'.enroll = session.enroll
      /\ ~IsSelf(u) => session' = session
  BY <1>1 DEF ChangePassword, Session
<1>7. IsSelf(u) => session'.must = s.must /\ (session'.enroll => ~Enrolled(s))
  BY <1>3, <1>5, <1>6 DEF Enrolled
<1>8. /\ s.hash = header.slots[i].hash /\ s.name = u
      /\ s \in Slot /\ s.wrap.iter = header.policy.iter
  BY <1>3, <1>5
<1>9. IsOpen /\ Finds(header, u, i) /\ session'.user = session.user /\ disk' = disk
  BY <1>1, <1>2, <1>6 DEF ChangePassword
<1>10. ~IsSelf(u) => session' = session
  BY <1>6
<1> QED
  BY <1>4, <1>7, <1>8, <1>9, <1>10, SlotStepSteady

\* A reset is never of the administrator's own slot.
LEMMA AdminResetSteady ==
    ASSUME SteadyHash, Inv, Steady, NEW u \in Users, NEW pw \in Passwords, AdminReset(u, pw)
    PROVE  Steady'
<1>1. header \in Header /\ IsOpen /\ header.policy \in Policies
  BY OpenTypes DEF Inv, AdminReset
<1>2. PICK i \in Active(header.slots) :
        /\ Finds(header, u, i)
        /\ header' = [Looked(header, u, i) EXCEPT
                        !.slots[i] = ResetSlot(@, header.policy, pw)]
  BY DEF AdminReset
<1> DEFINE m == Marked(header, u, i)
           s == ResetSlot(m, header.policy, pw)
<1>3. m \in Slot /\ m.name = u /\ m.hash = header.slots[i].hash
  BY <1>1, <1>2, MarkedSteady
<1>4. header' = Put(header, i, s)
  BY <1>1, <1>2, LookedFacts
<1> HIDE DEF m
<1>5. s \in Slot /\ s.name = m.name /\ s.hash = m.hash /\ s.wrap.iter = header.policy.iter
  <2>1. s \in Slot
    BY <1>1, <1>3, SlotEditTypes
  <2>2. s.name = m.name /\ s.hash = m.hash /\ s.wrap.iter = header.policy.iter
    BY <1>3 DEF ResetSlot, WithoutYubiKey, Slot, PasswordKek
  <2> QED
    BY <2>1, <2>2
<1> HIDE DEF s
<1> QED
  BY <1>1, <1>2, <1>3, <1>4, <1>5, SlotStepSteady DEF AdminReset

\* Enrolling one's own key ends the session's need to enroll.
LEMMA EnrollSteady ==
    ASSUME SteadyHash, Inv, Steady, NEW u \in Users, NEW pw \in Passwords,
           NEW dev \in Devices, Enroll(u, pw, dev)
    PROVE  Steady'
<1>1. header \in Header /\ IsOpen /\ session \in Session /\ header.policy \in Policies
  BY OpenTypes DEF Inv, Enroll, MaySelfOrAdmin
<1> DEFINE kek == PasswordKek(pw, header.policy.iter)
<1>2. PICK i \in Active(header.slots) :
        /\ Finds(header, u, i)
        /\ header' = [Looked(header, u, i) EXCEPT !.slots[i] = Enrollment(@, kek, dev)]
  BY DEF Enroll
<1> DEFINE m == Marked(header, u, i)
           s == Enrollment(m, kek, dev)
<1>3. /\ m \in Slot /\ m.name = u /\ m.hash = header.slots[i].hash
      /\ IsSelf(u) => m.must = session.must
  BY <1>1, <1>2, MarkedSteady
<1>4. header' = Put(header, i, s)
  BY <1>1, <1>2, LookedFacts
<1> HIDE DEF m
<1>5. /\ s \in Slot /\ s.name = m.name /\ s.hash = m.hash /\ s.must = m.must
      /\ s.wrap.iter = header.policy.iter
  <2>1. s \in Slot
    BY <1>1, <1>3, SlotEditTypes
  <2>2. /\ s.name = m.name /\ s.hash = m.hash /\ s.must = m.must
        /\ s.wrap.iter = header.policy.iter
    BY <1>3 DEF Enrollment, Slot, Combined, PasswordKek
  <2> QED
    BY <2>1, <2>2
<1> HIDE DEF s
<1>6. /\ session'.user = session.user /\ disk' = disk
      /\ IsSelf(u) => session'.must = session.must /\ ~session'.enroll
      /\ ~IsSelf(u) => session' = session
  BY <1>1 DEF Enroll, Session
<1>7. IsSelf(u) => session'.must = s.must /\ (session'.enroll => ~Enrolled(s))
  BY <1>3, <1>5, <1>6
<1>8. /\ s.hash = header.slots[i].hash /\ s.name = u
      /\ s \in Slot /\ s.wrap.iter = header.policy.iter
  BY <1>3, <1>5
<1>9. IsOpen /\ Finds(header, u, i) /\ session'.user = session.user /\ disk' = disk
  BY <1>1, <1>2, <1>6
<1>10. ~IsSelf(u) => session' = session
  BY <1>6
<1> HIDE DEF kek
<1> QED
  BY <1>4, <1>7, <1>8, <1>9, <1>10, SlotStepSteady

\* Unenrolling leaves no key that a session could still owe.
LEMMA UnenrollSteady ==
    ASSUME SteadyHash, Inv, Steady, NEW u \in Users, NEW pw \in Passwords,
           NEW dev \in Devices, Unenroll(u, pw, dev)
    PROVE  Steady'
<1>1. header \in Header /\ IsOpen /\ session \in Session /\ header.policy \in Policies
  BY OpenTypes DEF Inv, Unenroll, MaySelfOrAdmin
<1> DEFINE kek == PasswordKek(pw, header.policy.iter)
<1>2. PICK i \in Active(header.slots) :
        /\ Finds(header, u, i)
        /\ header' = [Looked(header, u, i) EXCEPT
                        !.slots[i] = [WithoutYubiKey(@) EXCEPT !.wrap = kek]]
  BY DEF Unenroll
<1> DEFINE m == Marked(header, u, i)
           s == [WithoutYubiKey(m) EXCEPT !.wrap = kek]
<1>3. /\ m \in Slot /\ m.name = u /\ m.hash = header.slots[i].hash
      /\ IsSelf(u) => m.must = session.must
  BY <1>1, <1>2, MarkedSteady
<1>4. header' = Put(header, i, s)
  BY <1>1, <1>2, LookedFacts
<1>5. kek \in Kek /\ kek.iter = header.policy.iter
  BY <1>1, KekType DEF PasswordKek
<1> HIDE DEF m, kek
<1>6. /\ s \in Slot /\ s.name = m.name /\ s.hash = m.hash /\ s.must = m.must
      /\ s.wrap = kek /\ ~Enrolled(s)
  BY <1>3, <1>5 DEF WithoutYubiKey, Slot, Enrolled
<1> HIDE DEF s
<1>7. /\ session'.user = session.user
      /\ IsSelf(u) => session'.must = session.must
      /\ ~IsSelf(u) => session' = session
  BY <1>1 DEF Unenroll, Session
<1> QED
  BY <1>1, <1>2, <1>3, <1>4, <1>5, <1>6, <1>7, SlotStepSteady DEF Unenroll

-----------------------------------------------------------------------------
(* The other operations *)

\* The first slot is the administrator's, whose session owes nothing.
LEMMA CreateSteady ==
    ASSUME SteadyHash, Inv, Steady, Inv', NEW u \in Users, NEW pw \in Passwords,
           NEW p \in CreationPolicies, NEW dev \in Plugged, Create(u, pw, p, dev)
    PROVE  Steady'
<1> DEFINE no == FALSE
           plain == NewSlot(p, u, pw, Admin, no)
           slot == AdminSlot(p, u, pw, dev)
<1>1. p \in Policies /\ Admin \in Roles /\ no \in BOOLEAN
  BY CreationPoliciesAssumption DEF Roles
<1>2. /\ plain.hash = HashOf(u, p.algo, p.iter) /\ plain.name = u
      /\ plain.wrap = PasswordKek(pw, p.iter) /\ plain.must = FALSE /\ plain \in Slot
  BY <1>1, NewSlotType DEF NewSlot
<1>3. slot = IF p.yubikey THEN Enrollment(plain, plain.wrap, dev) ELSE plain
  BY DEF AdminSlot
<1> HIDE DEF plain, no
<1>4. /\ slot \in Slot /\ slot.hash = HashOf(u, p.algo, p.iter) /\ slot.name = u
      /\ slot.wrap.iter = p.iter /\ slot.must = FALSE /\ slot.hash.user = u
  <2>1. Enrollment(plain, plain.wrap, dev) \in Slot
    BY <1>1, <1>2, SlotEditTypes DEF Plugged
  <2>2. /\ slot \in Slot /\ slot.hash = HashOf(u, p.algo, p.iter) /\ slot.name = u
        /\ slot.wrap.iter = p.iter /\ slot.must = FALSE
    BY <1>2, <1>3, <2>1 DEF Enrollment, Combined, PasswordKek, Slot
  <2> QED
    BY <2>2 DEF HashOf
<1>5. /\ header' = FirstHeader(p, slot) /\ disk' = OnDisk(header')
      /\ session' = [user |-> u, role |-> Admin, must |-> FALSE, enroll |-> FALSE]
  BY DEF Create
<1> HIDE DEF slot
<1>6. /\ header'.policy = p /\ header'.slots[1] = slot
      /\ Active(header'.slots) = {1}
  BY <1>4, <1>5, MaxSlotsAssumption, FreeAssumption DEF FirstHeader, Active
<1>7. HeaderSteady(header')
  BY <1>4, <1>6 DEF HeaderSteady, SlotSteady
<1>8. header' \in Header
  BY <1>1, <1>4, <1>5 DEF FirstHeader, Header, SlotTable
<1>9. SessionSteady'
  BY <1>4, <1>5, <1>6 DEF SessionSteady, Agrees
<1> QED
  BY <1>5, <1>7, <1>8, <1>9, OnDiskSteady DEF Steady

\* A session is made from the slot that the lookup found in the file.
LEMMA OpenSteady ==
    ASSUME SteadyHash, Inv, Steady, NEW u \in Users, NEW pw \in Passwords,
           NEW dev \in Plugged, Open(u, pw, dev)
    PROVE  Steady'
<1>1. /\ disk \in Header /\ disk.policy \in Policies /\ HeaderSteady(disk)
      /\ ~disk.policy.migrating
  BY DEF Inv, TypeOK, Steady, Open, Header, SteadyHash
<1>2. PICK i \in Active(disk.slots) : OpenSlot(u, pw, dev, i)
  BY DEF Open
<1> DEFINE m == Marked(disk, u, i)
<1>3. /\ i \in 1..MaxSlots /\ disk.slots[i] \in Slot /\ disk.slots[i].hash.user = u
      /\ Looked(disk, u, i) = Put(disk, i, m) /\ m \in Slot
  BY <1>1, <1>2, ActiveType, FindsUser, LookedFacts DEF OpenSlot
<1>4. /\ m.hash = disk.slots[i].hash /\ m.wrap = disk.slots[i].wrap
      /\ m.dev = disk.slots[i].dev /\ m.must = disk.slots[i].must
  BY <1>1, MarkedEdit
<1>5. m.name = u
  BY <1>3 DEF Marked, Slot
<1> HIDE DEF m
<1>6. /\ Put(disk, i, m).policy = disk.policy /\ Put(disk, i, m).slots[i] = m
      /\ \A j \in 1..MaxSlots : j # i => Put(disk, i, m).slots[j] = disk.slots[j]
      /\ Active(Put(disk, i, m).slots) = Active(disk.slots) \cup {i}
  <2>1. m \in Slot /\ m # Free
    BY <1>3, FreeAssumption
  <2>2. disk \in Header /\ i \in 1..MaxSlots
    BY <1>1, <1>3
  <2> QED
    BY <2>1, <2>2, PutFacts
<1>7. header' = Put(disk, i, m) /\ disk' = disk /\ session' = SessionFor(header', u, i)
  <2>1. ~MustMigrateNow(Looked(disk, u, i), i)
    BY <1>1, <1>3, <1>6 DEF MustMigrateNow
  <2> QED
    BY <1>2, <1>3, <2>1 DEF OpenSlot
<1>8. HeaderSteady(header')
  <2>1. SlotSteady(disk.policy, m)
    BY <1>1, <1>3, <1>4, <1>5 DEF HeaderSteady, SlotSteady
  <2>2. \A j \in Active(disk.slots) : j # i => disk.slots[j].hash.user # m.hash.user
    BY <1>1, <1>4 DEF HeaderSteady
  <2> QED
    BY <1>1, <1>3, <1>7, <2>1, <2>2, PutSteady
<1>9. SessionSteady'
  <2> SUFFICES ASSUME NEW j \in Active(header'.slots),
                      header'.slots[j].hash.user = session'.user
               PROVE  Agrees(session', header'.slots[j])
    BY DEF SessionSteady
  <2>1. /\ session'.user = u /\ header'.slots[i] = m /\ m.hash.user = u
        /\ i \in Active(header'.slots)
    BY <1>3, <1>4, <1>6, <1>7 DEF SessionFor
  <2>2. j = i
    BY <1>8, <2>1 DEF HeaderSteady
  <2> QED
    BY <1>5, <1>7, <2>1, <2>2 DEF Agrees, SessionFor
<1> QED
  BY <1>1, <1>7, <1>8, <1>9 DEF Steady

\* A user is added only where the lookup finds none of that name.
LEMMA AddUserSteady ==
    ASSUME SteadyHash, Inv, Steady, NEW u \in Users, NEW pw \in Passwords,
           NEW role \in Roles, NEW must \in BOOLEAN, NEW withPin \in PinWithAdd,
           NEW dev \in Plugged, AddUser(u, pw, role, must, withPin, dev)
    PROVE  Steady'
<1>1. /\ header \in Header /\ IsOpen /\ header.policy \in Policies /\ HeaderSteady(header)
  BY OpenTypes DEF Inv, Steady, AddUser
<1> DEFINE plain  == NewSlot(header.policy, u, pw, role, must)
           enroll == withPin /\ header.policy.yubikey
           slot   == IF enroll THEN ProvisionedSlot(plain, dev) ELSE plain
<1>2. PICK i \in 1..MaxSlots : i \notin Active(header.slots) /\ header' = Put(header, i, slot)
  BY DEF AddUser, Put, IsFirst
<1>3. /\ plain \in Slot /\ ProvisionedSlot(plain, dev) \in Slot
      /\ plain.hash = HashOf(u, header.policy.algo, header.policy.iter) /\ plain.name = u
      /\ plain.wrap.iter = header.policy.iter
  BY <1>1, NewSlotType, SlotEditTypes DEF Plugged, NewSlot, PasswordKek
<1> HIDE DEF plain
<1>4. /\ slot \in Slot /\ slot.hash = plain.hash /\ slot.name = u
      /\ slot.wrap = plain.wrap
  BY <1>3 DEF ProvisionedSlot, Slot
<1> HIDE DEF slot
<1>5. slot.hash.user = u
  BY <1>3, <1>4 DEF HashOf
<1>6. \A j \in Active(header.slots) : header.slots[j].hash.user # u
  BY <1>1, FindsSteady DEF AddUser, UserExists
<1>7. HeaderSteady(header')
  <2>1. SlotSteady(header.policy, slot)
    BY <1>3, <1>4, <1>5 DEF SlotSteady
  <2> QED
    BY <1>1, <1>2, <1>4, <1>5, <1>6, <2>1, PutSteady
<1>8. SessionSteady'
  <2>1. session.user # u
    BY <1>1, <1>6 DEF Inv, SessionBacked, UserSlots
  <2>2. slot # Free
    BY <1>4, FreeAssumption
  <2>3. /\ header'.slots[i] = slot
        /\ \A j \in 1..MaxSlots : j # i => header'.slots[j] = header.slots[j]
        /\ Active(header'.slots) = Active(header.slots) \cup {i}
    BY <1>1, <1>2, <1>4, <2>2, PutFacts
  <2>4. session' = session
    BY DEF AddUser
  <2> SUFFICES ASSUME NEW j \in Active(header'.slots),
                      header'.slots[j].hash.user = session.user
               PROVE  Agrees(session, header'.slots[j])
    BY <2>4 DEF SessionSteady
  <2>5. j # i /\ j \in Active(header.slots) /\ header'.slots[j] = header.slots[j]
    BY <1>5, <2>1, <2>3 DEF Active
  <2> QED
    BY <1>1, <2>5 DEF Steady, SessionSteady
<1> QED
  BY <1>7, <1>8 DEF Steady, AddUser

\* Removing a slot leaves the others, and the session's own among them.
LEMMA RemoveUserSteady ==
    ASSUME SteadyHash, Inv, Steady, NEW u \in Users, RemoveUser(u)
    PROVE  Steady'
<1>1. /\ header \in Header /\ IsOpen /\ HeaderSteady(header)
  BY OpenTypes DEF Inv, Steady, RemoveUser
<1>2. PICK i \in Active(header.slots) : header' = Put(header, i, Free)
  BY DEF RemoveUser, Put
<1>3. /\ header'.policy = header.policy
      /\ \A j \in 1..MaxSlots : j # i => header'.slots[j] = header.slots[j]
      /\ Active(header'.slots) = Active(header.slots) \ {i}
  <2>1. i \in 1..MaxSlots /\ Free \in Slot \cup {Free}
    BY <1>1, <1>2, ActiveType
  <2> QED
    BY <1>1, <1>2, <2>1, PutFacts
<1>4. \A j \in Active(header'.slots) :
        j \in Active(header.slots) /\ header'.slots[j] = header.slots[j]
  BY <1>3 DEF Active
<1>5. HeaderSteady(header')
  BY <1>1, <1>3, <1>4 DEF HeaderSteady
<1>6. SessionSteady'
  BY <1>1, <1>4 DEF Steady, SessionSteady, RemoveUser
<1> QED
  BY <1>5, <1>6 DEF Steady, RemoveUser

\* A policy of the same hash and iterations replaces the old one.
LEMMA UpdatePolicySteady ==
    ASSUME SteadyHash, Inv, Steady, NEW p \in Policies, UpdatePolicy(p)
    PROVE  Steady'
<1>1. /\ header \in Header /\ IsOpen /\ HeaderSteady(header) /\ header.policy \in Policies
  BY OpenTypes DEF Inv, Steady, UpdatePolicy
<1>2. p.algo = header.policy.algo /\ p.iter = header.policy.iter
  BY <1>1 DEF SteadyHash
<1>3. header'.policy = p /\ header'.slots = header.slots
  <2>1. header' = [policy |-> p, slots |-> [i \in 1..MaxSlots |-> header.slots[i]]]
    BY <1>2 DEF UpdatePolicy
  <2> QED
    BY <1>1, <2>1 DEF Header, SlotTable
<1>4. HeaderSteady(header')
  BY <1>1, <1>2, <1>3 DEF HeaderSteady, SlotSteady
<1>5. SessionSteady'
  BY <1>1, <1>3 DEF Steady, SessionSteady, UpdatePolicy
<1> QED
  BY <1>4, <1>5 DEF Steady, UpdatePolicy

-----------------------------------------------------------------------------
(* The theorems *)

\* With one hash and one number of iterations for all, header, file and session
\* stay related slot by slot.
THEOREM SteadyInvariance == SteadyHash => (Spec => []Steady)
<1> SUFFICES ASSUME SteadyHash PROVE Spec => []Steady
  OBVIOUS
<1>1. Init => Steady
  BY DEF Init, Steady, SessionSteady, IsOpen
<1>2. Inv /\ Inv' /\ Steady /\ [Next]_vars => Steady'
  <2> SUFFICES ASSUME Inv, Inv', Steady, [Next]_vars
               PROVE  Steady'
    OBVIOUS
  <2>1. ASSUME NEW u \in Users, NEW pw \in Passwords, NEW p \in CreationPolicies,
               NEW dev \in Plugged, Create(u, pw, p, dev)
        PROVE  Steady'
    BY <2>1, CreateSteady
  <2>2. ASSUME NEW u \in Users, NEW pw \in Passwords, NEW dev \in Plugged,
               Open(u, pw, dev)
        PROVE  Steady'
    BY <2>2, OpenSteady
  <2>3. CASE Close
    BY <2>3 DEF Close, Steady, SessionSteady, IsOpen
  <2>4. CASE Save
    <3>1. header \in Header /\ IsOpen
      BY <2>4, OpenTypes DEF Inv, Save
    <3> QED
      BY <2>4, <3>1, OnDiskSteady DEF Save, Steady, SessionSteady, IsOpen
  <2>5. ASSUME NEW u \in Users, NEW pw \in Passwords, NEW role \in Roles,
               NEW must \in BOOLEAN, NEW withPin \in PinWithAdd, NEW dev \in Plugged,
               AddUser(u, pw, role, must, withPin, dev)
        PROVE  Steady'
    BY <2>5, AddUserSteady
  <2>6. ASSUME NEW u \in Users, RemoveUser(u) \/ LookupOnly(u) \/ ClearHistory(u)
        PROVE  Steady'
    BY <2>6, RemoveUserSteady, LookupOnlySteady, ClearHistorySteady
  <2>7. ASSUME NEW p \in Policies, UpdatePolicy(p)
        PROVE  Steady'
    BY <2>7, UpdatePolicySteady
  <2>8. ASSUME NEW u \in Users, NEW old \in Passwords, NEW new \in Passwords,
               NEW dev \in Plugged, ChangePassword(u, old, new, dev)
        PROVE  Steady'
    BY <2>8, ChangePasswordSteady
  <2>9. ASSUME NEW u \in Users, NEW pw \in Passwords, AdminReset(u, pw)
        PROVE  Steady'
    BY <2>9, AdminResetSteady
  <2>10. ASSUME NEW u \in Users, NEW pw \in Passwords, NEW dev \in Devices,
                Enroll(u, pw, dev) \/ Unenroll(u, pw, dev)
         PROVE  Steady'
    BY <2>10, EnrollSteady, UnenrollSteady
  <2>11. CASE UNCHANGED vars
    BY <2>11 DEF vars, Steady, SessionSteady, IsOpen
  <2> QED
    BY <2>1, <2>2, <2>3, <2>4, <2>5, <2>6, <2>7, <2>8, <2>9, <2>10, <2>11 DEF Next
<1> QED
  BY <1>1, <1>2, Invariance, PTL DEF Spec

\* The session's flags are those of its user's slot, whoever changes or resets
\* which password, enrolls, unenrolls or removes whom.
THEOREM FlagsAlwaysAgree == SteadyHash => (Spec => []SessionFlagsAgree)
<1> SUFFICES ASSUME SteadyHash PROVE Spec => []SessionFlagsAgree
  OBVIOUS
<1>1. Steady => SessionFlagsAgree
  BY DEF Steady, SessionSteady, Agrees, SessionFlagsAgree, UserSlots
<1> QED
  BY <1>1, SteadyInvariance, PTL

\* Asking again accepts what logs in, and nothing else, enrolled or not, after
\* every change, reset and enrollment since, as long as add_user gets no PIN.
THEOREM ReauthAlwaysAgrees ==
    SteadyHash /\ NoPinWithAdd => (Spec => []ReauthAgreesWithLogin)
<1> SUFFICES ASSUME SteadyHash, NoPinWithAdd PROVE Spec => []ReauthAgreesWithLogin
  OBVIOUS
<1>1. Inv /\ Steady => ReauthAgreesWithLogin
  <2> SUFFICES ASSUME Inv, Steady, IsOpen, NEW pw \in Passwords, NEW dev \in Plugged
               PROVE  (\E i \in Active(header.slots) :
                          /\ Finds(header, session.user, i)
                          /\ Unwraps(header.slots[i], pw, dev, header.policy.iter))
                      <=> (\E i \in Active(header.slots) :
                              ReauthSlot(i) /\ VerifyCredentials(pw, dev, i))
    BY DEF ReauthAgreesWithLogin
  <2>1. /\ header \in Header /\ HeaderSteady(header) /\ HeaderSound(header)
        /\ session.user \in Users /\ session.user # NoUser
    BY OpenTypes, MarkersAssumption DEF Inv, Steady, Session
  <2>2. ASSUME NEW i \in Active(header.slots)
        PROVE  header.slots[i].name = session.user <=> header.slots[i].hash.user = session.user
    BY <2>1 DEF HeaderSteady, SlotSteady, Steady, SessionSteady, Agrees
  <2>3. ASSUME NEW i \in Active(header.slots)
        PROVE  Finds(header, session.user, i) <=> ReauthSlot(i)
    <3>1. Finds(header, session.user, i) <=> header.slots[i].hash.user = session.user
      BY <2>1, FindsSteady
    <3>2. \A j \in Active(header.slots) :
            /\ header.slots[j].hash.user = header.slots[i].hash.user => i = j
            /\ j <= j
      BY <2>1 DEF HeaderSteady, Active
    <3> QED
      BY <2>2, <3>1, <3>2 DEF ReauthSlot, IsFirst
  <2>4. ASSUME NEW i \in Active(header.slots), ReauthSlot(i)
        PROVE  Unwraps(header.slots[i], pw, dev, header.policy.iter)
                <=> VerifyCredentials(pw, dev, i)
    <3> DEFINE slot == header.slots[i]
               kek  == PasswordKek(pw, header.policy.iter)
    <3>1. slot.name = session.user /\ slot \in Slot
      BY <2>1, <2>4, ActiveType DEF ReauthSlot, IsFirst
    <3>2. CASE ~Enrolled(slot)
      BY <3>1, <3>2 DEF Unwraps, VerifyCredentials
    <3>3. CASE Enrolled(slot)
      <4>1. slot.wrap.dev = slot.dev /\ slot.dev # NoDevice
        BY <2>1, <3>3 DEF HeaderSound, SlotSound, Enrolled
      <4>2. Combined(kek, dev).dev = dev
        BY DEF Combined, PasswordKek
      <4> QED
        BY <3>1, <3>3, <4>1, <4>2 DEF Unwraps, VerifyCredentials
    <3> QED
      BY <3>2, <3>3
  <2> QED
    BY <2>3, <2>4
<1> QED
  BY <1>1, Invariance, SteadyInvariance, PTL

-----------------------------------------------------------------------------
(* The lookup, over any sequence of migrations *)

\* No policy has the legacy hash, which the last pass leaves out, and the PBKDF2
\* hash is made with the same number of iterations under every policy.
SearchableHash ==
    \A p, q \in Policies : p.algo # Legacy /\ (p.algo = Pbkdf2 => p.iter = q.iter)

\* A set of naturals that is not empty has a first element.
LEMMA FirstExists ==
    ASSUME NEW S \in SUBSET Nat, S # {}
    PROVE  \E i \in S : IsFirst(i, S)
<1>1. PICK i \in S : \A j \in S : ~(<<j, i>> \in OpToRel(<, Nat))
  BY NatLessThanWellFounded, WFMin
<1>2. \A j \in S : ~(j < i)
  BY <1>1 DEF OpToRel
<1> QED
  BY <1>2 DEF IsFirst

\* A user whose slot one of the three passes matches is found, perhaps in another
\* slot.
LEMMA SomePassFinds ==
    ASSUME NEW h \in Header, NEW u \in Users,
           \/ CurrentMatches(h, u) # {}
           \/ FallbackMatches(h, u) # {}
           \/ \E a \in SweepAlgorithms(h.policy) : Matching(h, u, a) # {}
    PROVE  UserExists(h, u)
<1>1. /\ CurrentMatches(h, u) \subseteq Active(h.slots)
      /\ FallbackMatches(h, u) \subseteq Active(h.slots)
      /\ \A a : Matching(h, u, a) \subseteq Active(h.slots)
  BY DEF CurrentMatches, FallbackMatches, Matching
<1>2. Active(h.slots) \subseteq Nat
  BY DEF Active
<1>3. CASE CurrentMatches(h, u) # {}
  <2>1. PICK i \in CurrentMatches(h, u) : IsFirst(i, CurrentMatches(h, u))
    BY <1>1, <1>2, <1>3, FirstExists
  <2> QED
    BY <1>1, <2>1 DEF UserExists, Finds
<1>4. CASE CurrentMatches(h, u) = {} /\ FallbackMatches(h, u) # {}
  <2>1. PICK i \in FallbackMatches(h, u) : IsFirst(i, FallbackMatches(h, u))
    BY <1>1, <1>2, <1>4, FirstExists
  <2> QED
    BY <1>1, <1>4, <2>1 DEF UserExists, Finds
<1>5. CASE CurrentMatches(h, u) = {} /\ FallbackMatches(h, u) = {}
  <2> DEFINE As == {a \in SweepAlgorithms(h.policy) : Matching(h, u, a) # {}}
  <2>1. As \subseteq Nat /\ As # {}
    BY <1>5 DEF SweepAlgorithms, Algorithms
  <2>2. PICK a \in As : IsFirst(a, As)
    <3> HIDE DEF As
    <3> QED
      BY <2>1, FirstExists
  <2>3. PICK i \in Matching(h, u, a) : IsFirst(i, Matching(h, u, a))
    BY <1>1, <1>2, FirstExists
  <2>4. \A b \in SweepAlgorithms(h.policy) : b < a => Matching(h, u, b) = {}
    <3> SUFFICES ASSUME NEW b \in As, b < a PROVE FALSE
      OBVIOUS
    <3> QED
      BY <2>1, <2>2 DEF IsFirst
  <2>5. SweepFinds(h, u, i)
    BY <2>3, <2>4 DEF SweepFinds
  <2> QED
    BY <1>1, <1>5, <2>3, <2>5 DEF UserExists, Finds
<1> QED
  BY <1>3, <1>4, <1>5

\* A hash made under any of the policies is matched under every other, by its
\* own algorithm.
LEMMA HashMatches ==
    ASSUME SearchableHash, NEW h \in Header, NEW i \in Active(h.slots),
           Hashed(h.slots[i])
    PROVE  LET hash == h.slots[i].hash
           IN  /\ i \in Matching(h, hash.user, hash.algo)
               /\ hash.algo \in Algorithms \ {Legacy}
<1> DEFINE hash == h.slots[i].hash
<1>1. PICK p \in Policies : hash = HashOf(hash.user, p.algo, p.iter)
  BY DEF Hashed
<1>2. h.policy \in Policies
  BY DEF Header
<1> HIDE DEF hash
<1>3. hash.algo = p.algo
  BY <1>1 DEF HashOf
<1>4. p.algo \in Algorithms /\ p.algo # Legacy /\ (p.algo = Pbkdf2 => p.iter = h.policy.iter)
  BY <1>2, PolicyType DEF SearchableHash
<1>5. HashOf(hash.user, p.algo, p.iter) = HashOf(hash.user, p.algo, h.policy.iter)
  <2>1. CASE p.algo # Pbkdf2
    BY <2>1 DEF HashOf
  <2>2. CASE p.algo = Pbkdf2
    BY <1>4, <2>2
  <2> QED
    BY <2>1, <2>2
<1>6. hash = HashOf(hash.user, hash.algo, h.policy.iter)
  BY <1>1, <1>3, <1>5
<1>7. i \in Matching(h, hash.user, hash.algo)
  BY <1>6 DEF Matching, hash
<1> QED
  BY <1>3, <1>4, <1>7 DEF hash

\* Over every sequence of migrations, completed or overlapping, the lookup finds
\* every user of the vault and of its file, but for those added while one runs.
THEOREM LookupAlwaysFinds == SearchableHash => (Spec => []LookupFindsUsers)
<1> SUFFICES ASSUME SearchableHash PROVE Spec => []LookupFindsUsers
  OBVIOUS
<1>1. Inv => LookupFindsUsers
  <2> SUFFICES ASSUME Inv, NEW v \in Vaults, NEW i \in Active(v.slots),
                      v.policy.migrating /\ v.slots[i].hash.algo = v.policy.algo
                          => v.slots[i].status # NotMigrated
               PROVE  UserExists(v, v.slots[i].hash.user)
    BY DEF LookupFindsUsers, UserSlots
  <2> DEFINE u == v.slots[i].hash.user
             a == v.slots[i].hash.algo
  <2>1. v \in Header /\ HeaderSound(v)
    BY DEF Vaults, Inv, TypeOK, IsOpen
  <2>2. u \in Users
    BY <2>1, ActiveType DEF Slot, Hash
  <2>3. Hashed(v.slots[i])
    BY <2>1 DEF HeaderSound, SlotSound
  <2>4. i \in Matching(v, u, a) /\ a \in Algorithms \ {Legacy}
    BY <2>1, <2>3, HashMatches
  <2> HIDE DEF u, a
  <2>5. CASE a = v.policy.algo
    <3>1. ~(v.policy.migrating /\ v.slots[i].status = NotMigrated)
      BY <2>5 DEF a
    <3>2. i \in CurrentMatches(v, u)
      BY <2>4, <2>5, <3>1 DEF CurrentMatches
    <3> QED
      BY <2>1, <2>2, <3>2, SomePassFinds DEF u
  <2>6. CASE HasFallback(v.policy) /\ a = v.policy.prev
    <3>1. i \in FallbackMatches(v, u)
      BY <2>4, <2>6 DEF FallbackMatches
    <3> QED
      BY <2>1, <2>2, <3>1, SomePassFinds DEF u
  <2>7. CASE a # v.policy.algo /\ ~(HasFallback(v.policy) /\ a = v.policy.prev)
    <3>1. a \in SweepAlgorithms(v.policy)
      BY <2>4, <2>7 DEF SweepAlgorithms
    <3> QED
      BY <2>1, <2>2, <2>4, <3>1, SomePassFinds DEF u
  <2> QED
    BY <2>5, <2>6, <2>7
<1> QED
  BY <1>1, Invariance, PTL
=============================================================================
