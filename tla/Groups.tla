----------------------------- MODULE Groups -----------------------------
(***************************************************************************)
(* The groups of a vault and the accounts' memberships in them.            *)
(* Operations on groups save at once and roll back when the save fails;    *)
(* edits of the accounts do not save.  The undo history holds copies of    *)
(* deleted accounts, and a dialog that was opened for a group is answered  *)
(* later, maybe when the vault was closed and opened again meanwhile.      *)
(*                                                                         *)
(* All of it runs on the main thread, so each operation is one action; a   *)
(* save is atomic here, which is what VaultStore shows of it.              *)
(***************************************************************************)
EXTENDS Integers, Sequences, SequencesExt, Subsequences

CONSTANTS
    GroupIds,       \* enough UUIDs to have a fresh one
    Names,          \* group names that is_valid_group_name accepts
    Favorites,      \* one of them, "Favorites"
    NoGroup,        \* no id: no dialog is open, no group is excepted
    MaxOrder,       \* bound on the orders asked for
    MaxAccounts,    \* bound on the accounts, with the one that undo brings back
    MaxGroups       \* bound on the groups

ASSUME NamesAssumption == Favorites \in Names /\ NoGroup \notin GroupIds
ASSUME BoundsAssumption == MaxOrder \in Nat /\ MaxAccounts \in Nat /\ MaxGroups \in Nat

\* A vault is [groups, accounts], a group [id, name, system, order], an account
\* [member], a sequence of memberships [group, order].  The order -1 is automatic.
VARIABLES
    open,       \* m_vault_open
    data,       \* m_vault_data
    modified,   \* m_modified
    file,       \* what the vault file holds
    kept,       \* the deleted accounts that the undo history can bring back
    asked       \* the group that a dialog was opened for, or NoGroup

vars == <<open, data, modified, file, kept, asked>>

\* Dialogs are modal.
Ready == open /\ asked = NoGroup

Nothing == [groups |-> <<>>, accounts |-> <<>>]

Init ==
    /\ open = FALSE /\ data = Nothing /\ modified = FALSE
    /\ file = Nothing
    /\ kept = <<>> /\ asked = NoGroup

IdsOf(list) == {list[i].id : i \in 1..Len(list)}
GroupsOf(account) == {account.member[i].group : i \in 1..Len(account.member)}
Referred(accounts) == UNION {GroupsOf(accounts[i]) : i \in 1..Len(accounts)}

\* generate_uuid: an id that nothing has or refers to.
Fresh(id) ==
    /\ id \notin IdsOf(data.groups) \cup IdsOf(file.groups)
    /\ id \notin Referred(data.accounts) \cup Referred(file.accounts) \cup Referred(kept)
    /\ id # asked

\* Mutant: only the newest group is compared.
NameTaken_Newest(d, name, except) ==
    \E i \in {Len(d.groups)} \ {0} : d.groups[i].name = name /\ d.groups[i].id # except

NameTaken(d, name, except) ==
    \E i \in 1..Len(d.groups) : d.groups[i].name = name /\ d.groups[i].id # except

-----------------------------------------------------------------------------
(* GroupManager, on the vault's data *)

WithGroup(d, id, name, system, order) ==
    [d EXCEPT !.groups =
        Append(@, [id |-> id, name |-> name, system |-> system, order |-> order])]

\* The groups but one, and the account without its memberships in that one.
OtherGroups(groups, id) == AtPositions(groups, {i \in 1..Len(groups) : groups[i].id # id})
Outside(account, id) ==
    LET stays == {j \in 1..Len(account.member) : account.member[j].group # id}
    IN  [account EXCEPT !.member = AtPositions(@, stays)]

\* Mutant: the memberships stay.
WithoutGroup_Alone(d, id) == [d EXCEPT !.groups = OtherGroups(@, id)]
WithoutGroup(d, id) ==
    [groups   |-> OtherGroups(d.groups, id),
     accounts |-> [i \in 1..Len(d.accounts) |-> Outside(d.accounts[i], id)]]

IsUserGroup(d, id) ==
    \E i \in 1..Len(d.groups) : d.groups[i].id = id /\ ~d.groups[i].system

Renamed(d, id, name) ==
    [d EXCEPT !.groups = [i \in 1..Len(@) |->
        IF @[i].id = id THEN [@[i] EXCEPT !.name = name] ELSE @[i]]]

GroupReordered(d, id, order) ==
    [d EXCEPT !.groups = [i \in 1..Len(@) |->
        IF @[i].id = id THEN [@[i] EXCEPT !.order = order] ELSE @[i]]]

Joined(d, i, id) ==
    IF id \in GroupsOf(d.accounts[i]) THEN d
    ELSE [d EXCEPT !.accounts[i].member = Append(@, [group |-> id, order |-> -1])]

\* The last of the memberships in the group goes.
Left(d, i, id) ==
    IF id \notin GroupsOf(d.accounts[i]) THEN d
    ELSE [d EXCEPT !.accounts[i].member =
            RemoveAt(@, CHOOSE j \in 1..Len(@) : @[j].group = id
                            /\ \A k \in (j + 1)..Len(@) : @[k].group # id)]

\* The first of the memberships in the group gets the order.
MemberReordered(d, i, id, order) ==
    [d EXCEPT !.accounts[i].member = [j \in 1..Len(@) |->
        IF @[j].group = id /\ \A k \in 1..(j - 1) : @[k].group # id
        THEN [@[j] EXCEPT !.order = order] ELSE @[j]]]

-----------------------------------------------------------------------------
(* VaultManager: each operation saves, and most roll back what is not saved *)

Saved(d) == data' = d /\ file' = d /\ modified' = FALSE

\* Mutant: the flag is restored, the data is not.
OrRolledBack_FlagOnly(d) ==
    Saved(d) \/ (data' = d /\ UNCHANGED <<file, modified>>)
\* The snapshot that is restored is the whole of the data.
OrRolledBack(d) == Saved(d) \/ UNCHANGED <<data, file, modified>>

\* What is not saved stays, marked.
OrKept(d) == Saved(d) \/ (data' = d /\ modified' = TRUE /\ UNCHANGED file)

Indices == 1..Len(data.accounts)

\* create_group rolls back by deleting the group.
CreateGroup(id, name) ==
    /\ Ready /\ Len(data.groups) < MaxGroups
    /\ Fresh(id) /\ ~NameTaken(data, name, NoGroup)
    /\ LET new == WithGroup(data, id, name, FALSE, Len(data.groups))
       IN  \/ Saved(new)
           \/ data' = WithoutGroup(new, id) /\ UNCHANGED <<file, modified>>
    /\ UNCHANGED <<open, kept, asked>>

\* The menu of a group's row opens a dialog that renames or deletes the group.
Ask(id) ==
    /\ Ready
    /\ id \in IdsOf(data.groups)
    /\ asked' = id
    /\ UNCHANGED <<open, data, modified, file, kept>>

Cancel ==
    /\ asked # NoGroup
    /\ asked' = NoGroup
    /\ UNCHANGED <<open, data, modified, file, kept>>

DeleteGroup ==
    /\ asked # NoGroup
    /\ asked' = NoGroup
    /\ IF open /\ IsUserGroup(data, asked)
       THEN OrRolledBack(WithoutGroup(data, asked))
       ELSE UNCHANGED <<data, file, modified>>
    /\ UNCHANGED <<open, kept>>

RenameGroup(name) ==
    /\ asked # NoGroup
    /\ asked' = NoGroup
    /\ IF open /\ IsUserGroup(data, asked) /\ ~NameTaken(data, name, asked)
       THEN OrRolledBack(Renamed(data, asked, name))
       ELSE UNCHANGED <<data, file, modified>>
    /\ UNCHANGED <<open, kept>>

ReorderGroup(id, order) ==
    /\ Ready /\ IsUserGroup(data, id)
    /\ OrRolledBack(GroupReordered(data, id, order))
    /\ UNCHANGED <<open, kept, asked>>

\* From a menu, or by dropping the account on a row of the group.
AddToGroup(i, id) ==
    /\ Ready /\ i \in Indices /\ id \in IdsOf(data.groups)
    /\ OrRolledBack(Joined(data, i, id))
    /\ UNCHANGED <<open, kept, asked>>

\* The group need not exist.
RemoveFromGroup(i, id) ==
    /\ Ready /\ i \in Indices
    /\ OrRolledBack(Left(data, i, id))
    /\ UNCHANGED <<open, kept, asked>>

ReorderInGroup(i, id, order) ==
    /\ Ready /\ i \in Indices
    /\ id \in IdsOf(data.groups) \cap GroupsOf(data.accounts[i])
    /\ OrRolledBack(MemberReordered(data, i, id, order))
    /\ UNCHANGED <<open, kept, asked>>

IsFavorites(g) == g.system /\ g.name = Favorites
HasFavorites(d) == \E i \in 1..Len(d.groups) : IsFavorites(d.groups[i])

\* get_favorites_group_id creates the group, whatever names there are, and
\* saves whatever is modified.
GetFavorites(id) ==
    /\ Ready
    /\ IF HasFavorites(data)
       THEN IF modified THEN OrKept(data) ELSE UNCHANGED <<data, file, modified>>
       ELSE /\ Fresh(id) /\ Len(data.groups) < MaxGroups
            /\ OrKept(WithGroup(data, id, Favorites, TRUE, 0))
    /\ UNCHANGED <<open, kept, asked>>

-----------------------------------------------------------------------------
(* The accounts, the undo history, and the vault *)

AddAccount ==
    /\ Ready /\ Len(data.accounts) + Len(kept) < MaxAccounts
    /\ data' = [data EXCEPT !.accounts = Append(@, [member |-> <<>>])]
    /\ modified' = TRUE
    /\ UNCHANGED <<open, file, kept, asked>>

DeleteAccount(i) ==
    /\ Ready /\ i \in Indices
    /\ data' = [data EXCEPT !.accounts = RemoveAt(@, i)]
    /\ kept' = <<data.accounts[i]>>
    /\ modified' = TRUE
    /\ UNCHANGED <<open, file, asked>>

\* The copy comes back with the memberships it had.
Undelete ==
    /\ Ready /\ kept # <<>> /\ Len(data.accounts) < MaxAccounts
    /\ data' = [data EXCEPT !.accounts = Append(@, Last(kept))]
    /\ kept' = Front(kept)
    /\ modified' = TRUE
    /\ UNCHANGED <<open, file, asked>>

Save ==
    /\ Ready
    /\ OrKept(data)
    /\ UNCHANGED <<open, kept, asked>>

\* Any vault that is opened is marked.
Open ==
    /\ ~open
    /\ open' = TRUE /\ data' = file /\ modified' = TRUE
    /\ UNCHANGED <<file, kept, asked>>

\* The vault is closed, or locked under a dialog.
Close ==
    /\ open
    /\ open' = FALSE /\ data' = Nothing /\ modified' = FALSE /\ kept' = <<>>
    /\ UNCHANGED <<file, asked>>

GroupStep ==
    \/ \E id \in GroupIds :
        \/ \E name \in Names : CreateGroup(id, name)
        \/ \E order \in 0..MaxOrder : ReorderGroup(id, order)
        \/ \E i \in 1..MaxAccounts :
            \/ AddToGroup(i, id) \/ RemoveFromGroup(i, id)
            \/ \E order \in 0..MaxOrder : ReorderInGroup(i, id, order)
    \/ DeleteGroup
    \/ \E name \in Names : RenameGroup(name)

Next ==
    \/ GroupStep
    \/ \E id \in GroupIds :
        \/ Ask(id) \/ GetFavorites(id)
    \/ Cancel
    \/ AddAccount \/ Undelete \/ Save \/ Open \/ Close
    \/ \E i \in 1..MaxAccounts : DeleteAccount(i)

Spec == Init /\ [][Next]_vars

-----------------------------------------------------------------------------
(* Properties *)

Distinct(d, field(_)) ==
    \A i, j \in 1..Len(d.groups) :
        i # j => field(d.groups[i]) # field(d.groups[j])

\* No two groups that users made share a name, there is at most one group of
\* favorites, and an id names one group, in the vault and in its file: whatever
\* was renamed, rolled back, deleted, or answered after the vault was reopened.
\* (A user's own "Favorites" may stand beside the system's.)
GroupsAreDistinct ==
    \A d \in {data, file} :
        /\ Distinct(d, LAMBDA g : g.id)
        /\ Distinct(d, LAMBDA g : <<g.name, g.system>>)

Dangling(d) == Referred(d.accounts) \ IdsOf(d.groups)

\* No operation leaves an account in a group that is gone, except the undo of a
\* deletion, or the redo of an undone addition, that brings back an account with
\* the group it was in, which was deleted since.
OnlyUndoDangles ==
    [][ open /\ open' => Dangling(data') \subseteq Dangling(data) \/ Undelete ]_vars

\* An operation on groups is either done and saved, or has changed nothing at
\* all, neither groups, memberships, orders nor the flag: what it rolls back
\* is exactly what it did, whatever else was not saved yet.
AllOrNothing ==
    [][ file' = data' \/ UNCHANGED <<data, file, modified>> \/ ~GroupStep ]_vars
=============================================================================
