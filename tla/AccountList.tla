--------------------------- MODULE AccountList ---------------------------
(***************************************************************************)
(* The tree of accounts beside the detail pane: a copy of the accounts     *)
(* that the logged-in user may see, the rows made of it, and the search    *)
(* text, field and tag that thin them out.  The copy is refreshed by the   *)
(* callbacks of some operations and not of others, and once from the idle  *)
(* loop, when the vault may have been closed or replaced.  A login over an *)
(* open vault changes the vault first and the list when its requirements   *)
(* are met, if they ever are.                                              *)
(*                                                                         *)
(* The rows are the accounts themselves: their order, the groups that they *)
(* are repeated under as under the favorites, and the pane are left out.   *)
(***************************************************************************)
EXTENDS Naturals, Sequences, SequencesExt, Subsequences

CONSTANTS
    Ids,            \* the identities of accounts, enough to have a fresh one
    AccountNames,   \* names of accounts, and what is searched for
    Tags,
    Fields,         \* what a search may be limited to
    NoText,         \* an empty search entry, and "All tags"
    Contents,       \* what the vaults hold that are opened
    MaxListed       \* bound on the accounts of a vault

Roles == {"admin", "standard"}
Account == [id : Ids, name : AccountNames, tags : SUBSET Tags, adminOnly : BOOLEAN, star : BOOLEAN]
ASSUME NoTextAssumption == NoText \notin AccountNames \cup Tags
ASSUME FieldsAssumption == "all" \in Fields /\ Fields \subseteq {"all", "name"}
ASSUME BoundAssumption == MaxListed \in Nat
ASSUME ContentsAssumption == \A s \in Contents :
    /\ s \in Seq(Account)
    /\ \A i, j \in DOMAIN s : i # j => s[i].id # s[j].id

VARIABLES
    session,    \* the role of the user whose vault is open, or "none"
    accounts,   \* m_vault_data's accounts
    window,     \* whether the window shows a vault: the coordinator's vault_open
    tree,       \* the widget: m_all_accounts, its filters, and its rows
    idle,       \* a refresh waits in the idle loop
    pending,    \* a login's requirements, or the creation of a vault, are not done
    stale,      \* history: the pane may hold an account of an earlier vault
    listed      \* history: the list was refreshed for the vault that is open, and
                \* no such pane was saved since without a refresh

listVars == <<session, accounts, window, tree, idle, pending, stale, listed>>

IsOpen == session # "none"
EmptyTree == [cache |-> <<>>, text |-> NoText, field |-> "all", tag |-> NoText,
              rows |-> [favorites |-> <<>>, all |-> <<>>]]

ListInit ==
    /\ session = "none" /\ accounts = <<>> /\ window = FALSE
    /\ tree = EmptyTree /\ idle = FALSE
    /\ pending = FALSE /\ stale = FALSE /\ listed = FALSE

ListedIds(list) == {list[i].id : i \in DOMAIN list}
-----------------------------------------------------------------------------
(* The widget *)

Matches(a, text, field) ==
    a.name = text \/ (field = "all" /\ text \in a.tags)

\* rebuild_rows: the favorites stand under a heading of their own, and again
\* among all accounts.
Rebuilt(t, list) ==
    [t EXCEPT !.rows = [favorites |-> AtPositions(list, {i \in DOMAIN list : list[i].star}),
                        all |-> list]]

\* set_filters: also what the search entry and the two drop-downs call.
Filtered(t, text, field, tag) ==
    Rebuilt([t EXCEPT !.text = text, !.field = field, !.tag = tag],
            AtPositions(t.cache, {i \in DOMAIN t.cache :
                /\ tag = NoText \/ tag \in t.cache[i].tags
                /\ text = NoText \/ Matches(t.cache[i], text, field)}))

\* set_data keeps the filters.
WithData(t, list) == Filtered([t EXCEPT !.cache = list], t.text, t.field, t.tag)

\* set_sort_direction makes rows of the whole copy.
Unfiltered(t) == Rebuilt(t, t.cache)
-----------------------------------------------------------------------------
(* Refreshing it *)

CanView(role, list, i) == i \in DOMAIN list /\ (role = "admin" \/ ~list[i].adminOnly)

\* The repository's list of what can be viewed ...
GetAll(role, list) == AtPositions(list, {i \in DOMAIN list : CanView(role, list, i)})

\* Mutant: the last account is left out.
Listed_ButLast(role, list) ==
    LET all == GetAll(role, list) IN IF Len(all) < 2 THEN all ELSE Front(all)
\* ... is filtered again, by the positions of what is left, which stand for
\* other accounts of the vault.
Listed(role, list) ==
    LET all == GetAll(role, list)
    IN  AtPositions(all, {i \in DOMAIN all : CanView(role, list, i)})

\* Refilling the tag drop-down selects "All tags": the filters are applied again
\* if a tag was selected, and maybe if none was.
TagsReset(t) ==
    {Filtered(t, t.text, t.field, NoText)} \cup (IF t.tag = NoText THEN {t} ELSE {})

\* update_account_list.  A closed vault has no accounts.
Refreshed(t, role, list) == WithData(t, IF role = "none" THEN <<>> ELSE Listed(role, list))
Updated(t, role, list) == TagsReset(Refreshed(t, role, list))
\* The same, and filter_accounts with what the search entry holds.
Refilled(t, role, list, text) ==
    Filtered(Refreshed(t, role, list), text, t.field, NoText)
-----------------------------------------------------------------------------
(* The window, which no dialog covers *)

Free == window /\ ~pending

Search(text) ==
    /\ Free
    /\ tree' = Filtered(tree, text, tree.field, tree.tag)
    /\ UNCHANGED <<session, accounts, window, idle, pending, stale, listed>>
FilterByField(field) ==
    /\ ~pending
    /\ tree' = Filtered(tree, tree.text, field, tree.tag)
    /\ UNCHANGED <<session, accounts, window, idle, pending, stale, listed>>
FilterByTag(tag) ==
    /\ ~pending
    /\ tree' = Filtered(tree, tree.text, tree.field, tag)
    /\ UNCHANGED <<session, accounts, window, idle, pending, stale, listed>>
Sort ==
    /\ ~pending
    /\ tree' = Unfiltered(tree)
    /\ UNCHANGED <<session, accounts, window, idle, pending, stale, listed>>

\* What a pane's save makes of the account in its place.
EditedAt(list, i, name, tags, adminOnly) ==
    [list EXCEPT ![i].name = name, ![i].tags = tags, ![i].adminOnly = adminOnly]

\* save_current_account refreshes the list only for a new name.
NewName(i) == accounts'[i].name # accounts[i].name
AfterEdit(i) == IF NewName(i) THEN Updated(tree, session, accounts') ELSE {tree}

\* What was typed into the pane, and which the user sees, is saved.  Only an
\* administrator can change who may view the account.  A pane of an earlier
\* vault goes into whatever account has its place now.
Edit(i, name, tags, adminOnly) ==
    /\ IsOpen /\ Free /\ i \in DOMAIN accounts
    /\ ~stale => CanView(session, accounts, i)
                 /\ (session = "standard" => adminOnly = accounts[i].adminOnly)
    /\ accounts' = EditedAt(accounts, i, name, tags, adminOnly)
    /\ tree' \in AfterEdit(i)
    /\ listed' = (NewName(i) \/ (listed /\ ~stale))
    /\ UNCHANGED <<session, window, idle, pending, stale>>

\* A row is clicked, and shown if the vault has its account.  (Saving what was
\* typed before is an edit of its own, as it is before an account is added.)
Select(i) ==
    /\ ~pending
    /\ i \in DOMAIN tree.rows.all /\ tree.rows.all[i].id \in ListedIds(accounts)
    /\ tree' \in TagsReset(tree)
    /\ stale' = FALSE
    /\ UNCHANGED <<session, accounts, window, idle, pending, listed>>

FreshAccount(id) == id \notin ListedIds(accounts)

\* The search entry is emptied so that the new account can be seen.
Add(id, name) ==
    /\ IsOpen /\ Free /\ Len(accounts) < MaxListed /\ FreshAccount(id)
    /\ accounts' = Append(accounts, [id |-> id, name |-> name, tags |-> {},
                                     adminOnly |-> FALSE, star |-> FALSE])
    /\ tree' = Refilled(tree, session, accounts', NoText)
    /\ listed' = TRUE
    /\ UNCHANGED <<session, window, idle, pending, stale>>

\* A deletion that is undone, or an import.
Restore(a) ==
    /\ IsOpen /\ Free /\ Len(accounts) < MaxListed /\ FreshAccount(a.id)
    /\ accounts' = Append(accounts, a)
    /\ tree' = Refilled(tree, session, accounts', tree.text)
    /\ listed' = TRUE
    /\ UNCHANGED <<session, window, idle, pending, stale>>

\* Or an addition that is undone.
Delete(i) ==
    /\ IsOpen /\ Free /\ i \in DOMAIN accounts
    /\ accounts' = RemoveAt(accounts, i)
    /\ tree' = Refilled(tree, session, accounts', tree.text)
    /\ listed' = TRUE
    /\ UNCHANGED <<session, window, idle, pending, stale>>

\* Or the undo of that, when the account need not be visible.
ToggleFavorite(i) ==
    /\ IsOpen /\ Free /\ i \in DOMAIN accounts
    /\ accounts' = [accounts EXCEPT ![i].star = ~@]
    /\ tree' \in Updated(tree, session, accounts')
    /\ listed' = TRUE
    /\ UNCHANGED <<session, window, idle, pending, stale>>

\* An account is dropped on a group, which the list shows from the idle loop.
Drop ==
    /\ IsOpen /\ ~pending /\ tree.rows.all # <<>>
    /\ idle' = TRUE
    /\ UNCHANGED <<session, accounts, window, tree, pending, stale, listed>>
Idle ==
    /\ idle
    /\ idle' = FALSE
    /\ tree' \in Updated(tree, session, accounts)
    /\ listed' = TRUE
    /\ UNCHANGED <<session, accounts, window, pending, stale>>
-----------------------------------------------------------------------------
(* The vault *)

\* open_vault_v2, also in the place of an open vault, or the creation of one: the
\* list is not told.
Login(role, list) ==
    /\ ~pending
    /\ session' = role /\ accounts' = list
    /\ pending' = TRUE /\ stale' = window /\ listed' = FALSE
    /\ UNCHANGED <<window, tree, idle>>

\* A login that fails has closed the vault that was open; the window knows nothing.
LoginFails ==
    /\ IsOpen /\ ~pending
    /\ session' = "none" /\ accounts' = <<>>
    /\ stale' = window /\ listed' = FALSE
    /\ UNCHANGED <<window, tree, idle, pending>>

\* What the save before complete_vault_opening may leave of the accounts: the pane
\* of an earlier vault goes into one of this.
PaneSaved ==
    IF ~stale THEN {accounts}
    ELSE {accounts} \cup
        {EditedAt(accounts, i, name, tags, adminOnly) :
            i \in DOMAIN accounts, name \in AccountNames, tags \in SUBSET Tags,
            adminOnly \in BOOLEAN}

\* Mutant: the list of the vault before it stays.
CompleteOpening_ListStays ==
    /\ pending /\ IsOpen
    /\ accounts' \in PaneSaved
    /\ tree' \in TagsReset(tree)
    /\ window' = TRUE /\ pending' = FALSE /\ listed' = TRUE
    /\ UNCHANGED <<session, idle, stale>>
\* on_save_vault and complete_vault_opening.
CompleteOpening ==
    /\ pending /\ IsOpen
    /\ accounts' \in PaneSaved
    /\ tree' \in Updated(tree, session, accounts')
    /\ window' = TRUE /\ pending' = FALSE /\ listed' = TRUE
    /\ UNCHANGED <<session, idle, stale>>

\* The forced change or enrollment is cancelled: the vault stays open, and the
\* window shows what it showed.
GiveUp ==
    /\ pending
    /\ pending' = FALSE
    /\ UNCHANGED <<session, accounts, window, tree, idle, stale, listed>>

\* on_close_vault, also by the timer.  The field and the tag stay selected.
OnCloseVault ==
    /\ window
    /\ session' = "none" /\ accounts' = <<>> /\ window' = FALSE
    /\ tree' = WithData([tree EXCEPT !.text = NoText], <<>>)
    /\ stale' = FALSE /\ listed' = TRUE
    /\ UNCHANGED <<idle, pending>>

ListNext ==
    \/ \E text \in AccountNames \cup Tags \cup {NoText} : Search(text)
    \/ \E field \in Fields : FilterByField(field)
    \/ \E tag \in Tags \cup {NoText} : FilterByTag(tag)
    \/ Sort \/ Drop \/ Idle
    \/ \E i \in 1..MaxListed :
        \/ \E name \in AccountNames, tags \in SUBSET Tags, adminOnly \in BOOLEAN :
                Edit(i, name, tags, adminOnly)
        \/ Select(i) \/ Delete(i) \/ ToggleFavorite(i)
    \/ \E id \in Ids, name \in AccountNames : Add(id, name)
    \/ \E list \in Contents : \E i \in DOMAIN list : Restore(list[i])
    \/ \E role \in Roles, list \in Contents : Login(role, list)
    \/ LoginFails \/ CompleteOpening \/ GiveUp \/ OnCloseVault

ListSpec == ListInit /\ [][ListNext]_listVars
-----------------------------------------------------------------------------
(* Properties *)

Rows == tree.rows.favorites \o tree.rows.all

Named(list, a) == \E i \in DOMAIN list :
    list[i].id = a.id /\ list[i].name = a.name /\ list[i].star = a.star

\* Once the list was refreshed for the vault that is open, no row shows an account
\* that the user who is logged in may not view, that was deleted or belongs to a
\* vault that was open before, or an old name or star of it: whichever operation
\* forgot to refresh the list, whatever was searched for and sorted since, and
\* whenever the idle loop came to it.  (Not said of a login over an open vault while
\* its requirements are not met, or after they were refused, when the old rows stay;
\* nor of a pane of an earlier vault whose save hides an account from its user and
\* refreshes nothing.)
RowsAreOfTheVault ==
    IsOpen /\ listed => \A i \in DOMAIN Rows : \E j \in DOMAIN accounts :
        Named(<<accounts[j]>>, Rows[i]) /\ CanView(session, accounts, j)

\* In that list, without filters, an administrator, or anyone in a vault without
\* admin-only accounts, finds every account once, and every favorite among the
\* favorites.
EverythingIsListed ==
    IsOpen /\ listed /\ tree.text = NoText /\ tree.tag = NoText
        /\ (session = "admin" \/ \A i \in DOMAIN accounts : ~accounts[i].adminOnly)
    => /\ Len(tree.rows.all) = Len(accounts)
       /\ \A i \in DOMAIN accounts : Named(tree.rows.all, accounts[i])
       /\ \A i \in DOMAIN accounts :
            accounts[i].star <=> Named(tree.rows.favorites, accounts[i])
=============================================================================
