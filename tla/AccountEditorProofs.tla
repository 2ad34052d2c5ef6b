------------------------ MODULE AccountEditorProofs -----------------------
(***************************************************************************)
(* Proofs about AccountEditor, for all vaults, accounts, texts and limits: *)
(* the types, that the pane shows the selected account, that pending edits *)
(* stay with the account they were typed over, that the history always     *)
(* applies, and that undo keeps what it removes.  Types and pane are       *)
(* inductive together: a selected index has to be one of the list for the  *)
(* pane to be able to show it.  Of the history the invariant says through  *)
(* which lengths of the list it leads, down to a list that can be: a       *)
(* command refers to nothing else of the list that it is applied to.       *)
(* A vault opened over an open one brings another list under the pane and  *)
(* the history: what the properties leave out of it, oldPane and           *)
(* oldHistory say, and the types hold of it too.                           *)
(***************************************************************************)
EXTENDS AccountEditor, SequenceTheorems, WellFoundedInduction, TLAPS

Inv == TypeOK /\ PaneShowsSelection

USE VaultsAssumption, AccountsAssumption, BoundsAssumption
USE DEF vaultVars, paneVars, historyVars
-----------------------------------------------------------------------------
(* Lists *)

\* Removing an element of a sequence.
LEMMA RemoveType ==
    ASSUME NEW S, NEW s \in Seq(S), NEW i \in 1..Len(s)
    PROVE  RemoveAt(s, i) \in Seq(S) /\ Len(RemoveAt(s, i)) = Len(s) - 1
<1>1. /\ SubSeq(s, 1, i - 1) \in Seq(S)
      /\ Len(SubSeq(s, 1, i - 1)) = (IF 1 <= i - 1 THEN (i - 1) - 1 + 1 ELSE 0)
  <2>1. \A j \in 1..i - 1 : s[j] \in S
    OBVIOUS
  <2> QED
    BY <2>1, SubSeqProperties
<1>2. /\ SubSeq(s, i + 1, Len(s)) \in Seq(S)
      /\ Len(SubSeq(s, i + 1, Len(s))) = (IF i + 1 <= Len(s) THEN Len(s) - (i + 1) + 1 ELSE 0)
  <2>1. \A j \in i + 1..Len(s) : s[j] \in S
    OBVIOUS
  <2> QED
    BY <2>1, SubSeqProperties
<1>3. \A u, v \in Seq(S) : u \o v \in Seq(S) /\ Len(u \o v) = Len(u) + Len(v)
  OBVIOUS
<1>4. Len(SubSeq(s, 1, i - 1)) + Len(SubSeq(s, i + 1, Len(s))) = Len(s) - 1
  <2>1. \A n \in Nat : \A j \in 1..n :
            (IF 1 <= j - 1 THEN (j - 1) - 1 + 1 ELSE 0)
                + (IF j + 1 <= n THEN n - (j + 1) + 1 ELSE 0) = n - 1
    OBVIOUS
  <2>2. Len(s) \in Nat
    OBVIOUS
  <2> QED
    BY <1>1, <1>2, <2>1, <2>2, Zenon
<1> QED
  BY <1>1, <1>2, <1>3, <1>4 DEF RemoveAt

\* The last element of a sequence and what is before it.
LEMMA EndTypes ==
    ASSUME NEW S, NEW s \in Seq(S), s # <<>>
    PROVE  Last(s) \in S /\ Front(s) \in Seq(S) /\ Len(Front(s)) = Len(s) - 1
<1>1. \A j \in 1..Len(s) - 1 : s[j] \in S
  OBVIOUS
<1>2. /\ SubSeq(s, 1, Len(s) - 1) \in Seq(S)
      /\ Len(SubSeq(s, 1, Len(s) - 1)) = (IF 1 <= Len(s) - 1 THEN (Len(s) - 1) - 1 + 1 ELSE 0)
  BY <1>1, SubSeqProperties
<1>3. Len(s) \in Nat \ {0}
  OBVIOUS
<1>4. Last(s) \in S
  BY <1>3 DEF Last
<1>5. Len(Front(s)) = Len(s) - 1
  <2>1. \A n \in Nat \ {0} : (IF 1 <= n - 1 THEN (n - 1) - 1 + 1 ELSE 0) = n - 1
    OBVIOUS
  <2> QED
    BY <1>2, <1>3, <2>1, Zenon DEF Front
<1> QED
  BY <1>2, <1>4, <1>5 DEF Front

\* A history cut to its limit is one of commands still.
LEMMA TrimmedType ==
    ASSUME NEW S, NEW s \in Seq(S), NEW n \in Nat
    PROVE  Trimmed(s, n) \in Seq(S) /\ (s = <<>> => Trimmed(s, n) = <<>>)
<1>1. CASE Len(s) > n
  <2>1. \A j \in Len(s) - n + 1..Len(s) : s[j] \in S
    BY <1>1
  <2>2. Newest(s, n) \in Seq(S)
    BY <2>1, SubSeqProperties DEF Newest
  <2> QED
    BY <1>1, <2>2 DEF Trimmed
<1>2. CASE ~(Len(s) > n)
  BY <1>2 DEF Trimmed
<1> QED
  BY <1>1, <1>2

\* The first account with an id is one of the list, if any has the id.
LEMMA FirstWithType ==
    ASSUME NEW list \in Seq(Account), NEW id
    PROVE  /\ FirstWith(list, id) \in 0..Len(list)
           /\ (\E i \in 1..Len(list) : list[i].id = id) => FirstWith(list, id) # 0
<1>1. CASE \E i \in 1..Len(list) : list[i].id = id
  <2> DEFINE T == {i \in 1..Len(list) : list[i].id = id}
  <2>1. T \subseteq Nat /\ T # {}
    BY <1>1
  <2>2. PICK x \in T : \A y \in T : ~(<<y, x>> \in OpToRel(<, Nat))
    BY <2>1, NatLessThanWellFounded, WFMin
  <2>3. ASSUME NEW j \in 1..(x - 1), list[j].id = id PROVE FALSE
    <3>1. j \in T /\ j < x /\ j \in Nat /\ x \in Nat
      BY <2>1, <2>3
    <3>2. <<j, x>> \in OpToRel(<, Nat)
      BY <3>1 DEF OpToRel
    <3> QED
      BY <2>2, <3>1, <3>2
  <2> QED
    BY <1>1, <2>3 DEF FirstWith
<1>2. CASE ~ \E i \in 1..Len(list) : list[i].id = id
  BY <1>2 DEF FirstWith
<1> QED
  BY <1>1, <1>2

\* Saving the pane writes its text, which is then what both show.
LEMMA EditedType ==
    ASSUME Inv
    PROVE  /\ Edited(accounts) \in Seq(Account) /\ Len(Edited(accounts)) = Len(accounts)
           /\ \A i \in 1..Len(accounts) : Edited(accounts)[i].id = accounts[i].id
           /\ SavedPane(accounts) \in Pane
           /\ SavedPane(accounts).edited => pane.edited
           /\ selected # 0 /\ ~oldPane => \/ SavedPane(accounts).edited
                                          \/ SavedPane(accounts).text = Edited(accounts)[selected].text
<1>1. /\ accounts \in Seq(Account) /\ selected \in Nat /\ pane \in Pane
      /\ selected # 0 /\ ~oldPane => pane.edited \/ pane.text = accounts[selected].text
  BY DEF Inv, TypeOK, PaneShowsSelection
<1>2. CASE EditsTaken(accounts)
  <2>1. /\ selected \in 1..Len(accounts) /\ pane.text \in Texts \cup {NewText}
        /\ accounts[selected] \in Account
    BY <1>1, <1>2 DEF EditsTaken, Pane
  <2> DEFINE new == [accounts[selected] EXCEPT !.text = pane.text]
  <2>2. new \in Account /\ new.text = pane.text /\ new.id = accounts[selected].id
    BY <2>1 DEF Account
  <2>3. Edited(accounts) = [accounts EXCEPT ![selected] = new]
    BY <1>1, <1>2, <2>1 DEF Edited
  <2> HIDE DEF new
  <2>4. /\ Edited(accounts) \in Seq(Account) /\ Len(Edited(accounts)) = Len(accounts)
        /\ Edited(accounts)[selected] = new
        /\ \A i \in 1..Len(accounts) : i # selected => Edited(accounts)[i] = accounts[i]
    BY <1>1, <2>1, <2>2, <2>3
  <2>5. SavedPane(accounts) = [pane EXCEPT !.edited = FALSE]
    BY <1>2 DEF SavedPane
  <2>6. /\ SavedPane(accounts) \in Pane /\ ~SavedPane(accounts).edited
        /\ SavedPane(accounts).text = pane.text
    BY <1>1, <2>5 DEF Pane
  <2> QED
    BY <2>1, <2>2, <2>4, <2>6
<1>3. CASE ~EditsTaken(accounts)
  BY <1>1, <1>3 DEF Edited, SavedPane
<1> QED
  BY <1>2, <1>3

-----------------------------------------------------------------------------
(* Commands *)

\* What was typed stays on its account.
Stays == selected # 0 /\ pane.edited /\ pane'.edited /\ ~oldPane' =>
    /\ selected' = selected /\ vault' = vault
    /\ accounts'[selected].id = accounts[selected].id

\* What the commands make of the list.
LEMMA ListTypes ==
    ASSUME Inv, NEW c \in Command
    PROVE  /\ Added(c) \in Seq(Account) /\ Toggled(c) = accounts
           /\ c.index \in 1..Len(accounts) => Removed(c) \in Seq(Account)
<1>1. accounts \in Seq(Account) /\ c.account \in Account
  BY DEF Inv, TypeOK, Command
<1>2. c.index \in 1..Len(accounts) => Removed(c) \in Seq(Account)
  BY <1>1, RemoveType DEF Removed
<1> QED
  BY <1>1, <1>2 DEF Added, Toggled

\* What the window shows after a command, done, undone or redone.
LEMMA ShownStep ==
    ASSUME Inv, NEW c \in Command, Shown(c), accounts' \in Seq(Account), vault' = vault,
           c.kind = "toggle" => accounts' = accounts
    PROVE  /\ selected' \in Nat /\ pane' \in Pane /\ oldPane' \in BOOLEAN
           /\ PaneShowsSelection' /\ Stays
<1>1. selected \in Nat /\ pane \in Pane /\ oldPane \in BOOLEAN /\ PaneShowsSelection
  BY DEF Inv, TypeOK
<1>2. CASE c.kind = "toggle"
  BY <1>1, <1>2 DEF Shown, PaneShowsSelection, Stays
<1>3. CASE ClearDetails
  BY <1>3 DEF ClearDetails, EmptyPane, Pane, PaneShowsSelection, Stays
<1>4. CASE /\ FirstWith(accounts', c.account.id) # 0
           /\ Display(FirstWith(accounts', c.account.id))
  <2>1. FirstWith(accounts', c.account.id) \in 1..Len(accounts')
    BY <1>4, FirstWithType
  <2>2. /\ selected' \in 1..Len(accounts') /\ oldPane' = FALSE
        /\ pane' = [text |-> accounts'[selected'].text, edited |-> FALSE]
    BY <1>4, <2>1 DEF Display
  <2>3. accounts'[selected'] \in Account
    BY <2>2
  <2>4. accounts'[selected'].text \in Texts \cup {NewText}
    BY <2>3 DEF Account
  <2>5. pane' \in Pane /\ ~pane'.edited /\ pane'.text = accounts'[selected'].text
    BY <2>2, <2>4 DEF Pane
  <2>6. PaneShowsSelection' /\ Stays
    BY <2>2, <2>5 DEF PaneShowsSelection, Stays
  <2>7. selected' \in Nat
    BY <2>2
  <2>8. oldPane' \in BOOLEAN
    BY <2>2, Zenon
  <2> QED
    BY <2>5, <2>6, <2>7, <2>8, Zenon
<1> QED
  BY <1>2, <1>3, <1>4 DEF Shown

\* What a command leaves behind.
Commanded ==
    /\ accounts' \in Seq(Account) /\ modified' \in BOOLEAN
    /\ selected' \in Nat /\ pane' \in Pane /\ oldPane' \in BOOLEAN
    /\ undo' \in Seq(Command) /\ redo' \in Seq(Command) /\ offered' \in BOOLEAN
    /\ oldHistory' \in BOOLEAN
    /\ PaneShowsSelection' /\ Stays

\* The list that executing or undoing a command leaves.
LEMMA CommandStep ==
    ASSUME Inv, NEW c \in Command,
           \/ Executes(c) /\ accounts' = Executed(c)
           \/ Reverts(c) /\ accounts' = Reverted(c)
    PROVE  /\ accounts' \in Seq(Account)
           /\ c.kind = "toggle" => accounts' = accounts
<1>1. c.kind \in {"add", "delete", "toggle"}
  BY DEF Command
<1>2. CASE c.kind = "add"
  BY <1>2, ListTypes DEF Executed, Reverts, Reverted
<1>3. CASE c.kind = "delete"
  BY <1>3, ListTypes DEF Executes, Executed, Reverted
<1>4. CASE c.kind = "toggle"
  <2>1. accounts' = accounts
    BY <1>4, ListTypes DEF Executed, Reverted
  <2> QED
    BY <2>1 DEF Inv, TypeOK
<1> QED
  BY <1>1, <1>2, <1>3, <1>4

\* A command the window made goes on the undo stack.
LEMMA RecordedStep ==
    ASSUME Inv, NEW c \in Command, vault' = vault, Recorded(c),
           accounts' \in Seq(Account), c.kind = "toggle" => accounts' = accounts
    PROVE  Commanded
<1>1. /\ selected' \in Nat /\ pane' \in Pane /\ oldPane' \in BOOLEAN
      /\ PaneShowsSelection' /\ Stays
  BY ShownStep DEF Recorded
<1>2. /\ undo \in Seq(Command) /\ redo \in Seq(Command) /\ Len(accounts) \in Nat
      /\ offered \in BOOLEAN /\ oldHistory \in BOOLEAN
  BY DEF Inv, TypeOK
<1>3. AfterExecute(c) \in Command
  <2>1. Len(accounts) \in Nat
    BY <1>2
  <2> QED
    BY <2>1 DEF AfterExecute, Command
<1>4. Pushed(undo, AfterExecute(c)) \in Seq(Command)
  BY <1>2, <1>3 DEF Pushed
<1>5. undo' \in Seq(Command) /\ redo' \in Seq(Command) /\ offered' \in BOOLEAN
  <2>1. <<>> \in Seq(Command)
    OBVIOUS
  <2> QED
    BY <1>2, <1>4, <2>1 DEF Recorded
<1>6. modified' \in BOOLEAN
  BY DEF Recorded, Marked, Inv, TypeOK
<1>7. oldHistory' = oldHistory
  BY DEF Recorded
<1> QED
  BY <1>1, <1>2, <1>5, <1>6, <1>7, Zenon DEF Commanded

\* Executing one.
LEMMA ExecuteStep ==
    ASSUME Inv, NEW c \in Command, vault' = vault, Execute(c)
    PROVE  Commanded
BY CommandStep, RecordedStep DEF Execute

\* A command given to an open vault.
LEMMA GivenStep ==
    ASSUME Inv, Commanded, IsOpen, UNCHANGED <<vault, stored, prefs, closing, window, pending>>,
           asking' \in Nat, clock' \in Nat
    PROVE  Inv' /\ Stays
BY DEF Inv, TypeOK, Commanded, IsOpen

\* The commands that the window makes.
LEMMA CommandTypes ==
    ASSUME Inv
    PROVE  /\ \A id \in Nat : Addition(id) \in Command
           /\ \A i \in 1..Len(accounts) : Deletion(i) \in Command
           /\ \A i \in Nat : Toggling(i) \in Command
<1>1. accounts \in Seq(Account)
  BY DEF Inv, TypeOK
<1>2. \A id \in Nat : [Blank EXCEPT !.id = id] \in Account
  BY DEF Blank, Account
<1>3. Blank \in Account
  BY DEF Blank, Account
<1> QED
  BY <1>1, <1>2, <1>3 DEF Addition, Deletion, Toggling, Command

\* The three commands of the window.
LEMMA GivenSteps ==
    ASSUME Inv, Add \/ Delete \/ (\E i \in 1..MaxAccounts : ToggleFavorite(i))
    PROVE  Inv' /\ Stays
<1>1. CASE Add
  <2>1. clock' \in Nat
    BY <1>1 DEF Add, Inv, TypeOK
  <2> DEFINE c == Addition(clock')
  <2>2. c \in Command /\ c.kind = "add" /\ c.account \in Account
    BY <2>1, CommandTypes DEF Addition, Command
  <2> HIDE DEF c
  <2>3. accounts' \in Seq(Account)
    <3>1. accounts' = Append(Edited(accounts), c.account)
      BY <1>1 DEF Add, c
    <3> QED
      BY <2>2, <3>1, EditedType
  <2>4. Commanded
    BY <1>1, <2>2, <2>3, RecordedStep DEF Add, c
  <2> QED
    BY <1>1, <2>1, <2>4, GivenStep DEF Add, Inv, TypeOK
<1>2. CASE Delete /\ IsOpen /\ asking <= Len(accounts)
  <2>1. Deletion(asking) \in Command
    BY <1>2, CommandTypes DEF Delete, Inv, TypeOK
  <2>2. Commanded
    BY <1>2, <2>1, ExecuteStep DEF Delete
  <2> QED
    BY <1>2, <2>2, GivenStep DEF Delete, Inv, TypeOK
<1>3. CASE Delete /\ ~(IsOpen /\ asking <= Len(accounts))
  BY <1>3 DEF Delete, Inv, TypeOK, PaneShowsSelection, IsOpen, Stays
<1>4. CASE \E i \in 1..MaxAccounts : ToggleFavorite(i)
  <2>1. PICK i \in 1..MaxAccounts : ToggleFavorite(i)
    BY <1>4
  <2>2. FirstWith(accounts, accounts[i].id) \in Nat
    BY FirstWithType DEF Inv, TypeOK
  <2>3. Commanded
    BY <2>1, <2>2, CommandTypes, ExecuteStep DEF ToggleFavorite
  <2> QED
    BY <2>1, <2>3, GivenStep DEF ToggleFavorite, Execute, Inv, TypeOK
<1> QED
  BY <1>1, <1>2, <1>3, <1>4

\* Undoing the last command, which goes on the redo stack.
LEMMA UndoStep == ASSUME Inv, Undo PROVE Inv' /\ Stays
<1>1. undo \in Seq(Command) /\ undo # <<>> /\ redo \in Seq(Command)
  BY DEF Undo, Inv, TypeOK
<1>2. Last(undo) \in Command /\ Front(undo) \in Seq(Command)
  BY <1>1, EndTypes
<1>3. AfterRevert(Last(undo)) \in Command
  <2>1. CASE Last(undo).kind = "add"
    <3>1. accounts[Last(undo).index] \in Account
      BY <2>1 DEF Undo, Reverts, Inv, TypeOK
    <3> QED
      BY <1>2, <3>1 DEF AfterRevert, Command
  <2> QED
    BY <1>2, <2>1 DEF AfterRevert
<1>4. /\ accounts' \in Seq(Account) /\ modified' \in BOOLEAN
      /\ selected' \in Nat /\ pane' \in Pane /\ oldPane' \in BOOLEAN
      /\ PaneShowsSelection' /\ Stays
  <2>1. accounts' \in Seq(Account) /\ (Last(undo).kind = "toggle" => accounts' = accounts)
    BY <1>2, CommandStep DEF Undo
  <2>2. modified' \in BOOLEAN
    BY DEF Undo, Marked, Inv, TypeOK
  <2> QED
    BY <1>2, <2>1, <2>2, ShownStep DEF Undo
<1>5. undo' \in Seq(Command) /\ redo' \in Seq(Command)
  BY <1>1, <1>2, <1>3 DEF Undo
<1>6. Commanded
  BY <1>4, <1>5 DEF Undo, Commanded, Inv, TypeOK
<1> QED
  BY <1>6, GivenStep DEF Undo, Inv, TypeOK

\* Doing the last undone command again.
LEMMA RedoStep == ASSUME Inv, Redo PROVE Inv' /\ Stays
<1>1. undo \in Seq(Command) /\ redo # <<>> /\ redo \in Seq(Command)
  BY DEF Redo, Inv, TypeOK
<1>2. Last(redo) \in Command /\ Front(redo) \in Seq(Command)
  BY <1>1, EndTypes
<1>3. AfterExecute(Last(redo)) \in Command
  <2>1. Len(accounts) \in Nat
    BY DEF Inv, TypeOK
  <2> QED
    BY <1>2, <2>1 DEF AfterExecute, Command
<1>4. /\ accounts' \in Seq(Account) /\ modified' \in BOOLEAN
      /\ selected' \in Nat /\ pane' \in Pane /\ oldPane' \in BOOLEAN
      /\ PaneShowsSelection' /\ Stays
  <2>1. accounts' \in Seq(Account) /\ (Last(redo).kind = "toggle" => accounts' = accounts)
    BY <1>2, CommandStep DEF Redo
  <2>2. modified' \in BOOLEAN
    BY DEF Redo, Marked, Inv, TypeOK
  <2> QED
    BY <1>2, <2>1, <2>2, ShownStep DEF Redo
<1>5. undo' \in Seq(Command) /\ redo' \in Seq(Command)
  BY <1>1, <1>2, <1>3 DEF Redo
<1>6. Commanded
  BY <1>4, <1>5 DEF Redo, Commanded, Inv, TypeOK
<1> QED
  BY <1>6, GivenStep DEF Redo, Inv, TypeOK

-----------------------------------------------------------------------------
(* Everything else *)

\* Typing into the pane, also what a save will refuse.
LEMMA TypeStep ==
    ASSUME Inv, NEW text \in Texts \cup {Refused}, Type(text)
    PROVE  Inv' /\ Stays
<1>1. pane' \in Pane /\ pane'.edited
  BY DEF Type, Pane
<1> QED
  BY <1>1 DEF Type, Inv, TypeOK, PaneShowsSelection, IsOpen, Stays

\* Selecting an account saves the pane of the one before it.
LEMMA SelectStep ==
    ASSUME Inv, NEW i \in 1..MaxAccounts, Select(i)
    PROVE  Inv' /\ Stays
<1>1. /\ accounts \in Seq(Account) /\ i \in 1..Len(accounts) /\ IsOpen
      /\ accounts' \in Seq(Account) /\ Len(accounts') = Len(accounts)
  BY EditedType DEF Select, Inv, TypeOK
<1>2. FirstWith(accounts, accounts[i].id) \in 1..Len(accounts')
  BY <1>1, FirstWithType
<1>3. /\ selected' \in 1..Len(accounts') /\ oldPane' = FALSE
      /\ pane' = [text |-> accounts'[selected'].text, edited |-> FALSE]
  BY <1>2 DEF Select, Display
<1>4. accounts'[selected'].text \in Texts \cup {NewText}
  <2>1. accounts'[selected'] \in Account
    BY <1>1, <1>3
  <2> QED
    BY <2>1 DEF Account
<1>5. pane' \in Pane /\ PaneShowsSelection' /\ Stays
  BY <1>3, <1>4 DEF Pane, PaneShowsSelection, Stays
<1>6. modified' \in BOOLEAN
  BY DEF Select, EditsTaken, Inv, TypeOK
<1>7. TypeOK'
  <2>1. selected' \in Nat
    BY <1>1, <1>3
  <2>2. oldPane' \in BOOLEAN
    BY <1>3, Zenon
  <2> QED
    BY <1>1, <1>5, <1>6, <2>1, <2>2 DEF Select, Inv, TypeOK, IsOpen
<1> QED
  BY <1>5, <1>7 DEF Inv

\* Questions asked and declined, and requirements refused.
LEMMA AskStep ==
    ASSUME Inv, (\E i \in 1..MaxAccounts : AskDelete(i)) \/ DoNotDelete \/ AnswerCancel \/ GiveUp
    PROVE  Inv' /\ Stays
<1>1. asking' \in Nat
  <2>1. CASE \E i \in 1..MaxAccounts : AskDelete(i)
    BY <2>1, FirstWithType DEF AskDelete, Inv, TypeOK
  <2> QED
    BY <2>1 DEF DoNotDelete, AnswerCancel, GiveUp, Inv, TypeOK
<1>2. UNCHANGED <<vault, accounts, modified, stored, selected, pane, oldPane, undo, redo, offered,
                  oldHistory, prefs, window, clock>>
  BY DEF AskDelete, DoNotDelete, AnswerCancel, GiveUp
<1>3. /\ closing' = closing \/ closing' = FALSE
      /\ pending' = pending \/ pending' = FALSE
  BY DEF AskDelete, DoNotDelete, AnswerCancel, GiveUp
<1>4. /\ closing' \in BOOLEAN /\ pending' \in BOOLEAN
      /\ closing' => closing
  <2>1. closing \in BOOLEAN /\ pending \in BOOLEAN
    BY DEF Inv, TypeOK
  <2>2. closing' \in BOOLEAN /\ (closing' => closing)
    <3>1. CASE closing' = closing
      BY <2>1, <3>1, Zenon
    <3>2. CASE closing' = FALSE
      BY <3>2, Zenon
    <3> QED
      BY <1>3, <3>1, <3>2, Zenon
  <2>3. pending' \in BOOLEAN
    <3>1. CASE pending' = pending
      BY <2>1, <3>1, Zenon
    <3>2. CASE pending' = FALSE
      BY <3>2, Zenon
    <3> QED
      BY <1>3, <3>1, <3>2, Zenon
  <2> QED
    BY <2>2, <2>3, Zenon
<1>5. TypeOK'
  <2>1. closing' => IsOpen' /\ window'
    <3>1. closing => IsOpen /\ window
      BY DEF Inv, TypeOK
    <3> QED
      BY <1>2, <1>4, <3>1, Zenon DEF IsOpen
  <2> QED
    BY <1>1, <1>2, <1>4, <2>1 DEF Inv, TypeOK, IsOpen
<1> QED
  BY <1>2, <1>5 DEF Inv, PaneShowsSelection, Stays

\* Changed undo settings cut both stacks.
LEMMA PreferencesStep ==
    ASSUME Inv, NEW enabled \in BOOLEAN, NEW limit \in Limits, SetPreferences(enabled, limit)
    PROVE  Inv' /\ Stays
<1>1. undo \in Seq(Command) /\ redo \in Seq(Command) /\ limit \in Nat /\ oldHistory \in BOOLEAN
  BY DEF Inv, TypeOK
<1>2. Trimmed(undo, limit) \in Seq(Command) /\ Trimmed(redo, limit) \in Seq(Command)
  BY <1>1, TrimmedType
<1>3. <<>> \in Seq(Command)
  OBVIOUS
<1>4. /\ \/ undo' = Trimmed(undo, limit) /\ redo' = Trimmed(redo, limit)
         \/ undo' = <<>> /\ redo' = <<>>
      /\ oldHistory' = oldHistory \/ oldHistory' = FALSE
  BY DEF SetPreferences, NoHistory, ShorterHistory
<1>5. undo' \in Seq(Command) /\ redo' \in Seq(Command)
  BY <1>2, <1>3, <1>4
<1>6. oldHistory' \in BOOLEAN
  BY <1>1, <1>4, Zenon
<1>7. TypeOK'
  BY <1>5, <1>6 DEF SetPreferences, Inv, TypeOK, IsOpen
<1> QED
  BY <1>7 DEF SetPreferences, Inv, PaneShowsSelection, Stays

\* Imported accounts go to the end of the list.
LEMMA ImportStep == ASSUME Inv, NEW text \in Texts, Import(text) PROVE Inv' /\ Stays
<1> DEFINE new == [Blank EXCEPT !.text = text]
<1>1. new \in Account
  BY DEF Blank, Account
<1>2. accounts \in Seq(Account) /\ accounts' = Append(accounts, new)
  BY DEF Import, Inv, TypeOK
<1> HIDE DEF new
<1>3. /\ accounts' \in Seq(Account) /\ Len(accounts') = Len(accounts) + 1
      /\ \A i \in 1..Len(accounts) : accounts'[i] = accounts[i]
  BY <1>1, <1>2
<1> QED
  BY <1>3 DEF Import, Inv, TypeOK, PaneShowsSelection, IsOpen, Stays

\* Another vault, or none, in the place of the one that was open.
LEMMA ReplacedStep ==
    ASSUME Inv, Replaced, ~closing, vault' \in Vaults \cup {NoVault}, modified' \in BOOLEAN,
           accounts' \in Seq(Account), stored' \in [Vaults -> Seq(Account)],
           pending' \in BOOLEAN, window' \in BOOLEAN, offered' \in BOOLEAN,
           vault' = NoVault => accounts' = <<>> /\ ~modified'
    PROVE  Inv' /\ Stays
<1>1. /\ UNCHANGED <<selected, pane, undo, redo, prefs, asking, closing, clock>>
      /\ oldPane' = (selected # 0) /\ oldHistory' = (undo # <<>> \/ redo # <<>>)
  BY DEF Replaced
<1>2. oldPane' \in BOOLEAN /\ oldHistory' \in BOOLEAN /\ ~closing'
  BY <1>1, Zenon
<1>3. TypeOK'
  BY <1>1, <1>2 DEF Inv, TypeOK, IsOpen
<1>4. PaneShowsSelection' /\ Stays
  BY <1>1 DEF PaneShowsSelection, Stays
<1> QED
  BY <1>3, <1>4 DEF Inv

\* Opening a vault and creating one.
LEMMA OpenSteps ==
    ASSUME Inv, LoginFails \/ (\E v \in Vaults : Login(v) \/ NewVault(v))
    PROVE  Inv' /\ Stays
<1>1. stored \in [Vaults -> Seq(Account)] /\ <<>> \in Seq(Account)
  BY DEF Inv, TypeOK
<1>2. CASE LoginFails
  <2>1. /\ Replaced /\ ~closing /\ vault' = NoVault /\ accounts' = <<>> /\ modified' = FALSE
        /\ stored' = stored /\ pending' = pending /\ window' = window /\ offered' = offered
    BY <1>2 DEF LoginFails, CanOpen
  <2>2. pending' \in BOOLEAN /\ window' \in BOOLEAN /\ offered' \in BOOLEAN
    BY <1>2, <2>1, Zenon DEF Inv, TypeOK
  <2> QED
    BY <1>1, <2>1, <2>2, ReplacedStep
<1>3. ASSUME NEW v \in Vaults, Login(v) PROVE Inv' /\ Stays
  <2>1. /\ Replaced /\ ~closing /\ vault' = v /\ accounts' = stored[v] /\ modified' = TRUE
        /\ stored' = stored /\ pending' = TRUE /\ window' = window /\ offered' = offered
    BY <1>3 DEF Login, CanOpen
  <2>2. pending' \in BOOLEAN /\ window' \in BOOLEAN /\ offered' \in BOOLEAN
    BY <1>3, <2>1, Zenon DEF Inv, TypeOK
  <2> QED
    BY <1>1, <2>1, <2>2, ReplacedStep
<1>4. ASSUME NEW v \in Vaults, NewVault(v) PROVE Inv' /\ Stays
  <2>1. /\ Replaced /\ ~closing /\ vault' = v /\ accounts' = <<>> /\ modified' \in BOOLEAN
        /\ stored' = [stored EXCEPT ![v] = <<>>]
        /\ pending' = pending /\ window' = TRUE /\ offered' = FALSE
    BY <1>4 DEF NewVault, CanOpen
  <2>2. stored' \in [Vaults -> Seq(Account)]
    BY <1>1, <2>1
  <2>3. pending' \in BOOLEAN /\ window' \in BOOLEAN /\ offered' \in BOOLEAN
    BY <1>4, <2>1, Zenon DEF Inv, TypeOK
  <2> QED
    BY <1>1, <2>1, <2>2, <2>3, ReplacedStep
<1> QED
  BY <1>2, <1>3, <1>4

\* The pane was saved, if it could be.
LEMMA SavedStep ==
    ASSUME Inv, accounts' = Edited(accounts), pane' = SavedPane(accounts),
           modified' \in BOOLEAN, ~IsOpen => ~modified',
           UNCHANGED <<vault, selected, oldPane, undo, redo, oldHistory, prefs, asking, clock>>,
           offered' \in BOOLEAN, window' \in BOOLEAN, pending' \in BOOLEAN,
           closing' \in BOOLEAN, closing' => IsOpen /\ window',
           stored' \in [Vaults -> Seq(Account)]
    PROVE  Inv' /\ Stays
<1>1. ~IsOpen => accounts' = <<>>
  <2>1. ~IsOpen => ~EditsTaken(accounts) /\ accounts = <<>>
    BY DEF Inv, TypeOK, EditsTaken
  <2> QED
    BY <2>1 DEF Edited
<1>2. TypeOK'
  BY <1>1, EditedType DEF Inv, TypeOK, IsOpen
<1>3. PaneShowsSelection' /\ Stays
  <2>1. selected # 0 /\ ~oldPane => selected \in 1..Len(accounts)
    BY DEF Inv, TypeOK, PaneShowsSelection
  <2> QED
    BY <2>1, EditedType DEF PaneShowsSelection, Stays
<1> QED
  BY <1>2, <1>3 DEF Inv

\* What a save writes, and marks.
LEMMA SavedTypes ==
    ASSUME Inv, Saved
    PROVE  /\ stored' \in [Vaults -> Seq(Account)] /\ modified' \in BOOLEAN
           /\ ~IsOpen => ~modified'
<1>1. accounts' \in Seq(Account)
  BY EditedType DEF Saved
<1>2. stored' \in [Vaults -> Seq(Account)]
  BY <1>1 DEF Saved, Inv, TypeOK
<1>3. modified' \in BOOLEAN /\ (~IsOpen => ~modified')
  <2>1. modified \in BOOLEAN /\ (~IsOpen => ~modified /\ ~EditsTaken(accounts))
    BY DEF Inv, TypeOK, EditsTaken
  <2> QED
    BY <2>1 DEF Saved, EditsTaken
<1> QED
  BY <1>2, <1>3

\* Saving the vault saves the pane first.
LEMMA SaveStep == ASSUME Inv, Save PROVE Inv' /\ Stays
<1>1. /\ closing' \in BOOLEAN /\ (closing' => IsOpen /\ window') /\ window' \in BOOLEAN
      /\ pending' \in BOOLEAN /\ offered' \in BOOLEAN
  BY DEF Save, Inv, TypeOK
<1> QED
  BY <1>1, SavedTypes, SavedStep DEF Save, Saved

\* So does the end of a login, over an open vault.
LEMMA CompleteStep == ASSUME Inv, CompleteOpening PROVE Inv' /\ Stays
<1>1. /\ closing' \in BOOLEAN /\ ~closing' /\ window' = TRUE
      /\ pending' \in BOOLEAN /\ offered' \in BOOLEAN
  BY DEF CompleteOpening, Inv, TypeOK
<1>2. CASE window
  BY <1>1, <1>2, SavedTypes, SavedStep DEF CompleteOpening, Saved
<1>3. CASE ~window
  BY <1>1, <1>3 DEF CompleteOpening, Inv, TypeOK, PaneShowsSelection, IsOpen, Stays
<1> QED
  BY <1>2, <1>3

\* A vault that is closed leaves nothing behind.
LEMMA ClosedStep ==
    ASSUME Inv, Closed, stored' \in [Vaults -> Seq(Account)],
           UNCHANGED <<prefs, asking, pending, clock>>
    PROVE  Inv' /\ Stays
<1>1. /\ undo' = <<>> /\ redo' = <<>> /\ accounts' = <<>> /\ selected' = 0 /\ pane' = EmptyPane
      /\ oldPane' = FALSE /\ oldHistory' = FALSE
  BY DEF Closed, NoHistory, ClearDetails
<1>2. undo' \in Seq(Command) /\ redo' \in Seq(Command)
  BY <1>1
<1>3. accounts' \in Seq(Account) /\ EmptyPane \in Pane /\ ~EmptyPane.edited
  BY <1>1 DEF EmptyPane, Pane
<1>4. TypeOK'
  <2>1. selected' \in Nat /\ pane' \in Pane
    BY <1>1, <1>3
  <2>2. /\ ~closing' /\ closing' \in BOOLEAN /\ ~modified' /\ modified' \in BOOLEAN
        /\ offered' \in BOOLEAN /\ window' \in BOOLEAN
    BY DEF Closed
  <2> QED
    BY <1>1, <1>2, <1>3, <2>1, <2>2 DEF Closed, Inv, TypeOK
<1> QED
  BY <1>1, <1>3, <1>4 DEF Inv, PaneShowsSelection, Stays

\* Closing and locking, with or without the save that was asked about.
LEMMA CloseSteps ==
    ASSUME Inv, Close \/ Lock \/ AnswerSave \/ AnswerDoNotSave
    PROVE  Inv' /\ Stays
<1>1. /\ stored \in [Vaults -> Seq(Account)]
      /\ [stored EXCEPT ![vault] = Edited(accounts)] \in [Vaults -> Seq(Account)]
  BY EditedType DEF Inv, TypeOK
<1>2. ASSUME CloseVault(modified), UNCHANGED <<stored, prefs, asking, pending, clock>>, window
      PROVE  Inv' /\ Stays
  <2>1. CASE Closed
    BY <1>1, <1>2, <2>1, ClosedStep
  <2>2. CASE modified \/ EditsTaken(accounts)
    <3>1. IsOpen
      BY <2>2 DEF Inv, TypeOK, EditsTaken
    <3>2. /\ closing' \in BOOLEAN /\ window' \in BOOLEAN /\ window' /\ modified' \in BOOLEAN
          /\ pending' \in BOOLEAN /\ offered' \in BOOLEAN
      BY <1>2, <2>2 DEF CloseVault, Inv, TypeOK
    <3> QED
      BY <1>1, <1>2, <2>2, <3>1, <3>2, SavedStep DEF CloseVault
  <2> QED
    BY <1>2, <2>1, <2>2 DEF CloseVault
<1>3. CASE Close
  BY <1>2, <1>3 DEF Close, Ready
<1>4. CASE Lock
  BY <1>1, <1>2, <1>4, ClosedStep DEF Lock
<1>5. CASE AnswerSave
  BY <1>1, <1>5, ClosedStep DEF AnswerSave
<1>6. CASE AnswerDoNotSave
  BY <1>1, <1>6, ClosedStep DEF AnswerDoNotSave
<1> QED
  BY <1>3, <1>4, <1>5, <1>6

-----------------------------------------------------------------------------
(* The theorems *)

\* No vault is open at first.
LEMMA Initially == Init => Inv
<1> SUFFICES ASSUME Init PROVE Inv
  OBVIOUS
<1>1. <<>> \in Seq(Account) /\ <<>> \in Seq(Command) /\ Len(<<>>) = 0
  OBVIOUS
<1>2. Len(FirstAccounts) \in Nat /\ EmptyPane \in Pane /\ ~EmptyPane.edited
  BY DEF EmptyPane, Pane
<1>3. undo = <<>> /\ redo = <<>>
  BY <1>1 DEF Init
<1>4. TypeOK
  <2>1. closing => IsOpen /\ window
    BY DEF Init
  <2>2. ~modified
    BY DEF Init
  <2>3. /\ vault \in Vaults \cup {NoVault} /\ modified \in BOOLEAN
        /\ accounts \in Seq(Account) /\ stored \in [Vaults -> Seq(Account)]
        /\ selected \in Nat /\ pane \in Pane
    <3>1. stored \in [Vaults -> Seq(Account)]
      BY DEF Init
    <3>2. accounts \in Seq(Account) /\ selected \in Nat /\ pane \in Pane
      BY <1>1, <1>2 DEF Init
    <3> QED
      BY <3>1, <3>2 DEF Init
  <2>4. /\ undo \in Seq(Command) /\ redo \in Seq(Command) /\ offered \in BOOLEAN
        /\ asking \in Nat /\ closing \in BOOLEAN /\ clock \in Nat
        /\ oldPane \in BOOLEAN /\ oldHistory \in BOOLEAN
        /\ window \in BOOLEAN /\ pending \in BOOLEAN
    BY <1>1, <1>2 DEF Init
  <2>5. prefs \in [enabled : BOOLEAN, limit : Limits]
    BY DEF Init
  <2> QED
    BY <1>3, <2>1, <2>2, <2>3, <2>4, <2>5 DEF Init, TypeOK
<1> QED
  BY <1>2, <1>4 DEF Init, Inv, PaneShowsSelection

\* Every step keeps the invariant and what was typed.
LEMMA Steps == Inv /\ [Next]_vars => Inv' /\ Stays
<1> SUFFICES ASSUME Inv, [Next]_vars PROVE Inv' /\ Stays
  OBVIOUS
<1>1. CASE \E text \in Texts \cup {Refused} : Type(text)
  BY <1>1, TypeStep
<1>2. CASE \E i \in 1..MaxAccounts : Select(i)
  BY <1>2, SelectStep
<1>3. CASE (\E i \in 1..MaxAccounts : AskDelete(i)) \/ DoNotDelete \/ AnswerCancel \/ GiveUp
  BY <1>3, AskStep
<1>4. CASE Add \/ Delete \/ (\E i \in 1..MaxAccounts : ToggleFavorite(i))
  BY <1>4, GivenSteps
<1>5. CASE Undo \/ Redo
  BY <1>5, UndoStep, RedoStep
<1>6. CASE \E enabled \in BOOLEAN, limit \in Limits : SetPreferences(enabled, limit)
  BY <1>6, PreferencesStep
<1>7. CASE \E text \in Texts : Import(text)
  BY <1>7, ImportStep
<1>8. CASE LoginFails \/ (\E v \in Vaults : Login(v) \/ NewVault(v))
  BY <1>8, OpenSteps
<1>9. CASE Save \/ CompleteOpening
  BY <1>9, SaveStep, CompleteStep
<1>10. CASE Close \/ Lock \/ AnswerSave \/ AnswerDoNotSave
  BY <1>10, CloseSteps
<1>11. CASE UNCHANGED vars
  BY <1>11 DEF vars, Inv, TypeOK, PaneShowsSelection, IsOpen, Stays
<1> QED
  BY <1>1, <1>2, <1>3, <1>4, <1>5, <1>6, <1>7, <1>8, <1>9, <1>10, <1>11 DEF Next

\* The invariant of this module.
LEMMA Invariance == Spec => []Inv
BY Initially, Steps, PTL DEF Spec

\* The types hold for all vaults, accounts, texts and limits.
THEOREM TypeCorrect == Spec => []TypeOK
<1>1. Inv => TypeOK
  BY DEF Inv
<1> QED
  BY <1>1, Invariance, PTL

\* Whatever is added, deleted, undone, redone, imported, saved or locked, the
\* pane shows the selected account or what was typed over it, from the moment
\* an account of the vault that is open was selected.
THEOREM PaneAlwaysShows == Spec => []PaneShowsSelection
<1>1. Inv => PaneShowsSelection
  BY DEF Inv
<1> QED
  BY <1>1, Invariance, PTL

\* No step moves what was typed over an account but not saved to another account,
\* opening another vault over the one that is open excepted.
THEOREM PendingAlwaysStays == Spec => PendingEditsStay
<1>1. Inv /\ [Next]_vars => [selected # 0 /\ pane.edited /\ pane'.edited /\ ~oldPane' =>
        /\ selected' = selected /\ vault' = vault
        /\ accounts'[selected].id = accounts[selected].id]_vars
  BY Steps DEF Stays
<1> QED
  BY <1>1, Invariance, PTL DEF Spec, PendingEditsStay

-----------------------------------------------------------------------------
(* The history.  Each command in it takes a list of one length to a list of *)
(* another, and the lengths that the commands of a stack need fit together: *)
(* there is a length for the list before and after each of them, the last   *)
(* being the length it has now.                                             *)

\* The command c, done as it stands, takes m accounts to n of them.
Turns(c, m, n) ==
    /\ c.kind = "add"    => n = m + 1 /\ c.index \in 1..n
    /\ c.kind = "delete" => m = n + 1 /\ c.index \in 1..m
    /\ c.kind = "toggle" => m = n /\ c.index \in 1..n

\* A command on the undo stack was done, one on the redo stack was undone.
Leads(c, m, n, done) == IF done THEN Turns(c, m, n) ELSE Turns(c, n, m)

\* The commands of a stack lead, each from the one below it, to n accounts.
Path(stack, n, done) ==
    \E h \in [0..Len(stack) -> Nat] :
        /\ h[Len(stack)] = n
        /\ \A k \in 1..Len(stack) : Leads(stack[k], h[k - 1], h[k], done)

\* Of commands from a vault before nothing is known.
History ==
    /\ ~oldHistory => Path(undo, Len(accounts), TRUE) /\ Path(redo, Len(accounts), FALSE)
    /\ ~prefs.enabled => undo = <<>> /\ redo = <<>>

\* An empty stack leads anywhere.
LEMMA EmptyPath == ASSUME NEW n \in Nat, NEW done PROVE Path(<<>>, n, done)
<1> DEFINE h == [k \in 0..0 |-> n]
<1>1. h \in [0..Len(<<>>) -> Nat] /\ h[Len(<<>>)] = n
  OBVIOUS
<1>2. \A k \in 1..Len(<<>>) : Leads(<<>>[k], h[k - 1], h[k], done)
  OBVIOUS
<1> HIDE DEF h
<1> QED
  BY <1>1, <1>2 DEF Path

\* An account more does no command harm.
LEMMA LongerPath ==
    ASSUME NEW s \in Seq(Command), NEW n \in Nat, NEW done \in BOOLEAN, Path(s, n, done)
    PROVE  Path(s, n + 1, done)
<1>1. PICK h \in [0..Len(s) -> Nat] :
            /\ h[Len(s)] = n
            /\ \A k \in 1..Len(s) : Leads(s[k], h[k - 1], h[k], done)
  BY DEF Path
<1> DEFINE g == [k \in 0..Len(s) |-> h[k] + 1]
<1>2. Len(s) \in Nat /\ g \in [0..Len(s) -> Nat] /\ g[Len(s)] = n + 1
  BY <1>1
<1>3. ASSUME NEW k \in 1..Len(s) PROVE Leads(s[k], g[k - 1], g[k], done)
  <2>1. s[k] \in Command /\ h[k - 1] \in Nat /\ h[k] \in Nat
    <3>1. k \in 0..Len(s) /\ k - 1 \in 0..Len(s)
      BY <1>2
    <3> QED
      BY <3>1
  <2>2. g[k - 1] = h[k - 1] + 1 /\ g[k] = h[k] + 1
    BY <1>2
  <2>3. Leads(s[k], h[k - 1], h[k], done)
    BY <1>1
  <2> HIDE DEF g
  <2> QED
    BY <2>1, <2>2, <2>3 DEF Leads, Turns, Command
<1> HIDE DEF g
<1> QED
  BY <1>2, <1>3 DEF Path

\* A command put on a stack.
LEMMA PushedPath ==
    ASSUME NEW s \in Seq(Command), NEW c \in Command, NEW m \in Nat, NEW n \in Nat,
           NEW done \in BOOLEAN, Path(s, m, done), Leads(c, m, n, done)
    PROVE  Path(Append(s, c), n, done)
<1>1. PICK h \in [0..Len(s) -> Nat] :
            /\ h[Len(s)] = m
            /\ \A k \in 1..Len(s) : Leads(s[k], h[k - 1], h[k], done)
  BY DEF Path
<1> DEFINE t == Append(s, c)
           g == [k \in 0..Len(s) + 1 |-> IF k = Len(s) + 1 THEN n ELSE h[k]]
<1>2. Len(s) \in Nat /\ Len(t) = Len(s) + 1 /\ t[Len(s) + 1] = c
  OBVIOUS
<1>3. \A k \in 1..Len(s) : t[k] = s[k]
  OBVIOUS
<1>4. g \in [0..Len(s) + 1 -> Nat] /\ g[Len(s) + 1] = n /\ g[Len(s)] = m
  BY <1>1, <1>2
<1>5. \A k \in 0..Len(s) : g[k] = h[k]
  BY <1>2
<1>6. ASSUME NEW k \in 1..Len(t) PROVE Leads(t[k], g[k - 1], g[k], done)
  <2> HIDE DEF t, g
  <2>1. CASE k = Len(s) + 1
    <3>1. t[k] = c /\ g[k] = n /\ k - 1 = Len(s)
      BY <1>2, <1>4, <2>1
    <3> QED
      BY <1>4, <3>1
  <2>2. CASE k # Len(s) + 1
    <3>1. k \in 1..Len(s) /\ k - 1 \in 0..Len(s) /\ k \in 0..Len(s)
      BY <1>2, <2>2
    <3> QED
      BY <1>1, <1>3, <1>5, <3>1
  <2> QED
    BY <2>1, <2>2
<1> HIDE DEF t, g
<1>7. Path(t, n, done)
  BY <1>2, <1>4, <1>6 DEF Path
<1> QED
  BY <1>7 DEF t

\* The command on top of a stack, and those below it.
LEMMA TopOfPath ==
    ASSUME NEW s \in Seq(Command), s # <<>>, NEW n \in Nat, NEW done \in BOOLEAN,
           Path(s, n, done)
    PROVE  \E m \in Nat : Leads(Last(s), m, n, done) /\ Path(Front(s), m, done)
<1>1. PICK h \in [0..Len(s) -> Nat] :
            /\ h[Len(s)] = n
            /\ \A k \in 1..Len(s) : Leads(s[k], h[k - 1], h[k], done)
  BY DEF Path
<1> DEFINE t == Front(s)
           m == h[Len(s) - 1]
           g == [k \in 0..Len(s) - 1 |-> h[k]]
<1>2. Len(s) \in Nat \ {0}
  OBVIOUS
<1>3. Len(t) = Len(s) - 1 /\ \A k \in 1..Len(s) - 1 : t[k] = s[k]
  <2>1. Len(t) = Len(s) - 1
    BY EndTypes
  <2>2. \A k \in 1..Len(s) - 1 : s[k] \in Command
    OBVIOUS
  <2>3. ASSUME NEW k \in 1..Len(s) - 1 PROVE t[k] = s[k]
    <3>1. k \in 1..(Len(s) - 1) - 1 + 1 /\ 1 + k - 1 = k
      BY <1>2
    <3> QED
      BY <1>2, <2>2, <3>1, SubSeqProperties DEF Front
  <2> QED
    BY <2>1, <2>3
<1>4. m \in Nat /\ Leads(Last(s), m, n, done)
  BY <1>1, <1>2 DEF Last
<1>5. g \in [0..Len(s) - 1 -> Nat] /\ g[Len(s) - 1] = m
  BY <1>2
<1>6. ASSUME NEW k \in 1..Len(s) - 1 PROVE Leads(t[k], g[k - 1], g[k], done)
  <2>1. k \in 1..Len(s) /\ g[k - 1] = h[k - 1] /\ g[k] = h[k] /\ t[k] = s[k]
    BY <1>2, <1>3
  <2> HIDE DEF t, g
  <2> QED
    BY <1>1, <2>1
<1> HIDE DEF t, g, m
<1>7. Path(t, m, done)
  BY <1>3, <1>5, <1>6 DEF Path
<1> QED
  BY <1>4, <1>7 DEF t

\* The newest commands of a stack, when the oldest d are dropped.
Newer(s, t, d) == Len(t) = Len(s) - d /\ \A k \in 1..Len(t) : t[k] = s[k + d]

\* They lead to where the whole stack does.
LEMMA NewerPath ==
    ASSUME NEW s \in Seq(Command), NEW t \in Seq(Command), NEW d \in 0..Len(s),
           Newer(s, t, d), NEW n \in Nat, NEW done \in BOOLEAN, Path(s, n, done)
    PROVE  Path(t, n, done)
<1>1. PICK h \in [0..Len(s) -> Nat] :
            /\ h[Len(s)] = n
            /\ \A k \in 1..Len(s) : Leads(s[k], h[k - 1], h[k], done)
  BY DEF Path
<1> DEFINE g == [k \in 0..Len(t) |-> h[k + d]]
<1>2. Len(s) \in Nat /\ Len(t) \in Nat /\ d \in Nat /\ Len(t) = Len(s) - d
  BY DEF Newer
<1>3. g \in [0..Len(t) -> Nat] /\ g[Len(t)] = n
  BY <1>1, <1>2
<1>4. ASSUME NEW k \in 1..Len(t) PROVE Leads(t[k], g[k - 1], g[k], done)
  <2>1. k + d \in 1..Len(s) /\ g[k] = h[k + d] /\ g[k - 1] = h[(k + d) - 1]
    BY <1>2
  <2>2. t[k] = s[k + d]
    BY DEF Newer
  <2> HIDE DEF g
  <2> QED
    BY <1>1, <2>1, <2>2
<1> HIDE DEF g
<1>5. \A k \in 1..Len(t) : Leads(t[k], g[k - 1], g[k], done)
  BY <1>4
<1> QED
  BY <1>3, <1>5, Zenon DEF Path

\* Both ways in which a history is cut keep its newest commands.
LEMMA CutPaths ==
    ASSUME NEW s \in Seq(Command), NEW n \in Nat, NEW done \in BOOLEAN, Path(s, n, done)
    PROVE  /\ s # <<>> => Path(Tail(s), n, done)
           /\ \A limit \in Nat : Path(Trimmed(s, limit), n, done)
<1>1. ASSUME s # <<>> PROVE Path(Tail(s), n, done)
  <2> DEFINE t == Tail(s)
  <2>1. t \in Seq(Command) /\ 1 \in 0..Len(s) /\ Newer(s, t, 1)
    BY <1>1 DEF Newer
  <2> HIDE DEF t
  <2>2. Path(t, n, done)
    BY <2>1, NewerPath
  <2> QED
    BY <2>2 DEF t
<1>2. ASSUME NEW limit \in Nat, Len(s) > limit PROVE Path(Newest(s, limit), n, done)
  <2> DEFINE d == Len(s) - limit
             t == Newest(s, limit)
  <2>1. d \in 0..Len(s) /\ Len(s) \in Nat
    BY <1>2
  <2>2. \A k \in Len(s) - limit + 1..Len(s) : s[k] \in Command
    BY <1>2
  <2>3. t \in Seq(Command)
    BY <2>2, SubSeqProperties DEF Newest
  <2>4. Len(t) = limit
    <3>1. Len(t) = IF Len(s) - limit + 1 <= Len(s)
                   THEN Len(s) - (Len(s) - limit + 1) + 1 ELSE 0
      BY <2>2, SubSeqProperties DEF Newest
    <3>2. \A a, b \in Nat : a > b => (IF a - b + 1 <= a THEN a - (a - b + 1) + 1 ELSE 0) = b
      OBVIOUS
    <3> QED
      BY <1>2, <2>1, <3>1, <3>2, Zenon
  <2>5. ASSUME NEW k \in 1..limit PROVE t[k] = s[k + d]
    <3>1. /\ k \in 1..Len(s) - (Len(s) - limit + 1) + 1
          /\ (Len(s) - limit + 1) + k - 1 = k + d
      BY <2>1
    <3>2. t[k] = s[(Len(s) - limit + 1) + k - 1]
      BY <2>1, <2>2, <3>1, SubSeqProperties DEF Newest
    <3> QED
      BY <3>1, <3>2
  <2> HIDE DEF t
  <2>6. Newer(s, t, d)
    BY <2>1, <2>4, <2>5 DEF Newer
  <2> HIDE DEF d
  <2>7. Path(t, n, done)
    BY <2>1, <2>3, <2>6, NewerPath
  <2> QED
    BY <2>7 DEF t
<1> QED
  BY <1>1, <1>2 DEF Trimmed

\* A list of the length it had, under the history it had.
LEMMA SameLength ==
    ASSUME History, UNCHANGED <<undo, redo, oldHistory, prefs>>, Len(accounts') = Len(accounts)
    PROVE  History'
BY DEF History

\* A list that gains an account, under the history it had.
LEMMA OneMore ==
    ASSUME Inv, History, UNCHANGED <<undo, redo, oldHistory, prefs>>,
           Len(accounts') = Len(accounts) + 1
    PROVE  History'
<1>1. undo \in Seq(Command) /\ redo \in Seq(Command) /\ Len(accounts) \in Nat
  BY DEF Inv, TypeOK
<1>2. ~oldHistory => Path(undo, Len(accounts) + 1, TRUE) /\ Path(redo, Len(accounts) + 1, FALSE)
  BY <1>1, LongerPath DEF History
<1> QED
  BY <1>2 DEF History

\* No history is one of every list.
LEMMA NoneLeft == ASSUME undo' = <<>>, redo' = <<>>, Len(accounts') \in Nat PROVE History'
<1>1. Path(<<>>, Len(accounts'), TRUE) /\ Path(<<>>, Len(accounts'), FALSE)
  BY EmptyPath
<1> QED
  BY <1>1 DEF History

\* What the commands make of the length of the list, done and undone.
LEMMA Lengths ==
    ASSUME Inv, NEW c \in Command
    PROVE  /\ Len(Added(c)) = Len(accounts) + 1
           /\ c.index \in 1..Len(accounts) =>
                Len(Removed(c)) = Len(accounts) - 1 /\ Len(Toggled(c)) = Len(accounts)
<1>1. accounts \in Seq(Account) /\ c.account \in Account
  BY DEF Inv, TypeOK, Command
<1>2. c.index \in 1..Len(accounts) => Len(Removed(c)) = Len(accounts) - 1
  BY <1>1, RemoveType DEF Removed
<1> QED
  BY <1>1, <1>2, ListTypes DEF Added

\* A command that was done leads to the list it has made, and one that was
\* undone leads from there back to the list there was.
LEMMA CommandsLead ==
    ASSUME Inv, NEW c \in Command
    PROVE  /\ Executes(c) => Leads(AfterExecute(c), Len(accounts), Len(Executed(c)), TRUE)
           /\ Reverts(c) => \A m \in Nat : Leads(c, m, Len(accounts), TRUE) =>
                /\ m = Len(Reverted(c))
                /\ Leads(AfterRevert(c), Len(accounts), Len(Reverted(c)), FALSE)
           /\ Executes(c) => \A m \in Nat : Leads(c, m, Len(accounts), FALSE) =>
                m = Len(Executed(c))
<1>1. c.kind \in {"add", "delete", "toggle"} /\ c.index \in Nat /\ Len(accounts) \in Nat
  BY DEF Inv, TypeOK, Command
<1>2. /\ AfterExecute(c).kind = c.kind /\ AfterRevert(c).kind = c.kind
      /\ AfterExecute(c).index = IF c.kind = "add" THEN Len(accounts) + 1 ELSE c.index
      /\ AfterRevert(c).index = c.index
  BY DEF Command, AfterExecute, AfterRevert
<1>3. CASE c.kind = "add"
  <2>1. Executed(c) = Added(c) /\ Reverted(c) = Removed(c)
    BY <1>3 DEF Executed, Reverted
  <2> QED
    BY <1>1, <1>2, <1>3, <2>1, Lengths DEF Leads, Turns, Reverts
<1>4. CASE c.kind = "delete"
  <2>1. Executed(c) = Removed(c) /\ Reverted(c) = Added(c)
    BY <1>4 DEF Executed, Reverted
  <2> QED
    BY <1>1, <1>2, <1>4, <2>1, Lengths DEF Leads, Turns, Executes
<1>5. CASE c.kind = "toggle"
  <2>1. Executed(c) = Toggled(c) /\ Reverted(c) = Toggled(c)
    BY <1>5 DEF Executed, Reverted
  <2> QED
    BY <1>1, <1>2, <1>5, <2>1, Lengths DEF Leads, Turns, Executes, Reverts
<1> QED
  BY <1>1, <1>3, <1>4, <1>5

\* A command that the window makes ends on top of the stack of those to undo,
\* and clears the other; a disabled history is empty.
LEMMA RecordedHistory ==
    ASSUME Inv, History, NEW c \in Command, Recorded(c), prefs' = prefs,
           Len(accounts') \in Nat, Leads(AfterExecute(c), Len(accounts), Len(accounts'), TRUE)
    PROVE  History'
<1>1. undo \in Seq(Command) /\ Len(accounts) \in Nat /\ AfterExecute(c) \in Command
  <2>1. Len(accounts) \in Nat
    BY DEF Inv, TypeOK
  <2>2. AfterExecute(c) \in Command
    BY <2>1 DEF AfterExecute, Command
  <2> QED
    BY <2>1, <2>2 DEF Inv, TypeOK
<1>2. CASE prefs.enabled /\ ~oldHistory
  <2> DEFINE t == Append(undo, AfterExecute(c))
  <2>1. t \in Seq(Command) /\ t # <<>>
    BY <1>1
  <2>2. Path(undo, Len(accounts), TRUE)
    BY <1>2 DEF History
  <2>3. Path(t, Len(accounts'), TRUE)
    BY <1>1, <2>2, PushedPath
  <2> HIDE DEF t
  <2>4. Path(Tail(t), Len(accounts'), TRUE)
    BY <2>1, <2>3, CutPaths
  <2>5. undo' = t \/ undo' = Tail(t)
    BY <1>2 DEF Recorded, Pushed, t
  <2>6. Path(undo', Len(accounts'), TRUE) /\ redo' = <<>>
    BY <1>2, <2>3, <2>4, <2>5 DEF Recorded
  <2>7. Path(<<>>, Len(accounts'), FALSE)
    BY EmptyPath
  <2> QED
    BY <1>2, <2>6, <2>7 DEF History
<1>3. CASE prefs.enabled /\ oldHistory
  <2>1. oldHistory' = oldHistory
    BY DEF Recorded
  <2> QED
    BY <1>3, <2>1 DEF History
<1>4. CASE ~prefs.enabled
  BY <1>4, NoneLeft DEF Recorded, History
<1> QED
  BY <1>2, <1>3, <1>4

\* Executing one.
LEMMA ExecuteHistory ==
    ASSUME Inv, History, NEW c \in Command, Execute(c), prefs' = prefs
    PROVE  History'
<1>1. accounts' \in Seq(Account) /\ accounts' = Executed(c)
  BY CommandStep DEF Execute
<1>2. Leads(AfterExecute(c), Len(accounts), Len(accounts'), TRUE)
  <2>1. Executes(c)
    BY DEF Execute
  <2> QED
    BY <1>1, <2>1, CommandsLead
<1>3. Recorded(c) /\ Len(accounts') \in Nat
  BY <1>1 DEF Execute
<1> QED
  BY <1>2, <1>3, RecordedHistory

\* An addition, after the pane was saved.
LEMMA AddHistory == ASSUME Inv, History, Add PROVE History'
<1> DEFINE c == Addition(clock')
<1>1. clock' \in Nat
  BY DEF Add, Inv, TypeOK
<1>2. c \in Command /\ c.kind = "add" /\ c.index = 0 /\ Len(accounts) \in Nat
  BY <1>1, CommandTypes DEF Addition, Inv, TypeOK
<1>3. Len(accounts') = Len(accounts) + 1
  BY EditedType DEF Add
<1> HIDE DEF c
<1>4. AfterExecute(c).kind = "add" /\ AfterExecute(c).index = Len(accounts) + 1
  BY <1>2 DEF AfterExecute, Command
<1>5. Leads(AfterExecute(c), Len(accounts), Len(accounts'), TRUE)
  BY <1>2, <1>3, <1>4 DEF Leads, Turns
<1>6. Recorded(c) /\ prefs' = prefs /\ Len(accounts') \in Nat
  BY <1>2, <1>3 DEF Add, c
<1> QED
  BY <1>2, <1>5, <1>6, RecordedHistory

\* Undone, a command goes to the other stack.
LEMMA UndoHistory == ASSUME Inv, History, Undo PROVE History'
<1> DEFINE c == Last(undo)
<1>1. undo \in Seq(Command) /\ redo \in Seq(Command) /\ undo # <<>> /\ Len(accounts) \in Nat
  BY DEF Undo, Inv, TypeOK
<1>2. c \in Command
  BY <1>1, EndTypes
<1>3. CASE oldHistory
  BY <1>3 DEF Undo, History
<1>4. CASE ~oldHistory
  <2>1. PICK m \in Nat : Leads(c, m, Len(accounts), TRUE) /\ Path(Front(undo), m, TRUE)
    BY <1>1, <1>4, TopOfPath DEF History
  <2>2. /\ Reverts(c) /\ accounts' = Reverted(c) /\ undo' = Front(undo)
        /\ redo' = Append(redo, AfterRevert(c)) /\ prefs' = prefs /\ prefs.enabled
    BY DEF Undo
  <2>3. oldHistory' = oldHistory
    BY DEF Undo
  <2> HIDE DEF c
  <2>4. m = Len(accounts') /\ Leads(AfterRevert(c), Len(accounts), Len(accounts'), FALSE)
    BY <1>2, <2>1, <2>2, CommandsLead
  <2>5. AfterRevert(c) \in Command
    <3>1. c.kind = "add" => accounts[c.index] \in Account
      BY <2>2 DEF Reverts, Inv, TypeOK
    <3> QED
      BY <1>2, <3>1 DEF AfterRevert, Command
  <2>6. Path(redo', Len(accounts'), FALSE)
    BY <1>1, <1>4, <2>1, <2>2, <2>4, <2>5, PushedPath DEF History
  <2> QED
    BY <1>4, <2>1, <2>2, <2>3, <2>4, <2>6 DEF History
<1> QED
  BY <1>3, <1>4

\* Done again, it comes back.
LEMMA RedoHistory == ASSUME Inv, History, Redo PROVE History'
<1> DEFINE c == Last(redo)
<1>1. undo \in Seq(Command) /\ redo \in Seq(Command) /\ redo # <<>> /\ Len(accounts) \in Nat
  BY DEF Redo, Inv, TypeOK
<1>2. c \in Command
  BY <1>1, EndTypes
<1>3. CASE oldHistory
  BY <1>3 DEF Redo, History
<1>4. CASE ~oldHistory
  <2>1. PICK m \in Nat : Leads(c, m, Len(accounts), FALSE) /\ Path(Front(redo), m, FALSE)
    BY <1>1, <1>4, TopOfPath DEF History
  <2>2. /\ Executes(c) /\ accounts' = Executed(c) /\ redo' = Front(redo)
        /\ undo' = Append(undo, AfterExecute(c)) /\ prefs' = prefs /\ prefs.enabled
    BY DEF Redo
  <2>3. oldHistory' = oldHistory
    BY DEF Redo
  <2> HIDE DEF c
  <2>4. m = Len(accounts') /\ Leads(AfterExecute(c), Len(accounts), Len(accounts'), TRUE)
    BY <1>2, <2>1, <2>2, CommandsLead
  <2>5. AfterExecute(c) \in Command
    BY <1>1, <1>2 DEF AfterExecute, Command
  <2>6. Path(undo', Len(accounts'), TRUE)
    BY <1>1, <1>4, <2>1, <2>2, <2>4, <2>5, PushedPath DEF History
  <2> QED
    BY <1>4, <2>1, <2>2, <2>3, <2>4, <2>6 DEF History
<1> QED
  BY <1>3, <1>4

\* Every step keeps the lengths of the two stacks fitting.
LEMMA HistorySteps == Inv /\ History /\ [Next]_vars => History'
<1> SUFFICES ASSUME Inv, History, [Next]_vars PROVE History'
  OBVIOUS
<1>1. /\ accounts \in Seq(Account) /\ undo \in Seq(Command) /\ redo \in Seq(Command)
      /\ Len(accounts) \in Nat /\ asking \in Nat
  BY DEF Inv, TypeOK
<1>2. accounts' \in Seq(Account)
  BY Steps DEF Inv, TypeOK
<1>3. CASE (\E text \in Texts \cup {Refused} : Type(text)) \/ (\E i \in 1..MaxAccounts : AskDelete(i))
           \/ DoNotDelete \/ AnswerCancel \/ GiveUp \/ UNCHANGED vars
  BY <1>3, SameLength DEF Type, AskDelete, DoNotDelete, AnswerCancel, GiveUp, vars
<1>4. CASE (\E i \in 1..MaxAccounts : Select(i)) \/ Save \/ CompleteOpening
  BY <1>4, EditedType, SameLength DEF Select, Save, CompleteOpening, Saved
<1>5. CASE Add
  BY <1>5, AddHistory
<1>6. CASE Delete
  <2>1. CASE IsOpen /\ asking <= Len(accounts)
    <3>1. Deletion(asking) \in Command
      BY <1>1, <1>6, <2>1, CommandTypes DEF Delete
    <3> QED
      BY <1>6, <2>1, <3>1, ExecuteHistory DEF Delete
  <2>2. CASE ~(IsOpen /\ asking <= Len(accounts))
    BY <1>6, <2>2, SameLength DEF Delete
  <2> QED
    BY <2>1, <2>2
<1>7. CASE \E i \in 1..MaxAccounts : ToggleFavorite(i)
  <2>1. PICK i \in 1..MaxAccounts : ToggleFavorite(i)
    BY <1>7
  <2>2. FirstWith(accounts, accounts[i].id) \in Nat
    BY <1>1, FirstWithType
  <2> QED
    BY <2>1, <2>2, CommandTypes, ExecuteHistory DEF ToggleFavorite
<1>8. CASE Undo \/ Redo
  BY <1>8, UndoHistory, RedoHistory
<1>9. CASE \E enabled \in BOOLEAN, limit \in Limits : SetPreferences(enabled, limit)
  <2>1. PICK enabled \in BOOLEAN, limit \in Limits : SetPreferences(enabled, limit)
    BY <1>9
  <2>2. CASE enabled
    <3>1. ~oldHistory => /\ Path(Trimmed(undo, limit), Len(accounts), TRUE)
                         /\ Path(Trimmed(redo, limit), Len(accounts), FALSE)
      BY <1>1, CutPaths, BoundsAssumption DEF History
    <3> QED
      BY <2>1, <2>2, <3>1 DEF SetPreferences, ShorterHistory, History
  <2>3. CASE ~enabled
    BY <1>1, <2>1, <2>3, NoneLeft DEF SetPreferences, NoHistory
  <2> QED
    BY <2>2, <2>3
<1>10. CASE \E text \in Texts : Import(text)
  <2>1. Len(accounts') = Len(accounts) + 1
    BY <1>1, <1>10 DEF Import
  <2> QED
    BY <1>10, <2>1, OneMore DEF Import
<1>11. CASE LoginFails \/ (\E v \in Vaults : Login(v) \/ NewVault(v))
  <2>1. /\ UNCHANGED <<undo, redo, prefs>>
        /\ oldHistory' = (undo # <<>> \/ redo # <<>>)
    BY <1>11 DEF LoginFails, Login, NewVault, Replaced
  <2>2. CASE undo = <<>> /\ redo = <<>>
    BY <1>2, <2>1, <2>2, NoneLeft
  <2>3. CASE ~(undo = <<>> /\ redo = <<>>)
    BY <2>1, <2>3 DEF History
  <2> QED
    BY <2>2, <2>3
<1>12. CASE Close \/ Lock \/ AnswerSave \/ AnswerDoNotSave
  <2>1. CASE Closed
    BY <1>2, <2>1, NoneLeft DEF Closed, NoHistory
  <2>2. CASE CloseVault(modified) /\ prefs' = prefs
    BY <2>1, <2>2, EditedType, SameLength DEF CloseVault
  <2> QED
    BY <1>12, <2>1, <2>2 DEF Close, Lock, AnswerSave, AnswerDoNotSave
<1> QED
  BY <1>3, <1>4, <1>5, <1>6, <1>7, <1>8, <1>9, <1>10, <1>11, <1>12 DEF Next

\* No mixture of commands, undone and redone, of imports, preferences, saves
\* and locks leaves UndoManager with a command it cannot undo or redo, unless
\* it still has commands of a vault over which another was opened.
THEOREM HistoryAlwaysApplies == Spec => []HistoryApplies
<1>1. Init => History
  <2>1. \A list \in Seq(Account) : Len(list) \in Nat
    OBVIOUS
  <2>2. Init => accounts = <<>> /\ undo = <<>> /\ redo = <<>> /\ Len(accounts) = 0
    BY DEF Init
  <2>3. Path(<<>>, 0, TRUE) /\ Path(<<>>, 0, FALSE)
    BY EmptyPath
  <2> QED
    BY <2>2, <2>3 DEF History
<1>2. Inv /\ History => HistoryApplies
  <2> SUFFICES ASSUME Inv, History PROVE HistoryApplies
    OBVIOUS
  <2>1. undo \in Seq(Command) /\ redo \in Seq(Command) /\ Len(accounts) \in Nat
    BY DEF Inv, TypeOK
  <2>2. ASSUME ~oldHistory, undo # <<>> PROVE Reverts(Last(undo))
    <3>1. PICK m \in Nat : Leads(Last(undo), m, Len(accounts), TRUE)
      BY <2>1, <2>2, TopOfPath DEF History
    <3>2. Last(undo) \in Command
      BY <2>1, <2>2, EndTypes
    <3> QED
      BY <2>1, <3>1, <3>2 DEF Leads, Turns, Reverts, Command
  <2>3. ASSUME ~oldHistory, redo # <<>> PROVE Executes(Last(redo))
    <3>1. PICK m \in Nat : Leads(Last(redo), m, Len(accounts), FALSE)
      BY <2>1, <2>3, TopOfPath DEF History
    <3>2. Last(redo) \in Command
      BY <2>1, <2>3, EndTypes
    <3> QED
      BY <2>1, <3>1, <3>2 DEF Leads, Turns, Executes, Command
  <2> QED
    BY <2>2, <2>3 DEF HistoryApplies
<1> QED
  BY <1>1, <1>2, HistorySteps, Invariance, PTL DEF Spec

-----------------------------------------------------------------------------
(* What undoing an addition keeps *)

\* The elements of a part of a sequence.
LEMMA PartOf ==
    ASSUME NEW S, NEW s \in Seq(S), NEW m \in Nat \ {0}, NEW n \in Nat, n <= Len(s), m <= n + 1
    PROVE  /\ SubSeq(s, m, n) \in Seq(S) /\ Len(SubSeq(s, m, n)) = n - m + 1
           /\ \A k \in 1..n - m + 1 : SubSeq(s, m, n)[k] = s[m + k - 1]
<1>1. \A k \in m..n : s[k] \in S
  OBVIOUS
<1>2. /\ SubSeq(s, m, n) \in Seq(S)
      /\ Len(SubSeq(s, m, n)) = IF m <= n THEN n - m + 1 ELSE 0
      /\ \A k \in 1..n - m + 1 : SubSeq(s, m, n)[k] = s[m + k - 1]
  BY <1>1, SubSeqProperties
<1>3. \A a \in Nat \ {0} : \A b \in Nat : a <= b + 1 =>
            (IF a <= b THEN b - a + 1 ELSE 0) = b - a + 1
  OBVIOUS
<1> QED
  BY <1>2, <1>3, Zenon

\* Those of two sequences in a row.
LEMMA TwoParts ==
    ASSUME NEW S, NEW u \in Seq(S), NEW v \in Seq(S)
    PROVE  /\ u \o v \in Seq(S) /\ Len(u \o v) = Len(u) + Len(v)
           /\ \A k \in 1..Len(u) : (u \o v)[k] = u[k]
           /\ \A k \in 1..Len(v) : (u \o v)[Len(u) + k] = v[k]
OBVIOUS

\* The elements that removing one leaves.
LEMMA RemoveElements ==
    ASSUME NEW S, NEW s \in Seq(S), NEW i \in 1..Len(s)
    PROVE  /\ \A k \in 1..i - 1 : RemoveAt(s, i)[k] = s[k]
           /\ \A k \in i..Len(s) - 1 : RemoveAt(s, i)[k] = s[k + 1]
<1> DEFINE u == SubSeq(s, 1, i - 1)
           v == SubSeq(s, i + 1, Len(s))
<1>1. /\ u \in Seq(S) /\ Len(u) = i - 1
      /\ \A k \in 1..i - 1 : u[k] = s[k]
  <2>1. /\ u \in Seq(S) /\ Len(u) = (i - 1) - 1 + 1
        /\ \A k \in 1..(i - 1) - 1 + 1 : u[k] = s[1 + k - 1]
    BY PartOf
  <2>2. (i - 1) - 1 + 1 = i - 1 /\ \A k \in 1..i - 1 : 1 + k - 1 = k
    OBVIOUS
  <2> HIDE DEF u
  <2> QED
    BY <2>1, <2>2
<1>2. /\ v \in Seq(S) /\ Len(v) = Len(s) - i
      /\ \A k \in 1..Len(s) - i : v[k] = s[i + k]
  <2>1. /\ v \in Seq(S) /\ Len(v) = Len(s) - (i + 1) + 1
        /\ \A k \in 1..Len(s) - (i + 1) + 1 : v[k] = s[(i + 1) + k - 1]
    BY PartOf
  <2>2. Len(s) - (i + 1) + 1 = Len(s) - i /\ \A k \in 1..Len(s) - i : (i + 1) + k - 1 = i + k
    OBVIOUS
  <2> HIDE DEF v
  <2> QED
    BY <2>1, <2>2
<1> HIDE DEF u, v
<1>3. \A k \in 1..i - 1 : (u \o v)[k] = s[k]
  BY <1>1, <1>2
<1>4. ASSUME NEW k \in i..Len(s) - 1 PROVE (u \o v)[k] = s[k + 1]
  <2>1. k - (i - 1) \in 1..Len(s) - i /\ i + (k - (i - 1)) = k + 1
    OBVIOUS
  <2>2. (u \o v)[k] = v[k - (i - 1)]
    BY <1>1, <1>2
  <2> QED
    BY <1>2, <2>1, <2>2
<1> QED
  BY <1>3, <1>4 DEF RemoveAt, u, v

\* An element that was removed is put back where it was.
LEMMA PutBack ==
    ASSUME NEW S, NEW s \in Seq(S), NEW i \in 1..Len(s)
    PROVE  InsertAt(RemoveAt(s, i), i, s[i]) = s
<1> DEFINE t == RemoveAt(s, i)
           u == SubSeq(t, 1, i - 1)
           w == SubSeq(t, i, Len(t))
           e == <<s[i]>>
<1>1. /\ t \in Seq(S) /\ Len(t) = Len(s) - 1
      /\ \A k \in 1..i - 1 : t[k] = s[k]
      /\ \A k \in i..Len(s) - 1 : t[k] = s[k + 1]
  BY RemoveType, RemoveElements
<1> HIDE DEF t
<1>2. Len(t) \in Nat /\ Len(s) \in Nat
  BY <1>1
<1>3. /\ u \in Seq(S) /\ Len(u) = i - 1
      /\ \A k \in 1..i - 1 : u[k] = s[k]
  <2>1. /\ u \in Seq(S) /\ Len(u) = (i - 1) - 1 + 1
        /\ \A k \in 1..(i - 1) - 1 + 1 : u[k] = t[1 + k - 1]
    BY <1>1, <1>2, PartOf
  <2>2. (i - 1) - 1 + 1 = i - 1 /\ \A k \in 1..i - 1 : 1 + k - 1 = k
    OBVIOUS
  <2> HIDE DEF u
  <2> QED
    BY <1>1, <2>1, <2>2
<1>4. /\ w \in Seq(S) /\ Len(w) = Len(s) - i
      /\ \A k \in 1..Len(s) - i : w[k] = s[i + k]
  <2>1. /\ w \in Seq(S) /\ Len(w) = Len(t) - i + 1
        /\ \A k \in 1..Len(t) - i + 1 : w[k] = t[i + k - 1]
    BY <1>1, <1>2, PartOf
  <2>2. ASSUME NEW k \in 1..Len(s) - i PROVE t[i + k - 1] = s[i + k]
    <3>1. i + k - 1 \in i..Len(s) - 1 /\ (i + k - 1) + 1 = i + k
      BY <1>2
    <3> QED
      BY <1>1, <3>1
  <2>3. Len(t) - i + 1 = Len(s) - i
    BY <1>1, <1>2
  <2> HIDE DEF w
  <2> QED
    BY <2>1, <2>2, <2>3
<1>5. e \in Seq(S) /\ Len(e) = 1 /\ e[1] = s[i]
  OBVIOUS
<1> HIDE DEF u, w, e
<1>6. /\ u \o e \in Seq(S) /\ Len(u \o e) = i
      /\ \A k \in 1..i - 1 : (u \o e)[k] = s[k]
      /\ (u \o e)[i] = s[i]
  <2>1. /\ u \o e \in Seq(S) /\ Len(u \o e) = Len(u) + Len(e)
        /\ \A k \in 1..Len(u) : (u \o e)[k] = u[k]
        /\ \A k \in 1..Len(e) : (u \o e)[Len(u) + k] = e[k]
    <3>1. u \in Seq(S) /\ e \in Seq(S)
      BY <1>3, <1>5
    <3> QED
      BY <3>1, TwoParts
  <2>2. (i - 1) + 1 = i /\ 1 \in 1..1
    BY <1>2
  <2> QED
    BY <1>3, <1>5, <2>1, <2>2
<1> DEFINE x == u \o e
<1>7. x \in Seq(S) /\ Len(x) = i /\ \A k \in 1..i : x[k] = s[k]
  <2>1. \A k \in 1..i : k \in 1..i - 1 \/ k = i
    BY <1>2
  <2> QED
    BY <1>6, <2>1
<1> HIDE DEF x
<1>8. /\ x \o w \in Seq(S) /\ Len(x \o w) = Len(x) + Len(w)
      /\ \A k \in 1..Len(x) : (x \o w)[k] = x[k]
      /\ \A k \in 1..Len(w) : (x \o w)[Len(x) + k] = w[k]
  <2>1. x \in Seq(S) /\ w \in Seq(S)
    BY <1>4, <1>7
  <2> QED
    BY <2>1, TwoParts
<1> DEFINE y == x \o w
<1> HIDE DEF y
<1>9. /\ y \in Seq(S) /\ Len(y) = Len(s)
      /\ \A k \in 1..i : y[k] = s[k]
      /\ \A k \in 1..Len(s) - i : y[i + k] = s[i + k]
  BY <1>2, <1>4, <1>7, <1>8 DEF y
<1>10. y = s
  <2>1. ASSUME NEW k \in 1..Len(s) PROVE y[k] = s[k]
    <3>1. CASE k > i
      <4>1. k - i \in 1..Len(s) - i /\ i + (k - i) = k
        BY <1>2, <3>1
      <4> QED
        BY <1>9, <4>1
    <3>2. CASE ~(k > i)
      BY <1>2, <1>9, <3>2
    <3> QED
      BY <3>1, <3>2
  <2> QED
    BY <1>9, <2>1
<1> QED
  BY <1>10 DEF InsertAt, y, x, u, e, w, t

\* No undoing takes more off the list than redoing has, with the edits made
\* since the account was added.
THEOREM UndoKeepsWhatItRemoves == Spec => UndoKeepsRemoved
<1> DEFINE Keeps == Undo /\ Len(accounts') < Len(accounts) =>
                accounts = InsertAt(accounts', Last(redo').index, Last(redo').account)
<1>1. Inv /\ [Next]_vars => [Keeps]_vars
  <2> SUFFICES ASSUME Inv, Undo, Len(accounts') < Len(accounts)
               PROVE  accounts = InsertAt(accounts', Last(redo').index, Last(redo').account)
    OBVIOUS
  <2> DEFINE c == Last(undo)
  <2>1. /\ undo \in Seq(Command) /\ redo \in Seq(Command) /\ undo # <<>>
        /\ accounts \in Seq(Account) /\ Len(accounts) \in Nat
    BY DEF Undo, Inv, TypeOK
  <2>2. c \in Command /\ c.kind \in {"add", "delete", "toggle"}
    <3>1. c \in Command
      BY <2>1, EndTypes
    <3> QED
      BY <3>1 DEF Command
  <2>3. Reverts(c) /\ accounts' = Reverted(c) /\ redo' = Append(redo, AfterRevert(c))
    BY DEF Undo
  <2> HIDE DEF c
  <2>4. c.kind = "add"
    BY <2>1, <2>2, <2>3, Lengths DEF Reverted, Reverts
  <2>5. c.index \in 1..Len(accounts) /\ accounts' = RemoveAt(accounts, c.index)
    BY <2>3, <2>4 DEF Reverts, Reverted, Removed
  <2>6. /\ AfterRevert(c) \in Command
        /\ AfterRevert(c).index = c.index /\ AfterRevert(c).account = accounts[c.index]
    <3>1. accounts[c.index] \in Account
      BY <2>1, <2>5
    <3> QED
      BY <2>2, <2>4, <3>1 DEF AfterRevert, Command
  <2>7. Last(redo') = AfterRevert(c)
    BY <2>1, <2>3, <2>6 DEF Last
  <2> QED
    BY <2>1, <2>5, <2>6, <2>7, PutBack
<1> QED
  BY <1>1, Invariance, PTL DEF Spec, UndoKeepsRemoved

=============================================================================
