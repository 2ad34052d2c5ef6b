------------------------ MODULE LoginFlowProofs ------------------------
(***************************************************************************)
(* The window shows the vault that is open, and no careful user's session  *)
(* gets past a forced password change, for all vaults and users and any    *)
(* number of dialogs, locks, enrollments and copies.                       *)
(*                                                                         *)
(* The argument: a user who opens one vault at a time has at most one      *)
(* login under way, as a dialog on top of all others, as an enrollment or  *)
(* as an idle callback, and while there is one the window shows nothing.   *)
(***************************************************************************)
EXTENDS LoginFlow, TLAPS

LoginKinds == {"insert", "login", "change", "enroll", "pin"}
UserKinds  == {"add", "remove", "reset", "temporary", "switch"}
Modal      == LoginKinds \cup {"close"}

\* Dialogs without a login among them or a question, and with one on top at most.
Calm(s)  == \A i \in 1..Len(s) : s[i].kind \notin Modal
Quiet(s) == \A i \in 2..Len(s) : s[i].kind \notin Modal

\* The dialogs over the user management have it below them, and a login knows
\* its vault.
Stack(s, t) ==
    /\ s \in Seq(Dialogs)
    /\ \A i \in 1..Len(s) : s[i].kind \in UserKinds => i < Len(s) /\ s[i + 1].kind = "users"
    /\ \A i \in 1..Len(s) : s[i].kind \in LoginKinds => t # NoVault

On(kinds) == dialogs # <<>> /\ Head(dialogs).kind \in kinds
Due == "password" \in vault.due
SessionOf(user) == IsOpen /\ vault.path = target /\ vault.user = user

\* What holds for a careful user.
OneFlow ==
    /\ On(LoginKinds) => enrolling = NoVault /\ reopen = {}
    /\ enrolling # NoVault => reopen = {}
    /\ \A p, q \in reopen : p = q
FlowsAreHidden == On(LoginKinds) \/ enrolling # NoVault \/ reopen # {} => shown = NoVault
AskedOnce      == On({"close"}) => shown # NoVault /\ ~armed
WindowInOrder  == shown # NoVault => IsOpen /\ vault.path = shown /\ ~Due
EnrollmentInOrder == enrolling # NoVault => SessionOf(enrolling) /\ ~Due
DialogInOrder ==
    /\ On({"change", "enroll", "pin"}) => SessionOf(Head(dialogs).user)
    /\ On({"enroll", "pin"}) => ~Due

InOrder ==
    /\ Quiet(dialogs) /\ OneFlow /\ FlowsAreHidden /\ AskedOnce
    /\ WindowInOrder /\ EnrollmentInOrder /\ DialogInOrder

Types ==
    /\ vault \in Session \cup {NoVault}
    /\ modified \in BOOLEAN /\ typed \in BOOLEAN /\ armed \in BOOLEAN
    /\ autolock \in BOOLEAN /\ away \in BOOLEAN /\ careful \in BOOLEAN
    /\ shown \in Paths \cup {NoVault} /\ target \in Paths \cup {NoVault}
    /\ reopen \subseteq Paths /\ enrolling \in Users \cup {NoVault}
    /\ enrolling # NoVault => target # NoVault

Core == Types /\ Stack(dialogs, target) /\ (careful => InOrder)

-----------------------------------------------------------------------------
(* Dialogs and stacks of them *)

\* What a dialog carries.
LEMMA DialogFacts ==
    ASSUME NEW d \in Dialogs
    PROVE  /\ d.kind \in {"change", "enroll", "pin", "own"} => d.user \in Users
           /\ d.kind = "close" => d.then \in {"nothing", "login", "idle"} /\ d.path \in Paths
           /\ d.kind = "temporary" => d.new \in BOOLEAN
BY DEF Dialogs

\* The dialogs that the handlers make.
LEMMA DialogsMade ==
    /\ \A kind \in {"insert", "login", "logout", "users", "add", "remove", "reset", "switch"} :
            Dialog(kind) \in Dialogs /\ Dialog(kind).kind = kind
    /\ \A kind \in {"change", "enroll", "pin", "own"}, user \in Users :
            For(kind, user) \in Dialogs /\ For(kind, user).kind = kind
            /\ For(kind, user).user = user
    /\ \A new \in BOOLEAN : Temporary(new) \in Dialogs /\ Temporary(new).kind = "temporary"
    /\ \A then \in {"nothing", "login", "idle"}, path \in Paths :
            Question("close", then, path) \in Dialogs
            /\ Question("close", then, path).kind = "close"
BY DEF Dialog, For, Temporary, Question, Dialogs

\* Without dialogs.
LEMMA EmptyStack == ASSUME NEW t PROVE Stack(<<>>, t) /\ Calm(<<>>) /\ Quiet(<<>>)
BY DEF Stack, Calm, Quiet

\* The newest dialog, and what closing it leaves.
LEMMA Pop ==
    ASSUME NEW s, NEW t, Stack(s, t), s # <<>>
    PROVE  /\ Head(s) \in Dialogs
           /\ Stack(Tail(s), t)
           /\ Quiet(s) => Calm(Tail(s))
           /\ Quiet(s) /\ Head(s).kind \notin Modal => Calm(s)
           /\ Head(s).kind \in LoginKinds => t # NoVault
           /\ Head(s).kind \in UserKinds => Tail(s) # <<>> /\ Head(Tail(s)).kind = "users"
<1>1. /\ s \in Seq(Dialogs) /\ Len(s) \in Nat \ {0} /\ Head(s) = s[1]
      /\ \A i \in 1..Len(s) : s[i] \in Dialogs
  BY DEF Stack
<1>2. /\ Tail(s) \in Seq(Dialogs) /\ Len(Tail(s)) = Len(s) - 1
      /\ \A i \in 1..Len(Tail(s)) : Tail(s)[i] = s[i + 1] /\ i + 1 \in 2..Len(s)
  BY <1>1
<1>3. Stack(Tail(s), t)
  <2>1. ASSUME NEW i \in 1..Len(Tail(s)), Tail(s)[i].kind \in UserKinds
        PROVE  i < Len(Tail(s)) /\ Tail(s)[i + 1].kind = "users"
    <3>1. i + 1 \in 1..Len(s) /\ s[i + 1].kind \in UserKinds
      BY <1>1, <1>2, <2>1
    <3>2. i + 1 < Len(s) /\ s[i + 2].kind = "users"
      BY <3>1 DEF Stack
    <3> QED
      BY <1>1, <1>2, <3>1, <3>2
  <2>2. ASSUME NEW i \in 1..Len(Tail(s)), Tail(s)[i].kind \in LoginKinds
        PROVE  t # NoVault
    BY <1>1, <1>2, <2>2 DEF Stack
  <2> QED
    BY <1>2, <2>1, <2>2 DEF Stack
<1>4. Quiet(s) => Calm(Tail(s))
  BY <1>2 DEF Quiet, Calm
<1>5. Quiet(s) /\ Head(s).kind \notin Modal => Calm(s)
  BY <1>1 DEF Quiet, Calm
<1>6. Head(s).kind \in LoginKinds => t # NoVault
  BY <1>1 DEF Stack
<1>7. ASSUME Head(s).kind \in UserKinds PROVE Tail(s) # <<>> /\ Head(Tail(s)).kind = "users"
  <2>1. 1 \in 1..Len(s) /\ s[1].kind \in UserKinds
    BY <1>1, <1>7
  <2>2. 1 < Len(s) /\ s[1 + 1].kind = "users"
    BY <2>1 DEF Stack
  <2>3. 1 \in 1..Len(Tail(s))
    BY <1>1, <1>2, <2>2
  <2>4. Tail(s)[1] = s[1 + 1]
    BY <1>2, <2>3
  <2>5. Tail(s) \in Seq(Dialogs) /\ Len(Tail(s)) # 0
    BY <1>1, <1>2, <2>2
  <2>6. Tail(s) # <<>> /\ Head(Tail(s)) = Tail(s)[1]
    <3>1. ASSUME NEW u \in Seq(Dialogs), Len(u) # 0 PROVE u # <<>> /\ Head(u) = u[1]
      BY <3>1
    <3> QED
      BY <2>5, <3>1
  <2> QED
    BY <2>2, <2>4, <2>6
<1> QED
  BY <1>1, <1>3, <1>4, <1>5, <1>6, <1>7

\* A new dialog on top of others.
LEMMA Push ==
    ASSUME NEW s, NEW t, Stack(s, t), NEW d \in Dialogs,
           d.kind \in LoginKinds => t # NoVault,
           d.kind \in UserKinds => s # <<>> /\ Head(s).kind = "users"
    PROVE  /\ Stack(<<d>> \o s, t)
           /\ <<d>> \o s # <<>> /\ Head(<<d>> \o s) = d
           /\ Calm(s) => Quiet(<<d>> \o s)
           /\ Calm(s) /\ d.kind \notin Modal => Calm(<<d>> \o s)
<1> DEFINE u == <<d>> \o s
<1>1. s \in Seq(Dialogs) /\ Len(s) \in Nat
  BY DEF Stack
<1>2. /\ u \in Seq(Dialogs) /\ Len(u) = Len(s) + 1 /\ u[1] = d
      /\ \A i \in 2..Len(u) : u[i] = s[i - 1] /\ i - 1 \in 1..Len(s)
  BY <1>1
<1>3. u # <<>> /\ Head(u) = d
  BY <1>1, <1>2
<1> HIDE DEF u
<1>4. ASSUME NEW i \in 1..Len(u), u[i].kind \in UserKinds
      PROVE  i < Len(u) /\ u[i + 1].kind = "users"
  <2>1. CASE i = 1
    <3>1. s # <<>> /\ s[1].kind = "users" /\ Len(s) >= 1
      BY <1>1, <1>2, <1>4, <2>1
    <3>2. 2 \in 2..Len(u)
      BY <1>1, <1>2, <3>1
    <3> QED
      BY <1>1, <1>2, <2>1, <3>1, <3>2
  <2>2. CASE i # 1
    <3>1. i \in 2..Len(u) /\ i - 1 \in 1..Len(s) /\ s[i - 1].kind \in UserKinds
      BY <1>1, <1>2, <1>4, <2>2
    <3>2. i - 1 < Len(s) /\ s[(i - 1) + 1].kind = "users"
      BY <3>1 DEF Stack
    <3>3. i + 1 \in 2..Len(u) /\ (i + 1) - 1 = (i - 1) + 1
      BY <1>1, <1>2, <3>1, <3>2
    <3>4. u[i + 1] = s[(i + 1) - 1]
      BY <1>2, <3>3
    <3> QED
      BY <1>1, <1>2, <3>1, <3>2, <3>3, <3>4
  <2> QED
    BY <2>1, <2>2
<1>5. ASSUME NEW i \in 1..Len(u), u[i].kind \in LoginKinds PROVE t # NoVault
  <2>1. CASE i = 1
    BY <1>2, <1>5, <2>1
  <2>2. CASE i # 1
    <3>1. i \in 2..Len(u)
      BY <1>1, <1>2, <2>2
    <3> QED
      BY <1>2, <1>5, <3>1 DEF Stack
  <2> QED
    BY <2>1, <2>2
<1>6. Stack(u, t)
  BY <1>2, <1>4, <1>5 DEF Stack
<1>7. Calm(s) => Quiet(u)
  BY <1>2 DEF Calm, Quiet
<1>8. Calm(s) /\ d.kind \notin Modal => Calm(u)
  <2> SUFFICES ASSUME Calm(s), d.kind \notin Modal, NEW i \in 1..Len(u)
               PROVE  u[i].kind \notin Modal
    BY DEF Calm
  <2>1. i = 1 \/ i \in 2..Len(u)
    BY <1>1, <1>2
  <2> QED
    BY <1>2, <2>1 DEF Calm
<1> QED
  BY <1>3, <1>6, <1>7, <1>8 DEF u

\* A stack without a login or a question has none on top.
LEMMA CalmTop ==
    ASSUME NEW s, NEW t, Stack(s, t), Calm(s)
    PROVE  Quiet(s) /\ (s # <<>> => Head(s).kind \notin Modal)
<1>1. s \in Seq(Dialogs) /\ Len(s) \in Nat
  BY DEF Stack
<1>2. Quiet(s)
  BY <1>1 DEF Calm, Quiet
<1>3. s # <<>> => Head(s) = s[1] /\ 1 \in 1..Len(s)
  BY <1>1
<1> QED
  BY <1>2, <1>3 DEF Calm

\* Another vault to log in to.
LEMMA Retarget ==
    ASSUME NEW s, NEW t, Stack(s, t), NEW path \in Paths
    PROVE  Stack(s, path)
BY NoVaultAssumption DEF Stack

-----------------------------------------------------------------------------
(* Steps of one kind *)

\* Steps in the window leave vault, dialogs and logins alone; the timer restarts
\* only without a dialog.
LEMMA WindowKeeps ==
    ASSUME Core, UNCHANGED <<vault, shown, target, dialogs, reopen, enrolling, careful>>,
           modified' \in BOOLEAN, typed' \in BOOLEAN, armed' \in BOOLEAN,
           autolock' \in BOOLEAN, away' \in BOOLEAN,
           armed' => armed \/ dialogs = <<>>
    PROVE  Core'
<1>1. Types' /\ Stack(dialogs', target')
  BY DEF Core, Types
<1>2. AskedOnce => AskedOnce'
  BY DEF AskedOnce, On
<1>3. InOrder => InOrder'
  BY <1>2 DEF InOrder, OneFlow, FlowsAreHidden, WindowInOrder, EnrollmentInOrder, DialogInOrder,
     On, Due, SessionOf, IsOpen
<1> QED
  BY <1>1, <1>3 DEF Core

\* A step that ends with no login and no question among the dialogs.
LEMMA DialogsKeep ==
    ASSUME Core, UNCHANGED <<shown, target, armed, reopen, enrolling, careful>>,
           vault' \in Session \cup {NoVault}, modified' \in BOOLEAN, typed' \in BOOLEAN,
           autolock' \in BOOLEAN, away' \in BOOLEAN,
           Stack(dialogs', target),
           careful /\ InOrder => Calm(dialogs') /\ WindowInOrder' /\ EnrollmentInOrder'
    PROVE  Core'
<1>1. Types' /\ Stack(dialogs', target')
  BY DEF Core, Types
<1>2. ASSUME careful PROVE InOrder'
  <2>1. InOrder /\ Calm(dialogs') /\ WindowInOrder' /\ EnrollmentInOrder'
    BY <1>2 DEF Core
  <2>2. Quiet(dialogs') /\ \A kinds \in SUBSET Modal : ~On(kinds)'
    BY <2>1, CalmTop DEF On
  <2>3. OneFlow' /\ FlowsAreHidden' /\ AskedOnce' /\ DialogInOrder'
    <3>1. ~On(LoginKinds)' /\ ~On({"close"})' /\ ~On({"change", "enroll", "pin"})'
          /\ ~On({"enroll", "pin"})'
      BY <2>2 DEF Modal, LoginKinds
    <3> QED
      BY <2>1, <3>1 DEF InOrder, OneFlow, FlowsAreHidden, AskedOnce, DialogInOrder
  <2> QED
    BY <2>1, <2>2, <2>3 DEF InOrder
<1> QED
  BY <1>1, <1>2 DEF Core

\* A login is asked for while nothing else is under way.
LEMMA Prompted ==
    ASSUME Core, NEW path \in Paths, NEW below, Stack(below, target),
           HandleVaultOpen(path, below),
           vault' \in Session \cup {NoVault}, shown' \in Paths \cup {NoVault},
           modified' \in BOOLEAN, typed' \in BOOLEAN, armed' \in BOOLEAN,
           careful' \in BOOLEAN, reopen' \subseteq Paths,
           UNCHANGED <<autolock, enrolling, away>>,
           careful' => Calm(below) /\ shown' = NoVault /\ enrolling = NoVault /\ reopen' = {}
    PROVE  Core'
<1>1. PICK kind \in {"insert", "login"} : dialogs' = <<Dialog(kind)>> \o below
  BY DEF HandleVaultOpen, Show
<1>2. Dialog(kind) \in Dialogs /\ Dialog(kind).kind = kind
  BY DialogsMade
<1>3. target' = path /\ path # NoVault
  BY NoVaultAssumption DEF HandleVaultOpen
<1>4. /\ Stack(dialogs', path) /\ dialogs' # <<>> /\ Head(dialogs').kind = kind
      /\ Calm(below) => Quiet(dialogs')
  BY <1>1, <1>2, <1>3, Retarget, Push DEF UserKinds
<1>5. Types' /\ Stack(dialogs', target')
  BY <1>3, <1>4 DEF Core, Types
<1>6. ASSUME careful' PROVE InOrder'
  <2>1. Quiet(dialogs') /\ shown' = NoVault /\ enrolling' = NoVault /\ reopen' = {}
    BY <1>4, <1>6
  <2>2. ~On({"close"})' /\ ~On({"change", "enroll", "pin"})' /\ ~On({"enroll", "pin"})'
    BY <1>4 DEF On
  <2> QED
    BY <2>1, <2>2 DEF InOrder, OneFlow, FlowsAreHidden, AskedOnce, WindowInOrder,
       EnrollmentInOrder, DialogInOrder
<1> QED
  BY <1>5, <1>6 DEF Core

\* What follows a closing, or the cancelled closing of a vault that stays.
LEMMA Followed ==
    ASSUME Core, NEW then \in {"nothing", "login", "idle"}, NEW path \in Paths, NEW below,
           Stack(below, target), Afterwards(then, path, below),
           vault' \in Session \cup {NoVault}, shown' \in Paths \cup {NoVault},
           modified' \in BOOLEAN, typed' \in BOOLEAN, armed' \in BOOLEAN, careful' \in BOOLEAN,
           UNCHANGED <<autolock, enrolling, away>>,
           careful' => /\ Calm(below) /\ enrolling = NoVault /\ reopen = {}
                       /\ \/ then = "nothing" /\ WindowInOrder'
                          \/ shown' = NoVault
    PROVE  Core'
<1>1. CASE then = "login"
  <2>1. HandleVaultOpen(path, below) /\ reopen' = reopen
    BY <1>1 DEF Afterwards
  <2>2. careful' => shown' = NoVault
    BY <1>1
  <2>3. reopen' \subseteq Paths
    BY <2>1 DEF Core, Types
  <2> QED
    BY <2>1, <2>2, <2>3, Prompted
<1>2. CASE then # "login"
  <2>1. /\ dialogs' = below /\ target' = target
        /\ reopen' = reopen \cup (IF then = "idle" THEN {path} ELSE {})
    BY <1>2 DEF Afterwards
  <2>2. Types' /\ Stack(dialogs', target')
    BY <2>1 DEF Core, Types
  <2>3. ASSUME careful' PROVE InOrder'
    <3>1. Quiet(dialogs') /\ \A kinds \in SUBSET Modal : ~On(kinds)'
      BY <2>1, <2>3, CalmTop DEF On
    <3>2. ~On(LoginKinds)' /\ ~On({"close"})' /\ ~On({"change", "enroll", "pin"})'
          /\ ~On({"enroll", "pin"})'
      BY <3>1 DEF Modal, LoginKinds
    <3>3. /\ enrolling' = NoVault
          /\ reopen' = IF then = "idle" THEN {path} ELSE {}
      BY <2>1, <2>3
    <3>4. WindowInOrder' /\ (then = "idle" => shown' = NoVault)
      BY <2>3 DEF WindowInOrder
    <3> QED
      BY <3>1, <3>2, <3>3, <3>4 DEF InOrder, OneFlow, FlowsAreHidden, AskedOnce,
         EnrollmentInOrder, DialogInOrder
  <2> QED
    BY <2>2, <2>3 DEF Core
<1> QED
  BY <1>1, <1>2

\* While the window shows a vault, a careful user has no login under way.
LEMMA NothingElse ==
    ASSUME Core, careful, shown # NoVault
    PROVE  /\ ~On(LoginKinds) /\ enrolling = NoVault /\ reopen = {}
           /\ Quiet(dialogs) /\ WindowInOrder
BY DEF Core, InOrder, FlowsAreHidden

\* A vault that the window shows is closed, or its closing asked about.
LEMMA Closes ==
    ASSUME Core, shown # NoVault, NEW flag \in BOOLEAN,
           NEW then \in {"nothing", "login", "idle"}, NEW below,
           Stack(below, target), careful => Calm(below),
           CloseVault(flag, then, below), UNCHANGED <<autolock, enrolling, away, careful>>
    PROVE  Core'
<1>0. /\ shown \in Paths /\ armed' = FALSE /\ typed' = FALSE /\ careful' = careful
      /\ careful \in BOOLEAN
  BY DEF Core, Types, CloseVault
<1>1. CASE ~flag
  <2>1. Closed /\ Afterwards(then, shown, below)
    BY <1>1 DEF CloseVault
  <2>2. vault' = NoVault /\ modified' = FALSE /\ shown' = NoVault
    BY <2>1 DEF Closed
  <2>3. careful' => Calm(below) /\ enrolling = NoVault /\ reopen = {}
    BY <1>0, NothingElse
  <2> QED
    BY <1>0, <2>1, <2>2, <2>3, Followed
<1>2. CASE flag
  <2> DEFINE d == Question("close", then, shown)
  <2>1. /\ dialogs' = <<d>> \o below /\ modified' = TRUE
        /\ UNCHANGED <<vault, shown, target, reopen>>
    BY <1>2 DEF CloseVault, Show
  <2>2. d \in Dialogs /\ d.kind = "close"
    BY <1>0, DialogsMade
  <2>3. /\ Stack(dialogs', target) /\ dialogs' # <<>> /\ Head(dialogs').kind = "close"
        /\ Calm(below) => Quiet(dialogs')
    BY <2>1, <2>2, Push DEF LoginKinds, UserKinds
  <2>4. Types' /\ Stack(dialogs', target')
    BY <1>0, <2>1, <2>3 DEF Core, Types
  <2>5. ASSUME careful PROVE InOrder'
    <3>1. Quiet(dialogs') /\ enrolling' = NoVault /\ reopen' = {} /\ WindowInOrder
      BY <2>1, <2>3, <2>5, NothingElse
    <3>2. ~On(LoginKinds)' /\ ~On({"change", "enroll", "pin"})' /\ ~On({"enroll", "pin"})'
      BY <2>3 DEF On, LoginKinds
    <3>3. WindowInOrder'
      BY <2>1, <3>1 DEF WindowInOrder, IsOpen, Due
    <3> QED
      BY <1>0, <2>1, <3>1, <3>2, <3>3 DEF InOrder, OneFlow, FlowsAreHidden, AskedOnce,
         EnrollmentInOrder, DialogInOrder
  <2> QED
    BY <1>0, <2>4, <2>5 DEF Core
<1> QED
  BY <1>1, <1>2

\* A login goes on with a dialog for its user.
LEMMA Demanded ==
    ASSUME Core, NEW kind \in {"change", "enroll", "pin"}, NEW user \in Users, NEW below,
           Stack(below, target), target # NoVault, dialogs' = <<For(kind, user)>> \o below,
           vault' \in Session \cup {NoVault}, modified' \in BOOLEAN,
           enrolling' \in {enrolling, NoVault},
           UNCHANGED <<typed, shown, target, armed, autolock, reopen, away, careful>>,
           careful => /\ Calm(below) /\ enrolling' = NoVault /\ reopen = {} /\ shown = NoVault
                      /\ SessionOf(user)' /\ (kind # "change" => ~Due')
    PROVE  Core'
<1>1. /\ For(kind, user) \in Dialogs /\ For(kind, user).kind = kind
      /\ For(kind, user).user = user
  BY DialogsMade
<1>2. /\ Stack(dialogs', target) /\ dialogs' # <<>> /\ Head(dialogs') = For(kind, user)
      /\ Calm(below) => Quiet(dialogs')
  BY <1>1, Push DEF UserKinds
<1>3. Types' /\ Stack(dialogs', target')
  BY <1>2 DEF Core, Types
<1>4. ASSUME careful PROVE InOrder'
  <2>1. Quiet(dialogs') /\ shown' = NoVault /\ enrolling' = NoVault /\ reopen' = {}
    BY <1>2, <1>4
  <2>2. ~On({"close"})' /\ (On({"enroll", "pin"})' => kind # "change")
    BY <1>1, <1>2 DEF On
  <2>3. DialogInOrder'
    BY <1>1, <1>2, <1>4, <2>2 DEF DialogInOrder
  <2> QED
    BY <2>1, <2>2, <2>3 DEF InOrder, OneFlow, FlowsAreHidden, AskedOnce, WindowInOrder,
       EnrollmentInOrder
<1> QED
  BY <1>3, <1>4 DEF Core

\* A login reaches the window.
LEMMA Succeeds ==
    ASSUME Core, NEW opened \in Session, NEW flags \in SUBSET BOOLEAN, Success(opened, flags),
           Stack(dialogs', target), target # NoVault, enrolling' \in {enrolling, NoVault},
           UNCHANGED <<target, autolock, reopen, away, careful>>,
           careful => /\ Calm(dialogs') /\ reopen = {} /\ enrolling' = NoVault
                      /\ opened.path = target /\ "password" \notin opened.due
    PROVE  Core'
<1>1. /\ vault' = opened /\ shown' = target /\ armed' = autolock
      /\ modified' \in BOOLEAN /\ typed' \in BOOLEAN
  BY DEF Success, Core, Types
<1>2. Types' /\ Stack(dialogs', target')
  BY <1>1 DEF Core, Types
<1>3. ASSUME careful PROVE InOrder'
  <2>1. Quiet(dialogs') /\ \A kinds \in SUBSET Modal : ~On(kinds)'
    BY <1>3, CalmTop DEF On
  <2>2. ~On(LoginKinds)' /\ ~On({"close"})' /\ ~On({"change", "enroll", "pin"})'
        /\ ~On({"enroll", "pin"})'
    BY <2>1 DEF Modal, LoginKinds
  <2>3. opened # NoVault
    BY NoVaultAssumption
  <2>4. WindowInOrder'
    BY <1>1, <1>3, <2>3 DEF WindowInOrder, IsOpen, Due
  <2> QED
    BY <1>3, <2>1, <2>2, <2>4 DEF InOrder, OneFlow, FlowsAreHidden, AskedOnce,
       EnrollmentInOrder, DialogInOrder
<1> QED
  BY <1>2, <1>3 DEF Core

-----------------------------------------------------------------------------
(* The clipboard *)

ClipboardStep ==
    \/ UNCHANGED clipboard
    \/ CopyText("account") \/ CopyTemporary
    \/ ClearImmediately \/ ClearTimeout \/ SafetyTimeout \/ DisablePreservation

\* What every operation of ClipboardManager preserves.
LEMMA ClipboardKept ==
    ASSUME ClipboardTypeOK, SecretsAreTimed, ClipboardStep
    PROVE  ClipboardTypeOK' /\ SecretsAreTimed'
<1> USE DEF ClipboardTypeOK, SecretsAreTimed, Texts, Secrets
<1>1. CASE UNCHANGED clipboard
  BY <1>1 DEF clipboard
<1>2. CASE CopyText("account")
  BY <1>2 DEF CopyText
<1>3. CASE CopyTemporary
  BY <1>3 DEF CopyTemporary
<1>4. CASE ClearImmediately
  BY <1>4 DEF ClearImmediately
<1>5. CASE ClearTimeout
  BY <1>5 DEF ClearTimeout
<1>6. CASE SafetyTimeout
  BY <1>6 DEF SafetyTimeout
<1>7. CASE DisablePreservation
  BY <1>7 DEF DisablePreservation
<1> QED
  BY <1>1, <1>2, <1>3, <1>4, <1>5, <1>6, <1>7 DEF ClipboardStep

\* Every step of the program is one of them.
LEMMA ClipboardSteps == [Next]_vars => ClipboardStep
<1> USE DEF ClipboardStep
<1> SUFFICES ASSUME [Next]_vars PROVE ClipboardStep
  OBVIOUS
<1>1. CASE LoginStep
  BY <1>1 DEF LoginStep, OpenVault, InsertRetry, Cancel, LoginFails, Login, Change, EnrollConfirm,
     PinTyped, Success
<1>2. CASE WindowStep
  BY <1>2 DEF WindowStep, NewVault, Activity, SetAutoLock, Edit, Save, Copy, Close, Logout,
     AnswerLogout, CancelLogout, AnswerClose, CancelClose, CloseVault
<1>3. CASE UsersStep
  BY <1>3 DEF UsersStep, ChangeMyPassword, AnswerOwnChange, ManageUsers, AskUsers, AnswerAdd,
     AnswerRemove, AnswerReset, CopyTemporaryPassword, CloseTemporary, StayHere, SwitchUser,
     CloseVault
<1>4. CASE LoopStep
  BY <1>4 DEF LoopStep, LockTimeout, Reopen, ClipboardTimeout, EnrollFailed, EnrollDone,
     CloseVault, Success
<1>5. CASE Leave \/ UNCHANGED vars
  BY <1>5 DEF Leave, vars
<1> QED
  BY <1>1, <1>2, <1>3, <1>4, <1>5 DEF Next

-----------------------------------------------------------------------------
(* Before a step *)

\* The dialog that is answered, and what lies under it.
LEMMA Answered ==
    ASSUME Core, NEW kind, Answer(kind)
    PROVE  /\ dialogs # <<>> /\ Head(dialogs) \in Dialogs /\ Head(dialogs).kind = kind
           /\ Stack(dialogs, target) /\ Stack(Below, target)
           /\ careful => Calm(Below) /\ WindowInOrder /\ EnrollmentInOrder /\ DialogInOrder
           /\ careful /\ kind \notin Modal => Calm(dialogs)
           /\ kind \in LoginKinds =>
                /\ target \in Paths
                /\ careful => shown = NoVault /\ enrolling = NoVault /\ reopen = {}
           /\ kind \in UserKinds => Below # <<>> /\ Head(Below).kind = "users"
<1>1. dialogs # <<>> /\ Head(dialogs).kind = kind /\ Stack(dialogs, target)
  BY DEF Answer, Core
<1>2. /\ Head(dialogs) \in Dialogs /\ Stack(Below, target)
      /\ Quiet(dialogs) => Calm(Below)
      /\ Quiet(dialogs) /\ kind \notin Modal => Calm(dialogs)
      /\ kind \in LoginKinds => target # NoVault
      /\ kind \in UserKinds => Below # <<>> /\ Head(Below).kind = "users"
  BY <1>1, Pop DEF Below
<1>3. careful => Quiet(dialogs) /\ WindowInOrder /\ EnrollmentInOrder /\ DialogInOrder
  BY DEF Core, InOrder
<1>4. kind \in LoginKinds /\ careful => shown = NoVault /\ enrolling = NoVault /\ reopen = {}
  BY <1>1 DEF Core, InOrder, OneFlow, FlowsAreHidden, On
<1>5. target \in Paths \cup {NoVault}
  BY DEF Core, Types
<1> QED
  BY <1>1, <1>2, <1>3, <1>4, <1>5

\* Without a login or a question on top there is none at all.
LEMMA NoneOnTop ==
    ASSUME Core, careful, ~On(LoginKinds), ~On({"close"})
    PROVE  Calm(dialogs)
<1>1. Stack(dialogs, target) /\ Quiet(dialogs)
  BY DEF Core, InOrder
<1>2. CASE dialogs = <<>>
  BY <1>2, EmptyStack
<1>3. CASE dialogs # <<>>
  <2>1. Head(dialogs).kind \notin Modal
    BY <1>3 DEF On, Modal
  <2> QED
    BY <1>1, <1>3, <2>1, Pop
<1> QED
  BY <1>2, <1>3

\* Nor is there while an enrollment or a reopening is under way.
LEMMA FlowIsCalm ==
    ASSUME Core, careful, enrolling # NoVault \/ reopen # {}
    PROVE  Calm(dialogs) /\ shown = NoVault
<1>1. OneFlow /\ FlowsAreHidden /\ AskedOnce
  BY DEF Core, InOrder
<1>2. shown = NoVault
  BY <1>1 DEF FlowsAreHidden
<1>3. ~On(LoginKinds) /\ ~On({"close"})
  BY <1>1, <1>2 DEF OneFlow, AskedOnce
<1> QED
  BY <1>2, <1>3, NoneOnTop

\* What a service leaves of a session.
LEMMA AfterFacts ==
    ASSUME vault \in Session, NEW user, NEW obligation
    PROVE  /\ After(user, obligation) \in Session
           /\ After(user, obligation).path = vault.path
           /\ After(user, obligation).user = vault.user
           /\ After(user, obligation).due \subseteq vault.due
           /\ user = vault.user => obligation \notin After(user, obligation).due
BY DEF After, Session

-----------------------------------------------------------------------------
(* Every step *)

\* The login dialogs and those that follow them.
LEMMA LoginKeeps == ASSUME Core, LoginStep PROVE Core'
<1> USE DEF Modal, LoginKinds
<1>0. /\ Types /\ dialogs \in Seq(Dialogs)
      /\ vault \in Session \cup {NoVault} /\ (IsOpen => vault \in Session)
  BY DEF Core, Types, Stack, IsOpen
<1>1. ASSUME NEW path \in Paths, OpenVault(path) PROVE Core'
  <2>1. /\ HandleVaultOpen(path, <<>>) /\ reopen' = {} /\ Calm(<<>>) /\ Stack(<<>>, target)
        /\ UNCHANGED <<vault, modified, typed, shown, armed, autolock, enrolling, away>>
        /\ careful' = (careful /\ OneAtATime)
    BY <1>1, EmptyStack DEF OpenVault, Free, session
  <2> QED
    BY <1>0, <2>1, Prompted DEF Types, OneAtATime
<1>2. CASE InsertRetry
  <2>1. /\ Answer("insert") /\ HandleVaultOpen(target, Below)
        /\ UNCHANGED <<vault, modified, typed, shown, armed, autolock, reopen, enrolling, away,
                        careful>>
    BY <1>2 DEF InsertRetry, session
  <2>2. /\ target \in Paths /\ Stack(Below, target)
        /\ careful => Calm(Below) /\ shown = NoVault /\ enrolling = NoVault /\ reopen = {}
    BY <2>1, Answered
  <2> QED
    BY <1>0, <2>1, <2>2, Prompted DEF Types
<1>3. CASE Cancel
  <2>1. PICK kind : Answer(kind)
    BY <1>3 DEF Cancel
  <2>2. /\ dialogs' = Below
        /\ UNCHANGED <<vault, modified, typed, shown, target, armed, autolock, reopen, enrolling,
                        away, careful>>
    BY <1>3 DEF Cancel, session
  <2>3. Stack(Below, target) /\ (careful => Calm(Below) /\ WindowInOrder /\ EnrollmentInOrder)
    BY <2>1, Answered
  <2>4. careful => WindowInOrder' /\ EnrollmentInOrder'
    BY <2>2, <2>3 DEF WindowInOrder, EnrollmentInOrder, SessionOf, IsOpen, Due
  <2> QED
    BY <1>0, <2>2, <2>3, <2>4, DialogsKeep DEF Types
<1>4. CASE LoginFails
  <2>1. /\ Answer("login") /\ vault' = NoVault /\ modified' = FALSE /\ dialogs' = Below
        /\ UNCHANGED <<typed, shown, target, armed, autolock, reopen, enrolling, away, careful>>
    BY <1>4 DEF LoginFails
  <2>2. /\ Stack(Below, target)
        /\ careful => Calm(Below) /\ shown = NoVault /\ enrolling = NoVault
    BY <2>1, Answered
  <2>3. careful => WindowInOrder' /\ EnrollmentInOrder'
    BY <2>1, <2>2 DEF WindowInOrder, EnrollmentInOrder
  <2> QED
    BY <1>0, <2>1, <2>2, <2>3, DialogsKeep DEF Types
<1>5. CASE Login
  <2>1. PICK user \in Users, due \in SUBSET Obligations :
            IF "password" \in due
            THEN /\ Show(For("change", user), Below)
                 /\ vault' = [path |-> target, user |-> user, due |-> due] /\ modified' = TRUE
                 /\ UNCHANGED <<typed, shown, armed, clipboard>>
            ELSE /\ dialogs' = Below
                 /\ Success([path |-> target, user |-> user, due |-> due], {TRUE})
    BY <1>5 DEF Login
  <2> DEFINE opened == [path |-> target, user |-> user, due |-> due]
  <2>2. Answer("login") /\ UNCHANGED <<target, autolock, reopen, enrolling, away, careful>>
    BY <1>5 DEF Login
  <2>3. /\ target \in Paths /\ Stack(Below, target)
        /\ careful => Calm(Below) /\ shown = NoVault /\ enrolling = NoVault /\ reopen = {}
    BY <2>2, Answered
  <2>4. /\ opened \in Session /\ opened # NoVault /\ target # NoVault
        /\ opened.path = target /\ opened.user = user /\ opened.due = due
    BY <2>3, NoVaultAssumption DEF Session
  <2> HIDE DEF opened
  <2>5. CASE "password" \in due
    <3>1. /\ dialogs' = <<For("change", user)>> \o Below /\ vault' = opened /\ modified' = TRUE
          /\ UNCHANGED <<typed, shown, armed>>
      BY <2>1, <2>5 DEF Show, opened
    <3>2. SessionOf(user)'
      BY <2>2, <2>4, <3>1 DEF SessionOf, IsOpen
    <3> QED
      BY <2>2, <2>3, <2>4, <3>1, <3>2, Demanded
  <2>6. CASE "password" \notin due
    <3>1. dialogs' = Below /\ Success(opened, {TRUE})
      BY <2>1, <2>6 DEF opened
    <3> QED
      BY <2>2, <2>3, <2>4, <2>6, <3>1, Succeeds
  <2> QED
    BY <2>5, <2>6
<1>6. CASE Change
  <2>0. PICK user \in Users : user = Head(dialogs).user
    <3>1. Head(dialogs) \in Dialogs /\ Head(dialogs).kind = "change"
      BY <1>6, Answered DEF Change
    <3> QED
      BY <3>1, DialogFacts
  <2> DEFINE changed == After(user, "password")
  <2>1. /\ Answer("change") /\ IsOpen
        /\ UNCHANGED <<target, autolock, reopen, enrolling, away, careful>>
        /\ IF "yubikey" \in vault.due
           THEN /\ Show(For("enroll", user), Below)
                /\ vault' = changed /\ modified' \in BOOLEAN
                /\ UNCHANGED <<typed, shown, armed, clipboard>>
           ELSE dialogs' = Below /\ Success(changed, BOOLEAN)
    BY <1>6, <2>0 DEF Change
  <2>2. /\ target \in Paths /\ Stack(Below, target) /\ Head(dialogs) \in Dialogs
        /\ dialogs # <<>> /\ Head(dialogs).kind = "change"
        /\ careful => Calm(Below) /\ shown = NoVault /\ enrolling = NoVault /\ reopen = {}
                      /\ DialogInOrder
    BY <2>1, Answered
  <2>4. careful => vault.path = target /\ vault.user = user
    BY <2>0, <2>2 DEF DialogInOrder, On, SessionOf
  <2>5. /\ changed \in Session /\ changed # NoVault /\ target # NoVault
        /\ careful => changed.path = target /\ changed.user = user /\ "password" \notin changed.due
    BY <1>0, <2>1, <2>2, <2>4, AfterFacts, NoVaultAssumption
  <2> HIDE DEF changed
  <2>6. CASE "yubikey" \in vault.due
    <3>1. /\ dialogs' = <<For("enroll", user)>> \o Below /\ vault' = changed
          /\ modified' \in BOOLEAN /\ UNCHANGED <<typed, shown, armed>>
      BY <2>1, <2>6 DEF Show
    <3>2. careful => SessionOf(user)' /\ ~Due'
      BY <2>1, <2>5, <3>1 DEF SessionOf, IsOpen, Due
    <3> QED
      BY <2>1, <2>2, <2>5, <3>1, <3>2, Demanded
  <2>7. CASE "yubikey" \notin vault.due
    <3>1. dialogs' = Below /\ Success(changed, BOOLEAN)
      BY <2>1, <2>7
    <3> QED
      BY <2>1, <2>2, <2>5, <3>1, Succeeds
  <2> QED
    BY <2>6, <2>7
<1>7. CASE EnrollConfirm \/ PinTyped
  <2>1. PICK kind \in {"enroll", "pin"} : Answer(kind)
    BY <1>7 DEF EnrollConfirm, PinTyped
  <2>0. PICK user \in Users : user = Head(dialogs).user
    BY <2>1, Answered, DialogFacts
  <2>2. /\ UNCHANGED <<vault, modified, typed, shown, target, armed, autolock, reopen, away, careful>>
        /\ \/ \E next \in {"enroll", "pin"} : Show(For(next, user), Below) /\ UNCHANGED enrolling
           \/ enrolling = NoVault /\ enrolling' = user /\ dialogs' = Below
    BY <1>7, <2>0 DEF EnrollConfirm, PinTyped, session
  <2>3. /\ target \in Paths /\ Stack(Below, target) /\ Head(dialogs) \in Dialogs
        /\ dialogs # <<>> /\ Head(dialogs).kind = kind
        /\ careful => Calm(Below) /\ shown = NoVault /\ enrolling = NoVault /\ reopen = {}
                      /\ DialogInOrder
    BY <2>1, Answered
  <2>4. target # NoVault /\ user # NoVault
    BY <2>3, NoVaultAssumption
  <2>5. careful => SessionOf(user) /\ ~Due
    BY <2>0, <2>3 DEF DialogInOrder, On
  <2>6. careful => SessionOf(user)' /\ ~Due'
    BY <2>2, <2>5 DEF SessionOf, IsOpen, Due
  <2>7. CASE \E next \in {"enroll", "pin"} : Show(For(next, user), Below) /\ UNCHANGED enrolling
    <3>1. PICK next \in {"enroll", "pin"} :
              dialogs' = <<For(next, user)>> \o Below /\ enrolling' = enrolling
      BY <2>7 DEF Show
    <3> QED
      BY <1>0, <2>2, <2>3, <2>4, <2>6, <3>1, Demanded DEF Types
  <2>8. CASE enrolling' = user /\ dialogs' = Below
    <3>1. Types' /\ Stack(dialogs', target')
      BY <1>0, <2>2, <2>3, <2>4, <2>8 DEF Types
    <3>2. ASSUME careful PROVE InOrder'
      <4>1. Quiet(dialogs') /\ (dialogs' # <<>> => Head(dialogs').kind \notin Modal)
        BY <2>3, <2>8, <3>2, CalmTop
      <4>2. ~On(LoginKinds)' /\ ~On({"close"})' /\ ~On({"change", "enroll", "pin"})'
            /\ ~On({"enroll", "pin"})'
        BY <4>1 DEF On
      <4> QED
        BY <2>2, <2>3, <2>6, <2>8, <3>2, <4>1, <4>2 DEF InOrder, OneFlow, FlowsAreHidden,
           AskedOnce, WindowInOrder, EnrollmentInOrder, DialogInOrder
    <3> QED
      BY <2>2, <3>1, <3>2 DEF Core
  <2> QED
    BY <2>2, <2>7, <2>8
<1> QED
  BY <1>1, <1>2, <1>3, <1>4, <1>5, <1>6, <1>7 DEF LoginStep

\* The window, the closing and the logout.
LEMMA WindowStepKeeps == ASSUME Core, WindowStep PROVE Core'
<1> USE DEF Modal, LoginKinds
<1>0. /\ Types /\ Stack(<<>>, target) /\ Calm(<<>>) /\ Taken \in BOOLEAN
      /\ vault \in Session \cup {NoVault}
      /\ \A flag \in BOOLEAN : Saved(flag) \subseteq BOOLEAN
  BY EmptyStack DEF Core, Types, Taken, Saved
<1>1. ASSUME NEW path \in Paths, NewVault(path) PROVE Core'
  <2>1. /\ dialogs = <<>> /\ reopen = {}
        /\ UNCHANGED <<typed, target, dialogs, autolock, reopen, enrolling, away>>
        /\ careful' = (careful /\ shown = NoVault /\ enrolling = NoVault)
    BY <1>1 DEF NewVault, Free, OneAtATime
  <2>2. \/ /\ \E user \in Users : vault' = [path |-> path, user |-> user, due |-> {}]
           /\ modified' \in BOOLEAN /\ shown' = path /\ armed' = autolock
        \/ vault' = NoVault /\ modified' = FALSE /\ UNCHANGED <<shown, armed>>
    BY <1>1 DEF NewVault
  <2>3. \/ vault' \in Session /\ vault' # NoVault /\ vault'.path = path /\ vault'.due = {}
           /\ shown' = path
        \/ vault' = NoVault /\ shown' = shown
    BY <2>2, NoVaultAssumption DEF Session
  <2>4. Types' /\ Stack(dialogs', target')
    BY <1>0, <2>1, <2>2, <2>3 DEF Core, Types
  <2>5. ASSUME careful' PROVE InOrder'
    <3>1. Quiet(dialogs') /\ dialogs' = <<>> /\ reopen' = {} /\ enrolling' = NoVault
      BY <2>1, <2>5, EmptyStack
    <3>2. WindowInOrder'
      BY <2>1, <2>3, <2>5 DEF WindowInOrder, IsOpen, Due
    <3> QED
      BY <3>1, <3>2 DEF InOrder, OneFlow, FlowsAreHidden, AskedOnce, EnrollmentInOrder,
         DialogInOrder, On
  <2> QED
    BY <2>4, <2>5 DEF Core
<1>2. CASE Activity \/ SetAutoLock \/ Edit \/ Save \/ Copy
  <2>1. /\ dialogs = <<>>
        /\ UNCHANGED <<vault, shown, target, dialogs, reopen, enrolling, away, careful>>
        /\ modified' \in BOOLEAN /\ typed' \in BOOLEAN /\ armed' \in BOOLEAN
        /\ autolock' \in BOOLEAN
    BY <1>0, <1>2 DEF Activity, SetAutoLock, Edit, Save, Copy, Free, session, Types, IsOpen
  <2> QED
    BY <1>0, <2>1, WindowKeeps DEF Types
<1>3. CASE Close
  <2>1. /\ shown # NoVault /\ CloseVault(Taken, "nothing", <<>>)
        /\ UNCHANGED <<autolock, enrolling, away, careful>>
    BY <1>3 DEF Close
  <2> QED
    BY <1>0, <2>1, Closes
<1>4. CASE Logout
  <2>1. /\ shown # NoVault /\ UNCHANGED <<autolock, enrolling, away, careful>>
    BY <1>4 DEF Logout
  <2>2. CASE ~modified
    BY <1>0, <1>4, <2>1, <2>2, Closes DEF Logout
  <2>3. CASE modified
    <3>1. /\ dialogs' = <<Dialog("logout")>> \o <<>>
          /\ UNCHANGED <<vault, modified, typed, shown, target, armed, reopen>>
      BY <1>4, <2>3 DEF Logout, Show, session
    <3>2. Stack(dialogs', target) /\ Calm(dialogs')
      <4>1. Dialog("logout") \in Dialogs /\ Dialog("logout").kind = "logout"
        BY DialogsMade
      <4> QED
        BY <1>0, <3>1, <4>1, Push DEF UserKinds
    <3>3. careful => WindowInOrder' /\ EnrollmentInOrder'
      <4>1. careful => WindowInOrder /\ EnrollmentInOrder
        BY DEF Core, InOrder
      <4> QED
        BY <2>1, <3>1, <4>1 DEF WindowInOrder, EnrollmentInOrder, SessionOf, IsOpen, Due
    <3> QED
      BY <1>0, <2>1, <3>1, <3>2, <3>3, DialogsKeep DEF Types
  <2> QED
    BY <1>0, <2>2, <2>3 DEF Types
<1>5. CASE AnswerLogout /\ shown # NoVault
  <2>1. PICK flag \in Saved(Taken) \cup {Taken} : CloseVault(flag, "login", Below)
    BY <1>5 DEF AnswerLogout
  <2>2. Answer("logout") /\ UNCHANGED <<autolock, enrolling, away, careful>>
    BY <1>5 DEF AnswerLogout
  <2>3. Stack(Below, target) /\ (careful => Calm(Below)) /\ flag \in BOOLEAN
    BY <1>0, <2>1, <2>2, Answered
  <2> QED
    BY <1>5, <2>1, <2>2, <2>3, Closes
<1>6. CASE CancelLogout \/ (AnswerLogout /\ shown = NoVault)
  <2>1. /\ Answer("logout") /\ dialogs' = Below
        /\ UNCHANGED <<vault, modified, typed, shown, target, armed, autolock, reopen, enrolling,
                        away, careful>>
    BY <1>6 DEF CancelLogout, AnswerLogout, session
  <2>2. Stack(Below, target) /\ (careful => Calm(Below) /\ WindowInOrder /\ EnrollmentInOrder)
    BY <2>1, Answered
  <2>3. careful => WindowInOrder' /\ EnrollmentInOrder'
    BY <2>1, <2>2 DEF WindowInOrder, EnrollmentInOrder, SessionOf, IsOpen, Due
  <2> QED
    BY <1>0, <2>1, <2>2, <2>3, DialogsKeep DEF Types
<1>7. CASE AnswerClose \/ CancelClose
  <2>1. /\ Answer("close")
        /\ Afterwards(Head(dialogs).then, Head(dialogs).path, Below)
        /\ UNCHANGED <<armed, autolock, enrolling, away>>
        /\ \/ /\ vault' = NoVault /\ modified' = FALSE /\ shown' = NoVault /\ typed' = FALSE
              /\ careful' = careful
           \/ /\ UNCHANGED <<vault, modified, typed, shown>>
              /\ careful' = (careful /\ Head(dialogs).then = "nothing")
    BY <1>7 DEF AnswerClose, CancelClose, Closed, session
  <2>2. /\ dialogs # <<>> /\ Head(dialogs) \in Dialogs /\ Head(dialogs).kind = "close"
        /\ Stack(Below, target) /\ (careful => Calm(Below) /\ WindowInOrder)
    BY <2>1, Answered
  <2>3. Head(dialogs).then \in {"nothing", "login", "idle"} /\ Head(dialogs).path \in Paths
    BY <2>2, DialogFacts
  <2>4. careful => enrolling = NoVault /\ reopen = {}
    <3>1. careful => shown # NoVault
      BY <2>2 DEF Core, InOrder, AskedOnce, On
    <3> QED
      BY <3>1, NothingElse
  <2>5. careful' => /\ Calm(Below) /\ enrolling = NoVault /\ reopen = {}
                    /\ \/ Head(dialogs).then = "nothing" /\ WindowInOrder'
                       \/ shown' = NoVault
    BY <2>1, <2>2, <2>4 DEF WindowInOrder, IsOpen, Due
  <2> QED
    BY <1>0, <2>1, <2>2, <2>3, <2>5, Followed DEF Types
<1> QED
  BY <1>1, <1>2, <1>3, <1>4, <1>5, <1>6, <1>7 DEF WindowStep

\* The user management and the change of one's own password.
LEMMA UsersStepKeeps == ASSUME Core, UsersStep PROVE Core'
<1> USE DEF Modal, LoginKinds
<1>0. /\ Types /\ Stack(<<>>, target) /\ Calm(<<>>) /\ Taken \in BOOLEAN
      /\ vault \in Session \cup {NoVault} /\ Stack(dialogs, target)
      /\ (careful => Calm(<<>>) /\ WindowInOrder /\ EnrollmentInOrder)
  BY EmptyStack DEF Core, InOrder, Types, Taken
<1>1. ASSUME NEW below, Stack(below, target), careful => Calm(below), NEW d \in Dialogs,
             d.kind \notin Modal, d.kind \in UserKinds => below # <<>> /\ Head(below).kind = "users",
             dialogs' \in {below, <<d>> \o below}, modified' \in BOOLEAN,
             UNCHANGED <<vault, typed, shown, target, armed, autolock, reopen, enrolling, away,
                         careful>>
      PROVE  Core'
  <2>1. Stack(dialogs', target) /\ (careful => Calm(dialogs'))
    BY <1>1, Push
  <2>2. careful => WindowInOrder' /\ EnrollmentInOrder'
    BY <1>0, <1>1 DEF WindowInOrder, EnrollmentInOrder, SessionOf, IsOpen, Due
  <2> QED
    BY <1>0, <1>1, <2>1, <2>2, DialogsKeep DEF Types
<1>2. CASE ChangeMyPassword
  <2>1. /\ dialogs' = <<For("own", vault.user)>> \o <<>> /\ IsOpen
        /\ UNCHANGED <<vault, modified, typed, shown, target, armed, autolock, reopen, enrolling,
                        away, careful>>
    BY <1>2 DEF ChangeMyPassword, Show, session
  <2>2. vault.user \in Users
    BY <1>0, <2>1 DEF IsOpen, Session
  <2>3. For("own", vault.user) \in Dialogs /\ For("own", vault.user).kind = "own"
    BY <2>2, DialogsMade
  <2> QED
    BY <1>0, <1>1, <2>1, <2>3 DEF Types, UserKinds
<1>3. CASE AnswerOwnChange
  <2>1. /\ Answer("own") /\ dialogs' = Below
        /\ UNCHANGED <<typed, shown, target, armed, autolock, reopen, enrolling, away, careful>>
        /\ \/ IsOpen /\ vault' = After(Head(dialogs).user, "password") /\ modified' = TRUE
           \/ UNCHANGED <<vault, modified>>
    BY <1>3 DEF AnswerOwnChange
  <2>2. Stack(Below, target) /\ (careful => Calm(Below))
    BY <2>1, Answered
  <2>3. /\ vault' \in Session \cup {NoVault} /\ modified' \in BOOLEAN
        /\ \/ vault = NoVault /\ vault' = NoVault
           \/ /\ vault # NoVault /\ vault' # NoVault
              /\ vault'.path = vault.path /\ vault'.user = vault.user
              /\ vault'.due \subseteq vault.due
    BY <1>0, <2>1, AfterFacts, NoVaultAssumption DEF IsOpen, Types
  <2>4. careful => WindowInOrder' /\ EnrollmentInOrder'
    BY <1>0, <2>1, <2>3 DEF WindowInOrder, EnrollmentInOrder, SessionOf, IsOpen, Due
  <2> QED
    BY <1>0, <2>1, <2>2, <2>3, <2>4, DialogsKeep DEF Types
<1>4. CASE ManageUsers
  <2>1. /\ dialogs' = <<Dialog("users")>> \o <<>>
        /\ UNCHANGED <<vault, modified, typed, shown, target, armed, autolock, reopen, enrolling,
                        away, careful>>
    BY <1>4 DEF ManageUsers, UserManagementDialog, Show, session
  <2>2. Dialog("users") \in Dialogs /\ Dialog("users").kind = "users"
    BY DialogsMade
  <2> QED
    BY <1>0, <1>1, <2>1, <2>2 DEF Types, UserKinds
<1>5. CASE AskUsers
  <2>1. /\ Answer("users")
        /\ UNCHANGED <<vault, modified, typed, shown, target, armed, autolock, reopen, enrolling,
                        away, careful>>
        /\ \/ \E kind \in {"add", "remove", "reset"} : dialogs' = <<Dialog(kind)>> \o dialogs
           \/ dialogs' = Below
    BY <1>5 DEF AskUsers, Show, session
  <2>2. /\ dialogs # <<>> /\ Head(dialogs).kind = "users" /\ Stack(Below, target)
        /\ careful => Calm(dialogs) /\ Calm(Below)
    BY <2>1, Answered
  <2>3. \A kind \in {"add", "remove", "reset"} : Dialog(kind) \in Dialogs /\ Dialog(kind).kind = kind
    BY DialogsMade
  <2>4. CASE dialogs' = Below
    <3>1. Dialog("logout") \in Dialogs /\ Dialog("logout").kind = "logout"
      BY DialogsMade
    <3> QED
      BY <1>0, <1>1, <2>1, <2>2, <2>4, <3>1 DEF Types, UserKinds
  <2>5. ASSUME NEW kind \in {"add", "remove", "reset"}, dialogs' = <<Dialog(kind)>> \o dialogs
        PROVE  Core'
    BY <1>0, <1>1, <2>1, <2>2, <2>3, <2>5 DEF Types
  <2> QED
    BY <2>1, <2>4, <2>5
<1>6. CASE AnswerAdd \/ AnswerRemove \/ AnswerReset
  <2>1. PICK kind \in {"add", "remove", "reset"} : Answer(kind)
    BY <1>6 DEF AnswerAdd, AnswerRemove, AnswerReset
  <2>2. /\ UNCHANGED <<vault, typed, shown, target, armed, autolock, reopen, enrolling, away, careful>>
        /\ modified' \in BOOLEAN
        /\ \/ \E new \in BOOLEAN : dialogs' = <<Temporary(new)>> \o Below
           \/ dialogs' \in {dialogs, Below}
    BY <1>0, <1>6 DEF AnswerAdd, AnswerRemove, AnswerReset, Show, Types, IsOpen
  <2>3. /\ Stack(Below, target) /\ Below # <<>> /\ Head(Below).kind = "users"
        /\ careful => Calm(dialogs) /\ Calm(Below)
    BY <2>1, Answered DEF UserKinds
  <2>4. \A new \in BOOLEAN : Temporary(new) \in Dialogs /\ Temporary(new).kind = "temporary"
    BY DialogsMade
  <2>5. Dialog("logout") \in Dialogs /\ Dialog("logout").kind = "logout"
    BY DialogsMade
  <2>6. CASE dialogs' \in {dialogs, Below}
    <3>1. PICK below \in {dialogs, Below} : dialogs' = below
      BY <2>6
    <3> QED
      BY <1>0, <1>1, <2>2, <2>3, <2>5, <3>1 DEF UserKinds
  <2>7. ASSUME NEW new \in BOOLEAN, dialogs' = <<Temporary(new)>> \o Below PROVE Core'
    BY <1>1, <2>2, <2>3, <2>4, <2>7
  <2> QED
    BY <2>2, <2>6, <2>7
<1>7. CASE CopyTemporaryPassword
  BY <1>0, <1>7, WindowKeeps DEF CopyTemporaryPassword, session, Types
<1>8. CASE CloseTemporary \/ StayHere
  <2>1. PICK kind \in {"temporary", "switch"} : Answer(kind)
    BY <1>8 DEF CloseTemporary, StayHere
  <2>2. /\ dialogs' \in {Below, <<Dialog("switch")>> \o Below}
        /\ UNCHANGED <<vault, modified, typed, shown, target, armed, autolock, reopen, enrolling,
                        away, careful>>
    BY <1>8 DEF CloseTemporary, StayHere, Show, session
  <2>3. /\ Stack(Below, target) /\ Below # <<>> /\ Head(Below).kind = "users"
        /\ careful => Calm(Below)
    BY <2>1, Answered DEF UserKinds
  <2>4. Dialog("switch") \in Dialogs /\ Dialog("switch").kind = "switch"
    BY DialogsMade
  <2> QED
    BY <1>0, <1>1, <2>2, <2>3, <2>4 DEF Types
<1>9. CASE SwitchUser
  <2>1. /\ Answer("switch") /\ shown # NoVault
        /\ CloseVault(Taken, "login", Tail(Below))
        /\ UNCHANGED <<autolock, enrolling, away, careful>>
    BY <1>9 DEF SwitchUser
  <2>2. Stack(Below, target) /\ Below # <<>> /\ (careful => Calm(Below))
    BY <2>1, Answered DEF UserKinds
  <2>3. Stack(Tail(Below), target) /\ (careful => Calm(Tail(Below)))
    BY <2>2, CalmTop, Pop
  <2> QED
    BY <1>0, <2>1, <2>3, Closes
<1> QED
  BY <1>2, <1>3, <1>4, <1>5, <1>6, <1>7, <1>8, <1>9 DEF UsersStep

\* The end of an enrollment that leaves the window alone.
LEMMA EnrollmentEnds ==
    ASSUME Core, enrolling # NoVault, enrolling' = NoVault, vault' \in Session \cup {NoVault},
           modified' \in BOOLEAN,
           UNCHANGED <<typed, shown, target, dialogs, armed, autolock, reopen, away, careful>>
    PROVE  Core'
<1>1. Types' /\ Stack(dialogs', target')
  BY DEF Core, Types
<1>2. ASSUME careful PROVE InOrder'
  <2>1. Calm(dialogs) /\ shown = NoVault /\ Stack(dialogs, target) /\ reopen = {}
    BY <1>2, FlowIsCalm DEF Core, InOrder, OneFlow
  <2>2. Quiet(dialogs) /\ (dialogs # <<>> => Head(dialogs).kind \notin Modal)
    BY <2>1, CalmTop
  <2>3. ~On(LoginKinds)' /\ ~On({"close"})' /\ ~On({"change", "enroll", "pin"})'
        /\ ~On({"enroll", "pin"})'
    BY <2>2 DEF On, Modal, LoginKinds
  <2> QED
    BY <2>1, <2>2, <2>3 DEF InOrder, OneFlow, FlowsAreHidden, AskedOnce, WindowInOrder,
       EnrollmentInOrder, DialogInOrder
<1> QED
  BY <1>1, <1>2 DEF Core

\* Timers, idle callbacks and the end of an enrollment.
LEMMA LoopStepKeeps == ASSUME Core, LoopStep PROVE Core'
<1>0. /\ Types /\ Taken \in BOOLEAN /\ Stack(dialogs, target)
      /\ Saved(TRUE) \subseteq BOOLEAN /\ vault \in Session \cup {NoVault}
  BY DEF Core, Types, Taken, Saved
<1>1. CASE LockTimeout
  <2>1. armed /\ UNCHANGED <<autolock, enrolling, away, careful>>
    BY <1>1 DEF LockTimeout
  <2>2. CASE shown = NoVault
    BY <1>0, <1>1, <2>1, <2>2, WindowKeeps DEF LockTimeout, session, Types
  <2>3. CASE shown # NoVault
    <3>1. PICK flag \in IF modified THEN Saved(TRUE) ELSE {Taken} : CloseVault(flag, "idle", dialogs)
      BY <1>1, <2>3 DEF LockTimeout
    <3>2. flag \in BOOLEAN
      BY <1>0, <3>1
    <3>3. careful => Calm(dialogs)
      <4>1. careful => ~On(LoginKinds) /\ ~On({"close"})
        BY <2>1, <2>3, NothingElse DEF Core, InOrder, AskedOnce
      <4> QED
        BY <4>1, NoneOnTop
    <3> QED
      BY <1>0, <2>1, <2>3, <3>1, <3>2, <3>3, Closes
  <2> QED
    BY <2>2, <2>3
<1>2. CASE Reopen
  <2>1. PICK path \in reopen : HandleVaultOpen(path, dialogs) /\ reopen' = reopen \ {path}
    BY <1>2 DEF Reopen
  <2>2. UNCHANGED <<vault, modified, typed, shown, armed, autolock, enrolling, away, careful>>
    BY <1>2 DEF Reopen, session
  <2>3. careful => /\ Calm(dialogs) /\ shown = NoVault /\ enrolling = NoVault
                   /\ reopen' = {}
    <3>1. careful => OneFlow /\ Calm(dialogs) /\ shown = NoVault
      BY <2>1, FlowIsCalm DEF Core, InOrder
    <3> QED
      BY <2>1, <3>1 DEF OneFlow
  <2> QED
    BY <1>0, <2>1, <2>2, <2>3, Prompted DEF Types
<1>3. CASE ClipboardTimeout
  BY <1>0, <1>3, WindowKeeps DEF ClipboardTimeout, session, Types
<1>4. CASE EnrollFailed
  <2>1. /\ enrolling # NoVault /\ enrolling' = NoVault
        /\ dialogs' = <<For("enroll", enrolling)>> \o dialogs
        /\ UNCHANGED <<vault, modified, typed, shown, target, armed, autolock, reopen, away, careful>>
    BY <1>4 DEF EnrollFailed, Show, session
  <2>2. PICK user \in Users : user = enrolling
    BY <1>0, <2>1 DEF Types
  <2>3. target # NoVault
    BY <1>0, <2>1 DEF Types
  <2>4. careful => /\ Calm(dialogs) /\ reopen = {} /\ shown = NoVault
                   /\ SessionOf(user)' /\ ~Due'
    <3>1. careful => /\ Calm(dialogs) /\ reopen = {} /\ shown = NoVault
                     /\ SessionOf(user) /\ ~Due
      BY <2>1, <2>2, FlowIsCalm DEF Core, InOrder, OneFlow, EnrollmentInOrder
    <3> QED
      BY <2>1, <3>1 DEF SessionOf, IsOpen, Due
  <2> QED
    BY <1>0, <2>1, <2>2, <2>3, <2>4, Demanded DEF Types
<1>5. CASE EnrollDone
  <2> DEFINE enrolled == After(enrolling, "yubikey")
  <2>1. /\ enrolling # NoVault /\ enrolling' = NoVault
        /\ UNCHANGED <<target, dialogs, autolock, reopen, away, careful>>
    BY <1>5 DEF EnrollDone
  <2>2. CASE ~IsOpen
    BY <1>0, <1>5, <2>1, <2>2, EnrollmentEnds DEF EnrollDone, session, Types
  <2>3. CASE IsOpen
    <3>1. enrolled \in Session /\ enrolled.path = vault.path /\ enrolled.due \subseteq vault.due
      BY <1>0, <2>3, AfterFacts DEF IsOpen
    <3>2. \/ Success(enrolled, {FALSE})
          \/ vault' = enrolled /\ modified' = TRUE /\ UNCHANGED <<typed, shown, armed>>
      BY <1>5, <2>3 DEF EnrollDone
    <3>3. target # NoVault
      BY <1>0, <2>1 DEF Types
    <3>4. careful => /\ Calm(dialogs) /\ reopen = {} /\ vault.path = target
                     /\ "password" \notin vault.due
      BY <2>1, FlowIsCalm DEF Core, InOrder, OneFlow, EnrollmentInOrder, SessionOf, Due
    <3> HIDE DEF enrolled
    <3>5. CASE Success(enrolled, {FALSE})
      BY <1>0, <2>1, <3>1, <3>3, <3>4, <3>5, Succeeds
    <3>6. CASE vault' = enrolled /\ modified' = TRUE /\ UNCHANGED <<typed, shown, armed>>
      BY <2>1, <3>1, <3>6, EnrollmentEnds
    <3> QED
      BY <3>2, <3>5, <3>6
  <2> QED
    BY <2>2, <2>3
<1> QED
  BY <1>1, <1>2, <1>3, <1>4, <1>5 DEF LoopStep

-----------------------------------------------------------------------------
(* The results *)

\* The inductive invariant: Core is what the dialogs, the enrollments and the
\* idle callbacks keep, the rest what the clipboard does.
Inv == Core /\ ClipboardTypeOK /\ SecretsAreTimed

\* No sequence of dialogs, locks, enrollments, saves and copies breaks it.
THEOREM Invariance == Spec => []Inv
<1>1. Init => Inv
  <2> SUFFICES ASSUME Init PROVE Inv
    OBVIOUS
  <2>1. ClipboardTypeOK /\ SecretsAreTimed
    BY DEF Init, ClipboardInit, ClipboardTypeOK, SecretsAreTimed, Texts, Secrets
  <2>2. Types /\ Stack(dialogs, target)
    BY EmptyStack DEF Init, Types
  <2>3. InOrder
    BY EmptyStack DEF Init, InOrder, OneFlow, FlowsAreHidden, AskedOnce, WindowInOrder,
       EnrollmentInOrder, DialogInOrder, On
  <2> QED
    BY <2>1, <2>2, <2>3 DEF Inv, Core
<1>2. Inv /\ [Next]_vars => Inv'
  <2> SUFFICES ASSUME Inv, [Next]_vars PROVE Inv'
    OBVIOUS
  <2>1. ClipboardTypeOK' /\ SecretsAreTimed'
    BY ClipboardSteps, ClipboardKept DEF Inv
  <2>2. Core
    BY DEF Inv
  <2>3. ASSUME Leave \/ UNCHANGED vars PROVE Core'
    <3>1. /\ UNCHANGED <<vault, modified, typed, shown, target, dialogs, armed, autolock, reopen,
                         enrolling, careful>>
          /\ away' \in BOOLEAN
      BY <2>2, <2>3 DEF Leave, session, vars, Core, Types
    <3>2. /\ modified' \in BOOLEAN /\ typed' \in BOOLEAN /\ armed' \in BOOLEAN
          /\ autolock' \in BOOLEAN /\ (armed' => armed)
      BY <2>2, <3>1 DEF Core, Types
    <3> QED
      BY <2>2, <3>1, <3>2, WindowKeeps
  <2>4. Core'
    BY <2>2, <2>3, LoginKeeps, WindowStepKeeps, UsersStepKeeps, LoopStepKeeps DEF Next
  <2> QED
    BY <2>1, <2>4 DEF Inv
<1> QED
  BY <1>1, <1>2, PTL DEF Spec

\* The states are records, sets and sequences of the declared kinds, and every
\* question about a vault carries one.
THEOREM TypeCorrect == Spec => []TypeOK
<1>1. Inv => TypeOK
  BY DEF Inv, Core, Types, Stack, TypeOK
<1> QED
  BY <1>1, Invariance, PTL

\* The window shows the open vault.
THEOREM WindowAlwaysShows == Spec => []WindowShowsVault
<1>1. Inv => WindowShowsVault
  BY DEF Inv, Core, InOrder, WindowInOrder, WindowShowsVault
<1> QED
  BY <1>1, Invariance, PTL

\* The forced change comes before the window.
THEOREM ChangeAlwaysFirst == Spec => []CarefulChangeFirst
<1>1. Inv => CarefulChangeFirst
  BY DEF Inv, Core, InOrder, WindowInOrder, Due, CarefulChangeFirst
<1> QED
  BY <1>1, Invariance, PTL

\* A secret in the clipboard has a timer, and the preservation a safety timer.
THEOREM SecretsAlwaysTimed == Spec => []SecretsAreTimed
<1>1. Inv => SecretsAreTimed
  BY DEF Inv
<1> QED
  BY <1>1, Invariance, PTL
=============================================================================
