---------------------------- MODULE ListProofs ----------------------------
(***************************************************************************)
(* Proofs about Groups and AccountList, two components that thin out lists *)
(* by a test.  For all ids, names and numbers of groups and accounts,      *)
(* groups stay distinct, memberships dangle only where an undo brings them *)
(* back, an operation that is not saved has changed nothing, and the list  *)
(* of accounts, once refreshed, shows what the user may see, all of it.    *)
(* They rest on what AtPositions, a recursive function, does to any list.  *)
(* That is shown by induction over the natural numbers, in the form that   *)
(* a set with zero and every successor has them all.                       *)
(***************************************************************************)
EXTENDS Groups, AccountList, WellFoundedInduction, SequenceTheorems, TLAPS

-----------------------------------------------------------------------------
(* Selecting by position *)

\* r is what the first n elements of s have at the positions in P, in their order.
Picks(r, s, P, n) ==
    \E f \in [1..Len(r) -> (1..n) \cap P] :
        /\ \A k \in 1..Len(r) : r[k] = s[f[k]]
        /\ \A j, k \in 1..Len(r) : j < k => f[j] < f[k]
        /\ \A i \in (1..n) \cap P : \E k \in 1..Len(r) : f[k] = i

\* The order of the naturals, as a set, is well-founded.
LEMMA Smaller == IsWellFoundedOn({ss \in Nat \X Nat : ss[1] < ss[2]}, Nat)
<1>1. OpToRel(<, Nat) = {ss \in Nat \X Nat : ss[1] < ss[2]}
  BY DEF OpToRel
<1> QED
  BY <1>1, NatLessThanWellFounded, Zenon

\* A set with zero and every successor has every natural.
LEMMA Upwards ==
    ASSUME NEW T \in SUBSET Nat, 0 \in T, \A n \in T : n + 1 \in T
    PROVE  T = Nat
<1>1. SUFFICES ASSUME Nat \ T # {} PROVE FALSE
  OBVIOUS
<1>2. \E x \in Nat \ T : \A y \in Nat \ T : ~(<<y, x>> \in {ss \in Nat \X Nat : ss[1] < ss[2]})
  BY <1>1, Smaller, WFMin
<1>3. PICK x \in Nat \ T : \A y \in Nat \ T : ~(y < x)
  BY <1>2
<1> QED
  BY <1>3

\* The function that AtPositions defines recursively, and one step of it.
Body(g, s, P, n) ==
    IF n = 0 THEN <<>>
    ELSE IF n \in P THEN Append(g[n - 1], s[n]) ELSE g[n - 1]

Nth(s, P) == CHOOSE g : g = [n \in 0..Len(s) |-> Body(g, s, P, n)]

\* There is such a function: one for the first n elements can be extended.
LEMMA NthExists ==
    ASSUME NEW S, NEW s \in Seq(S), NEW P
    PROVE  Nth(s, P) = [n \in 0..Len(s) |-> Body(Nth(s, P), s, P, n)]
<1> DEFINE Works(n) == \E g : g = [m \in 0..n |-> Body(g, s, P, m)]
           T == {n \in Nat : Works(n)}
<1>1. Works(0)
  <2> DEFINE g == [m \in 0..0 |-> <<>>]
  <2>1. g = [m \in 0..0 |-> Body(g, s, P, m)]
    BY DEF Body
  <2> QED
    BY <2>1
<1>2. ASSUME NEW n \in Nat, Works(n) PROVE Works(n + 1)
  <2>1. PICK g : g = [m \in 0..n |-> Body(g, s, P, m)]
    BY <1>2
  <2> DEFINE h == [m \in 0..n + 1 |-> IF m = n + 1 THEN Body(g, s, P, n + 1) ELSE g[m]]
  <2>2. ASSUME NEW m \in 0..n + 1 PROVE h[m] = Body(h, s, P, m)
    <3>1. \A k \in 0..n : h[k] = g[k]
      OBVIOUS
    <3>2. m # 0 => m - 1 \in 0..n
      OBVIOUS
    <3>3. Body(g, s, P, m) = Body(h, s, P, m)
      BY <3>1, <3>2 DEF Body
    <3>4. h[m] = Body(g, s, P, m)
      <4>1. CASE m = n + 1
        BY <4>1
      <4>2. CASE m # n + 1
        <5>1. m \in 0..n /\ h[m] = g[m]
          BY <4>2
        <5> HIDE DEF h
        <5>2. g[m] = Body(g, s, P, m)
          BY <2>1, <5>1
        <5> QED
          BY <5>1, <5>2
      <4> QED
        BY <4>1, <4>2
    <3> QED
      BY <3>3, <3>4
  <2>3. h = [m \in 0..n + 1 |-> h[m]]
    OBVIOUS
  <2> HIDE DEF h
  <2>4. h = [m \in 0..n + 1 |-> Body(h, s, P, m)]
    BY <2>2, <2>3
  <2> QED
    BY <2>4
<1> HIDE DEF Works
<1>3. T = Nat
  <2>1. T \in SUBSET Nat /\ 0 \in T /\ \A n \in T : n + 1 \in T
    BY <1>1, <1>2
  <2> HIDE DEF T
  <2> QED
    BY <2>1, Upwards
<1>4. Works(Len(s))
  BY <1>3
<1> QED
  BY <1>4 DEF Works, Nth

\* Its last value is what AtPositions is.
LEMMA AtPositionsIsNth == ASSUME NEW s, NEW P PROVE AtPositions(s, P) = Nth(s, P)[Len(s)]
BY DEF AtPositions, Nth, Body

\* It picks the elements at the positions in P, and nothing else.
LEMMA AtPositionsPicks ==
    ASSUME NEW S, NEW s \in Seq(S), NEW P
    PROVE  /\ AtPositions(s, P) \in Seq(S)
           /\ Picks(AtPositions(s, P), s, P, Len(s))
<1> DEFINE g == Nth(s, P)
           Good(n) == g[n] \in Seq(S) /\ Picks(g[n], s, P, n)
           T == {n \in Nat : n <= Len(s) => Good(n)}
<1>0. \A n \in 0..Len(s) : g[n] = Body(g, s, P, n)
  BY NthExists
<1> HIDE DEF g
<1>1. Good(0)
  <2>1. g[0] = <<>> /\ <<>> \in Seq(S) /\ Len(<<>>) = 0
    BY <1>0 DEF Body
  <2> DEFINE f == [k \in 1..0 |-> 1]
  <2>2. f \in [1..Len(<<>>) -> (1..0) \cap P]
    OBVIOUS
  <2> HIDE DEF f
  <2>3. Picks(<<>>, s, P, 0)
    <3>1. (1..0) \cap P = {} /\ 1..Len(<<>>) = {}
      BY <2>1
    <3> QED
      BY <2>2, <3>1 DEF Picks
  <2> QED
    BY <2>1, <2>3, Zenon
<1>2. ASSUME NEW n \in Nat, n + 1 <= Len(s), Good(n) PROVE Good(n + 1)
  <2>1. g[n + 1] = Body(g, s, P, n + 1) /\ n + 1 # 0 /\ (n + 1) - 1 = n
    BY <1>0, <1>2
  <2> DEFINE r == g[n]
             e == s[n + 1]
  <2>2. r \in Seq(S) /\ e \in S /\ Len(r) \in Nat
    BY <1>2
  <2>3. PICK f \in [1..Len(r) -> (1..n) \cap P] :
            /\ \A k \in 1..Len(r) : r[k] = s[f[k]]
            /\ \A j, k \in 1..Len(r) : j < k => f[j] < f[k]
            /\ \A i \in (1..n) \cap P : \E k \in 1..Len(r) : f[k] = i
    BY <1>2 DEF Picks
  <2>4. CASE n + 1 \in P
    <3> DEFINE t == Append(r, e)
               h == [k \in 1..Len(r) + 1 |-> IF k = Len(r) + 1 THEN n + 1 ELSE f[k]]
    <3>1. g[n + 1] = t
      BY <2>1, <2>4 DEF Body
    <3> HIDE DEF r, e
    <3>2. /\ t \in Seq(S) /\ Len(t) = Len(r) + 1 /\ t[Len(r) + 1] = e
          /\ \A k \in 1..Len(r) : t[k] = r[k]
      BY <2>2
    <3>3. /\ h[Len(r) + 1] = n + 1
          /\ \A k \in 1..Len(r) : h[k] = f[k]
          /\ h \in [1..Len(r) + 1 -> (1..n + 1) \cap P]
      BY <2>2, <2>4
    <3> HIDE DEF t, h
    <3>4. \A k \in 1..Len(t) : t[k] = s[h[k]]
      BY <2>2, <2>3, <3>2, <3>3 DEF e
    <3>5. ASSUME NEW j \in 1..Len(t), NEW k \in 1..Len(t), j < k PROVE h[j] < h[k]
      <4>1. j \in 1..Len(r) /\ h[j] = f[j]
        BY <2>2, <3>2, <3>3, <3>5
      <4>2. CASE k = Len(r) + 1
        <5>1. f[j] \in 1..n
          BY <2>3, <4>1
        <5> QED
          BY <3>3, <4>1, <4>2, <5>1
      <4>3. CASE k # Len(r) + 1
        <5>1. k \in 1..Len(r) /\ h[k] = f[k]
          BY <2>2, <3>2, <3>3, <4>3
        <5> QED
          BY <2>3, <3>5, <4>1, <5>1
      <4> QED
        BY <4>2, <4>3
    <3>6. ASSUME NEW i \in (1..n + 1) \cap P PROVE \E k \in 1..Len(t) : h[k] = i
      <4>1. CASE i = n + 1
        BY <2>2, <3>2, <3>3, <4>1
      <4>2. CASE i # n + 1
        <5>1. i \in (1..n) \cap P
          BY <4>2
        <5>2. PICK k \in 1..Len(r) : f[k] = i
          BY <2>3, <5>1
        <5> QED
          BY <2>2, <3>2, <3>3, <5>2
      <4> QED
        BY <4>1, <4>2
    <3>7. Picks(t, s, P, n + 1)
      <4>1. h \in [1..Len(t) -> (1..n + 1) \cap P]
        BY <3>2, <3>3
      <4> QED
        BY <3>4, <3>5, <3>6, <4>1 DEF Picks
    <3> QED
      BY <3>1, <3>2, <3>7
  <2>5. CASE n + 1 \notin P
    <3>1. g[n + 1] = r
      BY <2>1, <2>5 DEF Body
    <3>2. (1..n + 1) \cap P = (1..n) \cap P
      BY <2>5
    <3>3. Picks(r, s, P, n + 1)
      BY <2>3, <3>2 DEF Picks
    <3> QED
      BY <2>2, <3>1, <3>3
  <2> QED
    BY <2>4, <2>5
<1> HIDE DEF Good
<1>3. T = Nat
  <2>1. T \in SUBSET Nat /\ 0 \in T /\ \A n \in T : n + 1 \in T
    BY <1>1, <1>2
  <2> HIDE DEF T
  <2> QED
    BY <2>1, Upwards
<1>4. Good(Len(s)) /\ AtPositions(s, P) = g[Len(s)]
  BY <1>3, AtPositionsIsNth DEF g
<1> QED
  BY <1>4 DEF Good

\* The elements of r are some that s has at the positions in P, ...
From(r, s, P) == \A k \in 1..Len(r) : \E i \in (1..Len(s)) \cap P : r[k] = s[i]
\* ... each from a place of its own, ...
Apart(r, s) == \A j, k \in 1..Len(r) : j # k =>
    \E i, l \in 1..Len(s) : i # l /\ r[j] = s[i] /\ r[k] = s[l]
\* ... and everything there is among them.
Covers(r, s, P) == \A i \in (1..Len(s)) \cap P : \E k \in 1..Len(r) : r[k] = s[i]

\* AtPositions leaves just these.
LEMMA Selected ==
    ASSUME NEW S, NEW s \in Seq(S), NEW P, NEW r, r = AtPositions(s, P)
    PROVE  r \in Seq(S) /\ From(r, s, P) /\ Apart(r, s) /\ Covers(r, s, P)
<1>1. r \in Seq(S) /\ Picks(r, s, P, Len(s))
  BY AtPositionsPicks
<1>2. PICK f \in [1..Len(r) -> (1..Len(s)) \cap P] :
        /\ \A k \in 1..Len(r) : r[k] = s[f[k]]
        /\ \A j, k \in 1..Len(r) : j < k => f[j] < f[k]
        /\ \A i \in (1..Len(s)) \cap P : \E k \in 1..Len(r) : f[k] = i
  BY <1>1 DEF Picks
<1>3. \A k \in 1..Len(r) : f[k] \in (1..Len(s)) \cap P
  BY <1>2
<1>4. ASSUME NEW j \in 1..Len(r), NEW k \in 1..Len(r), j # k
      PROVE  \E i, l \in 1..Len(s) : i # l /\ r[j] = s[i] /\ r[k] = s[l]
  <2>1. f[j] # f[k]
    <3>1. Len(r) \in Nat /\ Len(s) \in Nat
      BY <1>1
    <3>2. j < k \/ k < j
      BY <1>4, <3>1
    <3> QED
      BY <1>2, <1>3, <3>1, <3>2
  <2> QED
    BY <1>2, <1>3, <2>1
<1>5. \A k \in 1..Len(r) : \E i \in (1..Len(s)) \cap P : r[k] = s[i]
  BY <1>2, <1>3
<1>6. ASSUME NEW i \in (1..Len(s)) \cap P PROVE \E k \in 1..Len(r) : r[k] = s[i]
  <2>1. PICK k \in 1..Len(r) : f[k] = i
    BY <1>2
  <2> QED
    BY <1>2, <2>1
<1> QED
  BY <1>1, <1>4, <1>5, <1>6 DEF From, Apart, Covers

\* Where the positions are those of the first m elements, these are what is left.
First(r, s, m) == Len(r) = m /\ \A k \in 1..m : r[k] = s[k]

\* AtPositions leaves them in their places.
LEMMA SelectedFirst ==
    ASSUME NEW S, NEW s \in Seq(S), NEW P, NEW m \in Nat, (1..Len(s)) \cap P = 1..m,
           NEW r, r = AtPositions(s, P)
    PROVE  r \in Seq(S) /\ First(r, s, m)
<1>1. r \in Seq(S) /\ Picks(r, s, P, Len(s))
  BY AtPositionsPicks
<1> DEFINE X == (1..Len(s)) \cap P
<1>a. PICK f \in [1..Len(r) -> X] :
        /\ \A k \in 1..Len(r) : r[k] = s[f[k]]
        /\ \A j, k \in 1..Len(r) : j < k => f[j] < f[k]
        /\ \A i \in X : \E k \in 1..Len(r) : f[k] = i
  BY <1>1 DEF Picks
<1>b. X = 1..m
  OBVIOUS
<1> HIDE DEF X
<1>2. /\ f \in [1..Len(r) -> 1..m]
      /\ \A k \in 1..Len(r) : r[k] = s[f[k]]
      /\ \A j, k \in 1..Len(r) : j < k => f[j] < f[k]
      /\ \A i \in 1..m : \E k \in 1..Len(r) : f[k] = i
  BY <1>a, <1>b
<1>3. Len(r) \in Nat
  BY <1>1
<1> DEFINE T == {n \in Nat : \A k \in 1..n : k <= Len(r) => f[k] = k}
<1>4. ASSUME NEW n \in Nat, \A k \in 1..n : k <= Len(r) => f[k] = k, n + 1 <= Len(r)
      PROVE  f[n + 1] = n + 1
  <2>1. n + 1 \in 1..Len(r) /\ f[n + 1] \in 1..m
    BY <1>2, <1>3, <1>4
  <2>2. f[n + 1] >= n + 1
    <3>1. CASE n = 0
      BY <2>1, <3>1
    <3>2. CASE n # 0
      <4>1. n \in 1..Len(r) /\ f[n] = n /\ n < n + 1
        BY <1>3, <1>4, <3>2
      <4>2. f[n] < f[n + 1]
        BY <1>2, <2>1, <4>1
      <4> QED
        BY <2>1, <4>1, <4>2
    <3> QED
      BY <3>1, <3>2
  <2>3. n + 1 \in 1..m
    BY <2>1, <2>2
  <2>4. PICK k \in 1..Len(r) : f[k] = n + 1
    BY <1>2, <2>3
  <2>5. k >= n + 1
    <3>1. ASSUME k <= n PROVE FALSE
      BY <1>3, <1>4, <2>4, <3>1
    <3> QED
      BY <1>3, <3>1
  <2>6. CASE k = n + 1
    BY <2>4, <2>6
  <2>7. CASE k # n + 1
    <3>1. n + 1 < k
      BY <1>3, <2>5, <2>7
    <3>2. f[n + 1] < f[k]
      BY <1>2, <2>1, <3>1
    <3> QED
      BY <2>1, <2>2, <2>4, <3>2
  <2> QED
    BY <2>6, <2>7
<1>5. T = Nat
  <2>1. T \in SUBSET Nat /\ 0 \in T
    OBVIOUS
  <2>2. ASSUME NEW n \in T PROVE n + 1 \in T
    <3>1. n \in Nat /\ \A k \in 1..n : k <= Len(r) => f[k] = k
      OBVIOUS
    <3>2. n + 1 <= Len(r) => f[n + 1] = n + 1
      BY <1>4, <3>1
    <3>3. \A k \in 1..n + 1 : k \in 1..n \/ k = n + 1
      BY <3>1
    <3> QED
      BY <3>1, <3>2, <3>3
  <2> HIDE DEF T
  <2> QED
    BY <2>1, <2>2, Upwards
<1>6. \A k \in 1..Len(r) : f[k] = k
  <2>1. Len(r) \in T
    BY <1>3, <1>5
  <2> QED
    BY <1>3, <2>1
<1>7. Len(r) = m
  <2>1. ASSUME Len(r) < m PROVE FALSE
    <3>1. m \in 1..m
      BY <1>3, <2>1
    <3>2. PICK k \in 1..Len(r) : f[k] = m
      BY <1>2, <3>1
    <3> QED
      BY <1>3, <1>6, <2>1, <3>2
  <2>2. ASSUME Len(r) > m PROVE FALSE
    <3>1. Len(r) \in 1..Len(r)
      BY <1>3, <2>2
    <3>2. f[Len(r)] = Len(r) /\ f[Len(r)] \in 1..m
      BY <1>2, <1>6, <3>1
    <3> QED
      BY <1>3, <2>2, <3>2
  <2> QED
    BY <1>3, <2>1, <2>2
<1>8. \A k \in 1..m : r[k] = s[k]
  BY <1>2, <1>6, <1>7
<1> QED
  BY <1>1, <1>7, <1>8 DEF First

-----------------------------------------------------------------------------
(* The types, and what it means for the groups of a vault to be distinct *)

Group == [id : GroupIds, name : Names, system : BOOLEAN, order : Int]
Member == [group : GroupIds, order : Int]
GroupAccount == [member : Seq(Member)]
Data == [groups : Seq(Group), accounts : Seq(GroupAccount)]

Types ==
    /\ open \in BOOLEAN /\ modified \in BOOLEAN
    /\ data \in Data /\ file \in Data
    /\ kept \in Seq(GroupAccount) /\ asked \in GroupIds \cup {NoGroup}

Different(g, h) == g.id # h.id /\ (g.name # h.name \/ g.system # h.system)
AllDifferent(d) ==
    \A i, j \in 1..Len(d.groups) : i # j => Different(d.groups[i], d.groups[j])

Inv == Types /\ AllDifferent(data) /\ AllDifferent(file)

\* The invariant says of the groups what GroupsAreDistinct does.
LEMMA DistinctMeans == Inv => GroupsAreDistinct
BY DEF Inv, AllDifferent, Different, GroupsAreDistinct, Distinct

\* What an operation makes of a vault's data: it keeps the types, the groups
\* different, and leaves no more memberships dangling than there were.
Keeps(d, e) ==
    /\ e \in Data
    /\ AllDifferent(d) => AllDifferent(e)
    /\ Dangling(e) \subseteq Dangling(d)

-----------------------------------------------------------------------------
(* The operations of GroupManager *)

\* What it takes for the groups to be no less different, and the memberships
\* no more dangling: each group of e is one of d, each at a place of its own.
LEMMA FewerGroups ==
    ASSUME NEW d \in Data, NEW e \in Data, AllDifferent(d), Apart(e.groups, d.groups)
    PROVE  AllDifferent(e)
<1> SUFFICES ASSUME NEW i \in 1..Len(e.groups), NEW j \in 1..Len(e.groups), i # j
             PROVE  Different(e.groups[i], e.groups[j])
  BY DEF AllDifferent
<1>1. PICK k \in 1..Len(d.groups), l \in 1..Len(d.groups) :
            k # l /\ e.groups[i] = d.groups[k] /\ e.groups[j] = d.groups[l]
  BY DEF Apart
<1> QED
  BY <1>1 DEF AllDifferent

\* A new group, whose id is new, and whose name is among groups of its kind.
LEMMA WithGroupKeeps ==
    ASSUME NEW d \in Data, NEW id \in GroupIds, NEW name \in Names, NEW system \in BOOLEAN,
           NEW order \in Int, id \notin IdsOf(d.groups),
           \A i \in 1..Len(d.groups) : d.groups[i].name # name \/ d.groups[i].system # system
    PROVE  Keeps(d, WithGroup(d, id, name, system, order))
<1> DEFINE g == [id |-> id, name |-> name, system |-> system, order |-> order]
           e == WithGroup(d, id, name, system, order)
<1>1. /\ d.groups \in Seq(Group) /\ d.accounts \in Seq(GroupAccount)
      /\ e = [d EXCEPT !.groups = Append(d.groups, g)]
  BY DEF Data, WithGroup
<1>2. g \in Group /\ g.id = id /\ g.name = name /\ g.system = system
  BY DEF Group
<1> HIDE DEF g, e
<1>3. e.groups = Append(d.groups, g) /\ e.accounts = d.accounts /\ e \in Data
  <2>1. Append(d.groups, g) \in Seq(Group)
    BY <1>1, <1>2
  <2> QED
    BY <1>1, <2>1 DEF Data
<1>4. /\ Len(d.groups) \in Nat /\ Len(e.groups) = Len(d.groups) + 1
      /\ e.groups[Len(d.groups) + 1] = g
      /\ \A i \in 1..Len(d.groups) : e.groups[i] = d.groups[i]
  BY <1>1, <1>2, <1>3
<1>5. ASSUME AllDifferent(d) PROVE AllDifferent(e)
  <2>1. \A i \in 1..Len(d.groups) :
            Different(d.groups[i], g) /\ Different(g, d.groups[i])
    BY <1>2 DEF Different, IdsOf
  <2>2. \A i \in 1..Len(e.groups) : i \in 1..Len(d.groups) \/ i = Len(d.groups) + 1
    BY <1>4
  <2> QED
    BY <1>4, <1>5, <2>1, <2>2 DEF AllDifferent
<1>6. Dangling(e) \subseteq Dangling(d)
  <2>1. \A i \in 1..Len(d.groups) : i \in 1..Len(e.groups)
    BY <1>4
  <2>2. IdsOf(d.groups) \subseteq IdsOf(e.groups)
    BY <1>4, <2>1 DEF IdsOf
  <2>3. Referred(e.accounts) = Referred(d.accounts)
    BY <1>3
  <2> QED
    BY <2>2, <2>3 DEF Dangling
<1> QED
  BY <1>3, <1>5, <1>6 DEF Keeps, e

\* If every membership there is was one before, or is in a group there was, and
\* no group goes, nothing dangles that did not.
LEMMA NoneDangle ==
    ASSUME NEW d, NEW e, IdsOf(d.groups) \subseteq IdsOf(e.groups),
           Referred(e.accounts) \subseteq Referred(d.accounts) \cup IdsOf(d.groups)
    PROVE  Dangling(e) \subseteq Dangling(d)
BY DEF Dangling

\* The groups but one.
LEMMA OtherGroupsFacts ==
    ASSUME NEW s \in Seq(Group), NEW id, NEW r, r = OtherGroups(s, id)
    PROVE  r \in Seq(Group) /\ Apart(r, s) /\ IdsOf(s) \ {id} \subseteq IdsOf(r)
<1> DEFINE P == {i \in 1..Len(s) : s[i].id # id}
<1>1. r \in Seq(Group) /\ Apart(r, s) /\ Covers(r, s, P)
  <2>1. r = AtPositions(s, P)
    BY DEF OtherGroups
  <2> HIDE DEF P
  <2> QED
    BY <2>1, Selected
<1>2. ASSUME NEW g \in IdsOf(s) \ {id} PROVE g \in IdsOf(r)
  <2>1. PICK i \in (1..Len(s)) \cap P : s[i].id = g
    BY <1>2 DEF IdsOf
  <2>2. PICK k \in 1..Len(r) : r[k] = s[i]
    BY <1>1 DEF Covers
  <2> QED
    BY <2>1, <2>2 DEF IdsOf
<1> QED
  BY <1>1, <1>2

\* An account without its memberships in a group.
LEMMA OutsideFacts ==
    ASSUME NEW a \in GroupAccount, NEW id
    PROVE  /\ Outside(a, id) \in GroupAccount
           /\ GroupsOf(Outside(a, id)) \subseteq GroupsOf(a) \ {id}
           /\ id \notin GroupsOf(a) => Outside(a, id) = a
<1> DEFINE P == {j \in 1..Len(a.member) : a.member[j].group # id}
           r == AtPositions(a.member, P)
<1>1. a.member \in Seq(Member) /\ a = [member |-> a.member]
  BY DEF GroupAccount
<1>2. Outside(a, id) = [member |-> r]
  <2>1. Outside(a, id) = [a EXCEPT !.member = r]
    BY DEF Outside
  <2> HIDE DEF r
  <2> QED
    BY <1>1, <2>1
<1>3. r \in Seq(Member) /\ From(r, a.member, P)
  <2> HIDE DEF P
  <2> QED
    BY <1>1, Selected
<1>4. ASSUME id \notin GroupsOf(a) PROVE r = a.member
  <2>1. (1..Len(a.member)) \cap P = 1..Len(a.member)
    BY <1>4 DEF GroupsOf
  <2>2. Len(a.member) \in Nat
    BY <1>1
  <2> HIDE DEF P, r
  <2>3. First(r, a.member, Len(a.member))
    BY <1>1, <2>1, <2>2, SelectedFirst DEF r
  <2> QED
    BY <1>1, <1>3, <2>3 DEF First
<1>5. ASSUME NEW g \in GroupsOf(Outside(a, id)) PROVE g \in GroupsOf(a) \ {id}
  <2>1. PICK k \in 1..Len(r) : r[k].group = g
    BY <1>2, <1>5 DEF GroupsOf
  <2>2. PICK j \in (1..Len(a.member)) \cap P : r[k] = a.member[j]
    BY <1>3 DEF From
  <2> QED
    BY <2>1, <2>2 DEF GroupsOf
<1> HIDE DEF r
<1> QED
  BY <1>1, <1>2, <1>3, <1>4, <1>5 DEF GroupAccount

\* A group goes, and every membership in it.
LEMMA WithoutGroupKeeps ==
    ASSUME NEW d \in Data, NEW id \in GroupIds
    PROVE  Keeps(d, WithoutGroup(d, id))
<1> DEFINE gs == OtherGroups(d.groups, id)
           as == [i \in 1..Len(d.accounts) |-> Outside(d.accounts[i], id)]
           e == [groups |-> gs, accounts |-> as]
<1>1. d.groups \in Seq(Group) /\ d.accounts \in Seq(GroupAccount) /\ Len(d.accounts) \in Nat
  BY DEF Data
<1>2. gs \in Seq(Group) /\ Apart(gs, d.groups) /\ IdsOf(d.groups) \ {id} \subseteq IdsOf(gs)
  BY <1>1, OtherGroupsFacts
<1>3. as \in Seq(GroupAccount) /\ Len(as) = Len(d.accounts)
  <2>1. \A i \in 1..Len(d.accounts) : Outside(d.accounts[i], id) \in GroupAccount
    BY <1>1, OutsideFacts
  <2> QED
    BY <1>1, <2>1
<1>4. \A i \in 1..Len(d.accounts) : GroupsOf(as[i]) \subseteq GroupsOf(d.accounts[i]) \ {id}
  BY <1>1, OutsideFacts
<1> HIDE DEF gs, as
<1>5. e \in Data /\ e.groups = gs /\ e.accounts = as
  BY <1>2, <1>3 DEF Data
<1> HIDE DEF e
<1>6. ASSUME AllDifferent(d) PROVE AllDifferent(e)
  BY <1>2, <1>5, <1>6, FewerGroups
<1>7. Referred(e.accounts) \subseteq Referred(d.accounts) \ {id}
  BY <1>3, <1>4, <1>5 DEF Referred
<1>8. Dangling(e) \subseteq Dangling(d)
  BY <1>2, <1>5, <1>7 DEF Dangling
<1>9. WithoutGroup(d, id) = e
  BY DEF WithoutGroup, e, gs, as
<1> QED
  BY <1>5, <1>6, <1>8, <1>9 DEF Keeps

\* A group that was just made, which nothing is in, goes without a trace.
LEMMA WithoutTrace ==
    ASSUME NEW d \in Data, NEW id \in GroupIds, NEW name \in Names, NEW system \in BOOLEAN,
           NEW order \in Int, id \notin IdsOf(d.groups), id \notin Referred(d.accounts)
    PROVE  WithoutGroup(WithGroup(d, id, name, system, order), id) = d
<1> DEFINE g == [id |-> id, name |-> name, system |-> system, order |-> order]
           t == Append(d.groups, g)
           P == {i \in 1..Len(t) : t[i].id # id}
           r == AtPositions(t, P)
           as == [i \in 1..Len(d.accounts) |-> Outside(d.accounts[i], id)]
<1>1. /\ d.groups \in Seq(Group) /\ d.accounts \in Seq(GroupAccount)
      /\ Len(d.groups) \in Nat /\ Len(d.accounts) \in Nat
      /\ d = [groups |-> d.groups, accounts |-> d.accounts]
  BY DEF Data
<1>2. g \in Group /\ g.id = id
  BY DEF Group
<1>3. WithoutGroup(WithGroup(d, id, name, system, order), id) = [groups |-> r, accounts |-> as]
  <2>1. WithGroup(d, id, name, system, order) = [groups |-> t, accounts |-> d.accounts]
    <3>1. WithGroup(d, id, name, system, order) = [d EXCEPT !.groups = t]
      BY DEF WithGroup
    <3> HIDE DEF t
    <3> QED
      BY <1>1, <3>1
  <2> HIDE DEF t
  <2> QED
    BY <2>1 DEF WithoutGroup, OtherGroups
<1> HIDE DEF g
<1>4. /\ t \in Seq(Group) /\ Len(t) = Len(d.groups) + 1 /\ t[Len(d.groups) + 1] = g
      /\ \A i \in 1..Len(d.groups) : t[i] = d.groups[i]
  BY <1>1, <1>2
<1> HIDE DEF t
<1>5. (1..Len(t)) \cap P = 1..Len(d.groups)
  <2>1. \A i \in 1..Len(t) : i \in 1..Len(d.groups) \/ i = Len(d.groups) + 1
    BY <1>1, <1>4
  <2>2. \A i \in 1..Len(d.groups) : i \in 1..Len(t) /\ t[i].id # id
    BY <1>1, <1>4 DEF IdsOf
  <2>3. Len(d.groups) + 1 \notin 1..Len(d.groups)
    BY <1>1
  <2> QED
    BY <1>2, <1>4, <2>1, <2>2, <2>3
<1> HIDE DEF P
<1>6. r \in Seq(Group) /\ First(r, t, Len(d.groups))
  BY <1>1, <1>4, <1>5, SelectedFirst
<1> HIDE DEF r
<1>7. r = d.groups
  BY <1>1, <1>4, <1>6 DEF First
<1>8. as = d.accounts
  <2>1. ASSUME NEW i \in 1..Len(d.accounts) PROVE Outside(d.accounts[i], id) = d.accounts[i]
    <3>1. id \notin GroupsOf(d.accounts[i]) /\ d.accounts[i] \in GroupAccount
      BY <1>1 DEF Referred
    <3> QED
      BY <3>1, OutsideFacts
  <2> QED
    BY <1>1, <2>1
<1> QED
  BY <1>1, <1>3, <1>7, <1>8

\* A field of groups changes: their ids do not.
LEMMA SameIds ==
    ASSUME NEW d \in Data, NEW gs \in Seq(Group), Len(gs) = Len(d.groups),
           \A i \in 1..Len(gs) : gs[i].id = d.groups[i].id,
           NEW e, e = [d EXCEPT !.groups = gs]
    PROVE  e \in Data /\ e.groups = gs /\ Dangling(e) \subseteq Dangling(d)
<1>1. e \in Data /\ e.groups = gs /\ e.accounts = d.accounts
  BY DEF Data
<1>2. IdsOf(d.groups) \subseteq IdsOf(gs)
  BY DEF IdsOf
<1> QED
  BY <1>1, <1>2 DEF Dangling

\* A group gets a name that no other group has.
LEMMA RenamedKeeps ==
    ASSUME NEW d \in Data, NEW id \in GroupIds, NEW name \in Names, ~NameTaken(d, name, id)
    PROVE  Keeps(d, Renamed(d, id, name))
<1> DEFINE gs == [i \in 1..Len(d.groups) |->
                    IF d.groups[i].id = id THEN [d.groups[i] EXCEPT !.name = name]
                    ELSE d.groups[i]]
           e == Renamed(d, id, name)
<1>1. d.groups \in Seq(Group) /\ Len(d.groups) \in Nat
  BY DEF Data
<1>2. e = [d EXCEPT !.groups = gs]
  BY DEF Renamed
<1>3. ASSUME NEW i \in 1..Len(d.groups)
      PROVE  /\ gs[i] \in Group /\ gs[i].id = d.groups[i].id
             /\ gs[i].system = d.groups[i].system
             /\ gs[i].name = IF d.groups[i].id = id THEN name ELSE d.groups[i].name
  <2>1. d.groups[i] \in Group
    BY <1>1
  <2>2. gs[i] = IF d.groups[i].id = id THEN [d.groups[i] EXCEPT !.name = name]
                ELSE d.groups[i]
    OBVIOUS
  <2> HIDE DEF gs
  <2> QED
    BY <2>1, <2>2 DEF Group
<1>4. gs \in Seq(Group) /\ Len(gs) = Len(d.groups)
  <2>1. gs \in [1..Len(d.groups) -> Group]
    BY <1>3
  <2> HIDE DEF gs
  <2> QED
    BY <1>1, <2>1
<1> HIDE DEF gs, e
<1>5. e \in Data /\ e.groups = gs /\ Dangling(e) \subseteq Dangling(d)
  BY <1>2, <1>3, <1>4, SameIds
<1>6. ASSUME AllDifferent(d) PROVE AllDifferent(e)
  <2> SUFFICES ASSUME NEW i \in 1..Len(d.groups), NEW j \in 1..Len(d.groups), i # j
               PROVE  Different(gs[i], gs[j])
    BY <1>4, <1>5 DEF AllDifferent
  <2>1. Different(d.groups[i], d.groups[j])
    BY <1>6 DEF AllDifferent
  <2>2. \A l \in 1..Len(d.groups) : d.groups[l].id # id => d.groups[l].name # name
    BY DEF NameTaken
  <2> QED
    BY <1>3, <2>1, <2>2 DEF Different
<1> QED
  BY <1>5, <1>6 DEF Keeps, e

\* A group gets another place.
LEMMA GroupReorderedKeeps ==
    ASSUME NEW d \in Data, NEW id \in GroupIds, NEW order \in Int
    PROVE  Keeps(d, GroupReordered(d, id, order))
<1> DEFINE gs == [i \in 1..Len(d.groups) |->
                    IF d.groups[i].id = id THEN [d.groups[i] EXCEPT !.order = order]
                    ELSE d.groups[i]]
           e == GroupReordered(d, id, order)
<1>1. d.groups \in Seq(Group) /\ Len(d.groups) \in Nat
  BY DEF Data
<1>2. e = [d EXCEPT !.groups = gs]
  BY DEF GroupReordered
<1>3. ASSUME NEW i \in 1..Len(d.groups)
      PROVE  /\ gs[i] \in Group /\ gs[i].id = d.groups[i].id
             /\ gs[i].system = d.groups[i].system /\ gs[i].name = d.groups[i].name
  <2>1. d.groups[i] \in Group
    BY <1>1
  <2>2. gs[i] = IF d.groups[i].id = id THEN [d.groups[i] EXCEPT !.order = order]
                ELSE d.groups[i]
    OBVIOUS
  <2> HIDE DEF gs
  <2> QED
    BY <2>1, <2>2 DEF Group
<1>4. gs \in Seq(Group) /\ Len(gs) = Len(d.groups)
  <2>1. gs \in [1..Len(d.groups) -> Group]
    BY <1>3
  <2> HIDE DEF gs
  <2> QED
    BY <1>1, <2>1
<1> HIDE DEF gs, e
<1>5. e \in Data /\ e.groups = gs /\ Dangling(e) \subseteq Dangling(d)
  BY <1>2, <1>3, <1>4, SameIds
<1>6. ASSUME AllDifferent(d) PROVE AllDifferent(e)
  BY <1>3, <1>4, <1>5, <1>6 DEF AllDifferent, Different
<1> QED
  BY <1>5, <1>6 DEF Keeps, e

\* The accounts change, and are in no groups but those they were in and those
\* there are.
LEMMA AccountsChange ==
    ASSUME NEW d \in Data, NEW as \in Seq(GroupAccount),
           Referred(as) \subseteq Referred(d.accounts) \cup IdsOf(d.groups),
           NEW e, e = [d EXCEPT !.accounts = as]
    PROVE  Keeps(d, e)
<1>1. e \in Data /\ e.groups = d.groups /\ e.accounts = as
  BY DEF Data
<1> QED
  BY <1>1, NoneDangle DEF Keeps, AllDifferent

\* One of them does.
LEMMA AccountChanges ==
    ASSUME NEW d \in Data, NEW i \in 1..Len(d.accounts), NEW m \in Seq(Member),
           \A k \in 1..Len(m) : m[k].group \in GroupsOf(d.accounts[i]) \cup IdsOf(d.groups),
           NEW e, e = [d EXCEPT !.accounts[i].member = m]
    PROVE  Keeps(d, e)
<1> DEFINE a == [d.accounts[i] EXCEPT !.member = m]
           as == [d.accounts EXCEPT ![i] = a]
<1>1. d.accounts \in Seq(GroupAccount) /\ d.accounts[i] \in GroupAccount
  BY DEF Data
<1>2. a \in GroupAccount /\ a.member = m
  BY <1>1 DEF GroupAccount
<1>3. e = [d EXCEPT !.accounts = as]
  BY <1>1 DEF Data
<1> HIDE DEF a
<1>4. /\ as \in Seq(GroupAccount) /\ Len(as) = Len(d.accounts) /\ as[i] = a
      /\ \A j \in 1..Len(d.accounts) : j # i => as[j] = d.accounts[j]
  BY <1>1, <1>2
<1> HIDE DEF as
<1>5. GroupsOf(a) \subseteq GroupsOf(d.accounts[i]) \cup IdsOf(d.groups)
  BY <1>2 DEF GroupsOf
<1>6. ASSUME NEW j \in 1..Len(as)
      PROVE  GroupsOf(as[j]) \subseteq Referred(d.accounts) \cup IdsOf(d.groups)
  <2>1. GroupsOf(d.accounts[i]) \subseteq Referred(d.accounts)
    BY DEF Referred
  <2>2. CASE j = i
    BY <1>4, <1>5, <2>1, <2>2
  <2>3. CASE j # i
    <3>1. as[j] = d.accounts[j] /\ j \in 1..Len(d.accounts)
      BY <1>4, <2>3
    <3> QED
      BY <3>1 DEF Referred
  <2> QED
    BY <2>2, <2>3
<1>7. Referred(as) \subseteq Referred(d.accounts) \cup IdsOf(d.groups)
  <2> SUFFICES ASSUME NEW g \in Referred(as)
               PROVE  g \in Referred(d.accounts) \cup IdsOf(d.groups)
    OBVIOUS
  <2>1. PICK j \in 1..Len(as) : g \in GroupsOf(as[j])
    BY DEF Referred
  <2> QED
    BY <1>6, <2>1
<1> QED
  BY <1>3, <1>4, <1>7, AccountsChange

\* Removing one leaves elements that were there.
LEMMA RemoveType ==
    ASSUME NEW S, NEW s \in Seq(S), NEW i \in 1..Len(s)
    PROVE  RemoveAt(s, i) \in Seq(S)
<1>1. SubSeq(s, 1, i - 1) \in Seq(S)
  <2>1. \A j \in 1..i - 1 : s[j] \in S
    OBVIOUS
  <2> QED
    BY <2>1, SubSeqProperties
<1>2. SubSeq(s, i + 1, Len(s)) \in Seq(S)
  <2>1. \A j \in i + 1..Len(s) : s[j] \in S
    OBVIOUS
  <2> QED
    BY <2>1, SubSeqProperties
<1> QED
  BY <1>1, <1>2 DEF RemoveAt

\* What is left when one element is removed.
LEMMA RemoveLeaves ==
    ASSUME NEW S, NEW s \in Seq(S), NEW i \in 1..Len(s), NEW r, r = RemoveAt(s, i)
    PROVE  r \in Seq(S) /\ \A k \in 1..Len(r) : \E l \in 1..Len(s) : r[k] = s[l]
<1> DEFINE X == {s[l] : l \in 1..Len(s)}
<1>1. s \in Seq(X)
  OBVIOUS
<1> HIDE DEF X
<1>2. r \in Seq(X) /\ r \in Seq(S)
  BY <1>1, RemoveType
<1>3. \A k \in 1..Len(r) : r[k] \in X
  BY <1>2
<1> QED
  BY <1>2, <1>3 DEF X

\* An account joins a group that there is.
LEMMA JoinedKeeps ==
    ASSUME NEW d \in Data, NEW i \in 1..Len(d.accounts), NEW id \in IdsOf(d.groups)
    PROVE  Keeps(d, Joined(d, i, id))
<1> DEFINE new == [group |-> id, order |-> -1]
           m == Append(d.accounts[i].member, new)
<1>1. d.accounts \in Seq(GroupAccount) /\ d.accounts[i] \in GroupAccount /\ d.groups \in Seq(Group)
  BY DEF Data
<1>2. d.accounts[i].member \in Seq(Member) /\ Len(d.accounts[i].member) \in Nat
  BY <1>1 DEF GroupAccount
<1>3. id \in GroupIds
  <2>1. PICK l \in 1..Len(d.groups) : d.groups[l].id = id
    BY DEF IdsOf
  <2>2. d.groups[l] \in Group
    BY <1>1
  <2> QED
    BY <2>1, <2>2 DEF Group
<1>4. new \in Member /\ new.group = id
  BY <1>3 DEF Member
<1>5. CASE id \in GroupsOf(d.accounts[i])
  <2>1. Joined(d, i, id) = d
    BY <1>5 DEF Joined
  <2> QED
    BY <2>1 DEF Keeps
<1>6. CASE id \notin GroupsOf(d.accounts[i])
  <2>1. Joined(d, i, id) = [d EXCEPT !.accounts[i].member = m]
    BY <1>6 DEF Joined
  <2> HIDE DEF new
  <2>2. m \in Seq(Member)
    BY <1>2, <1>4
  <2>3. ASSUME NEW k \in 1..Len(m)
        PROVE  m[k].group \in GroupsOf(d.accounts[i]) \cup IdsOf(d.groups)
    <3>1. CASE k = Len(d.accounts[i].member) + 1
      BY <1>2, <1>4, <3>1
    <3>2. CASE k # Len(d.accounts[i].member) + 1
      <4>1. k \in 1..Len(d.accounts[i].member) /\ m[k] = d.accounts[i].member[k]
        BY <1>2, <1>4, <3>2
      <4> QED
        BY <4>1 DEF GroupsOf
    <3> QED
      BY <3>1, <3>2
  <2> HIDE DEF m
  <2> QED
    BY <2>1, <2>2, <2>3, AccountChanges
<1> QED
  BY <1>5, <1>6

\* Among the places where something is, there is a last one.
LEMMA LastPlace ==
    ASSUME NEW n \in Nat, NEW T \in SUBSET (1..n), T # {}
    PROVE  \E j \in T : \A k \in (j + 1)..n : k \notin T
<1> DEFINE X == {n - k : k \in T}
<1>1. X \subseteq Nat /\ X # {}
  <2>1. PICK k : k \in T
    OBVIOUS
  <2>2. n - k \in X
    BY <2>1
  <2>3. ASSUME NEW y \in X PROVE y \in Nat
    <3>1. PICK l \in T : y = n - l
      OBVIOUS
    <3>2. l \in 1..n
      OBVIOUS
    <3> QED
      BY <3>1, <3>2
  <2> QED
    BY <2>2, <2>3
<1>2. PICK x \in X : \A y \in X : ~(<<y, x>> \in {ss \in Nat \X Nat : ss[1] < ss[2]})
  <2> HIDE DEF X
  <2> QED
    BY <1>1, Smaller, WFMin
<1>3. PICK j \in T : x = n - j
  OBVIOUS
<1>4. ASSUME NEW k \in (j + 1)..n, k \in T PROVE FALSE
  <2>1. n - k \in X /\ n - k < n - j
    BY <1>4
  <2>2. n - k \in Nat /\ n - j \in Nat
    BY <1>4
  <2> HIDE DEF X
  <2> QED
    BY <1>2, <1>3, <2>1, <2>2
<1> QED
  BY <1>4

\* An account leaves a group.
LEMMA LeftKeeps ==
    ASSUME NEW d \in Data, NEW i \in 1..Len(d.accounts), NEW id \in GroupIds
    PROVE  Keeps(d, Left(d, i, id))
<1> DEFINE s == d.accounts[i].member
<1>1. d.accounts \in Seq(GroupAccount) /\ d.accounts[i] \in GroupAccount
  BY DEF Data
<1>2. s \in Seq(Member) /\ Len(s) \in Nat
  BY <1>1 DEF GroupAccount
<1>3. CASE id \notin GroupsOf(d.accounts[i])
  <2>1. Left(d, i, id) = d
    BY <1>3 DEF Left
  <2> QED
    BY <2>1 DEF Keeps
<1>4. CASE id \in GroupsOf(d.accounts[i])
  <2> DEFINE j == CHOOSE j \in 1..Len(s) : s[j].group = id
                            /\ \A k \in (j + 1)..Len(s) : s[k].group # id
             m == RemoveAt(s, j)
  <2>1. \E l \in 1..Len(s) : s[l].group = id /\ \A k \in (l + 1)..Len(s) : s[k].group # id
    <3> DEFINE T == {l \in 1..Len(s) : s[l].group = id}
    <3>1. T \in SUBSET (1..Len(s)) /\ T # {}
      BY <1>4 DEF GroupsOf
    <3>2. PICK l \in T : \A k \in (l + 1)..Len(s) : k \notin T
      <4> HIDE DEF T
      <4> QED
        BY <1>2, <3>1, LastPlace
    <3>3. ASSUME NEW k \in (l + 1)..Len(s) PROVE s[k].group # id
      BY <1>2, <3>2
    <3> QED
      BY <3>3
  <2>2. j \in 1..Len(s)
    BY <2>1
  <2>3. Left(d, i, id) = [d EXCEPT !.accounts[i].member = m]
    BY <1>4 DEF Left
  <2> HIDE DEF j
  <2>4. m \in Seq(Member) /\ \A k \in 1..Len(m) : \E l \in 1..Len(s) : m[k] = s[l]
    BY <1>2, <2>2, RemoveLeaves
  <2> HIDE DEF m
  <2>5. \A k \in 1..Len(m) : m[k].group \in GroupsOf(d.accounts[i]) \cup IdsOf(d.groups)
    BY <2>4 DEF GroupsOf
  <2> QED
    BY <2>3, <2>4, <2>5, AccountChanges
<1> QED
  BY <1>3, <1>4

\* An account gets another place in a group.
LEMMA MemberReorderedKeeps ==
    ASSUME NEW d \in Data, NEW i \in 1..Len(d.accounts), NEW id \in GroupIds, NEW order \in Int
    PROVE  Keeps(d, MemberReordered(d, i, id, order))
<1> DEFINE s == d.accounts[i].member
           first(j) == s[j].group = id /\ \A k \in 1..(j - 1) : s[k].group # id
           m == [j \in 1..Len(s) |-> IF first(j) THEN [s[j] EXCEPT !.order = order] ELSE s[j]]
<1>1. d.accounts \in Seq(GroupAccount) /\ d.accounts[i] \in GroupAccount
  BY DEF Data
<1>2. s \in Seq(Member) /\ Len(s) \in Nat
  BY <1>1 DEF GroupAccount
<1>3. MemberReordered(d, i, id, order) = [d EXCEPT !.accounts[i].member = m]
  BY DEF MemberReordered
<1>4. ASSUME NEW j \in 1..Len(s) PROVE m[j] \in Member /\ m[j].group = s[j].group
  <2>1. m[j] = IF first(j) THEN [s[j] EXCEPT !.order = order] ELSE s[j]
    OBVIOUS
  <2>2. s[j] \in Member
    BY <1>2
  <2> HIDE DEF m, first
  <2> QED
    BY <2>1, <2>2 DEF Member
<1>5. m \in Seq(Member) /\ Len(m) = Len(s)
  <2>1. m \in [1..Len(s) -> Member]
    BY <1>4
  <2> HIDE DEF m
  <2> QED
    BY <1>2, <2>1
<1> HIDE DEF m
<1>6. \A k \in 1..Len(m) : m[k].group \in GroupsOf(d.accounts[i]) \cup IdsOf(d.groups)
  BY <1>4, <1>5 DEF GroupsOf
<1> QED
  BY <1>3, <1>5, <1>6, AccountChanges

-----------------------------------------------------------------------------
(* The steps *)

\* While a vault stays open, nothing dangles that did not, unless it comes back.
Undangled == open /\ open' => Dangling(data') \subseteq Dangling(data) \/ Undelete

\* An operation saves what it made, keeps it unsaved, or rolls it back.
LEMMA SavedOrNot ==
    ASSUME Inv, NEW d, Keeps(data, d), OrRolledBack(d) \/ OrKept(d),
           UNCHANGED <<open, kept>>, asked' \in GroupIds \cup {NoGroup}
    PROVE  Inv' /\ Undangled
<1>1. /\ data' \in {data, d} /\ file' \in {file, d} /\ modified' \in BOOLEAN
      /\ data' = data => Dangling(data') = Dangling(data)
  BY DEF OrRolledBack, OrKept, Saved, Inv, Types
<1>2. d \in Data /\ AllDifferent(d) /\ Dangling(d) \subseteq Dangling(data)
  BY DEF Keeps, Inv
<1>3. AllDifferent(data') /\ AllDifferent(file') /\ data' \in Data /\ file' \in Data
  BY <1>1, <1>2 DEF Inv, Types
<1>4. Dangling(data') \subseteq Dangling(data)
  BY <1>1, <1>2
<1> QED
  BY <1>1, <1>3, <1>4 DEF Inv, Types, AllDifferent, Undangled

\* The data, and what it does not change.
LEMMA NothingChanged ==
    ASSUME Inv, UNCHANGED <<data, file, modified, open, kept>>,
           asked' \in GroupIds \cup {NoGroup}
    PROVE  Inv' /\ Undangled
BY DEF Inv, Types, AllDifferent, Undangled

\* An id that is fresh is no group's, and is in no account.
LEMMA FreshMeans ==
    ASSUME NEW id, Fresh(id)
    PROVE  id \notin IdsOf(data.groups) /\ id \notin Referred(data.accounts)
BY DEF Fresh

\* A user's group is made, or unmade again when it cannot be saved.
LEMMA CreateStep ==
    ASSUME Inv, NEW id \in GroupIds, NEW name \in Names, CreateGroup(id, name)
    PROVE  /\ Inv' /\ Undangled
           /\ file' = data' \/ UNCHANGED <<data, file, modified>>
<1> DEFINE n == Len(data.groups)
           new == WithGroup(data, id, name, FALSE, n)
<1>1. data \in Data /\ n \in Int
  BY DEF Inv, Types, Data
<1>2. id \notin IdsOf(data.groups) /\ id \notin Referred(data.accounts)
  BY FreshMeans DEF CreateGroup
<1>3. ASSUME NEW i \in 1..Len(data.groups) PROVE data.groups[i].name # name
  <2>1. data.groups[i] \in Group
    BY <1>1 DEF Data
  <2>2. data.groups[i].id # NoGroup
    BY <2>1, NamesAssumption DEF Group
  <2> QED
    BY <2>2 DEF CreateGroup, NameTaken
<1> HIDE DEF n
<1>4. Keeps(data, new)
  BY <1>1, <1>2, <1>3, WithGroupKeeps
<1>5. WithoutGroup(new, id) = data
  BY <1>1, <1>2, WithoutTrace
<1>6. Saved(new) \/ UNCHANGED <<data, file, modified>>
  BY <1>5 DEF CreateGroup, n
<1> HIDE DEF new
<1>7. OrRolledBack(new) /\ (file' = data' \/ UNCHANGED <<data, file, modified>>)
  BY <1>6 DEF OrRolledBack, Saved
<1>8. UNCHANGED <<open, kept>> /\ asked' \in GroupIds \cup {NoGroup}
  BY DEF CreateGroup, Inv, Types
<1> QED
  BY <1>4, <1>7, <1>8, SavedOrNot

\* The dialogs, answered for a group that may be gone, in another session.
LEMMA DialogSteps ==
    ASSUME Inv, DeleteGroup \/ (\E name \in Names : RenameGroup(name))
    PROVE  /\ Inv' /\ Undangled
           /\ file' = data' \/ UNCHANGED <<data, file, modified>>
<1>1. /\ data \in Data /\ asked \in GroupIds /\ asked' \in GroupIds \cup {NoGroup}
      /\ UNCHANGED <<open, kept>>
  BY DEF DeleteGroup, RenameGroup, Inv, Types
<1>2. CASE UNCHANGED <<data, file, modified>>
  BY <1>1, <1>2, NothingChanged
<1>3. ASSUME NEW d, Keeps(data, d), OrRolledBack(d)
      PROVE  /\ Inv' /\ Undangled
             /\ file' = data' \/ UNCHANGED <<data, file, modified>>
  BY <1>1, <1>3, SavedOrNot DEF OrRolledBack, Saved
<1>4. CASE DeleteGroup
  <2>1. OrRolledBack(WithoutGroup(data, asked)) \/ UNCHANGED <<data, file, modified>>
    BY <1>4 DEF DeleteGroup
  <2> QED
    BY <1>1, <1>2, <1>3, <2>1, WithoutGroupKeeps
<1>5. ASSUME NEW name \in Names, RenameGroup(name)
      PROVE  /\ Inv' /\ Undangled
             /\ file' = data' \/ UNCHANGED <<data, file, modified>>
  <2>1. \/ ~NameTaken(data, name, asked) /\ OrRolledBack(Renamed(data, asked, name))
        \/ UNCHANGED <<data, file, modified>>
    BY <1>5 DEF RenameGroup
  <2> QED
    BY <1>1, <1>2, <1>3, <2>1, RenamedKeeps
<1> QED
  BY <1>4, <1>5

\* Orders and memberships.
LEMMA MemberSteps ==
    ASSUME Inv, NEW id \in GroupIds,
           \/ \E order \in 0..MaxOrder : ReorderGroup(id, order)
           \/ \E i \in 1..MaxAccounts :
                \/ AddToGroup(i, id) \/ RemoveFromGroup(i, id)
                \/ \E order \in 0..MaxOrder : ReorderInGroup(i, id, order)
    PROVE  /\ Inv' /\ Undangled
           /\ file' = data' \/ UNCHANGED <<data, file, modified>>
<1>1. data \in Data /\ asked \in GroupIds \cup {NoGroup}
  BY DEF Inv, Types
<1>2. ASSUME NEW d, Keeps(data, d), OrRolledBack(d), UNCHANGED <<open, kept, asked>>
      PROVE  /\ Inv' /\ Undangled
             /\ file' = data' \/ UNCHANGED <<data, file, modified>>
  BY <1>1, <1>2, SavedOrNot DEF OrRolledBack, Saved
<1>3. ASSUME NEW order \in 0..MaxOrder, ReorderGroup(id, order)
      PROVE  /\ Inv' /\ Undangled
             /\ file' = data' \/ UNCHANGED <<data, file, modified>>
  <2>1. order \in Int
    BY BoundsAssumption
  <2> QED
    BY <1>1, <1>2, <1>3, <2>1, GroupReorderedKeeps DEF ReorderGroup
<1>4. ASSUME NEW i \in 1..MaxAccounts, AddToGroup(i, id)
      PROVE  /\ Inv' /\ Undangled
             /\ file' = data' \/ UNCHANGED <<data, file, modified>>
  BY <1>1, <1>2, <1>4, JoinedKeeps DEF AddToGroup, Indices
<1>5. ASSUME NEW i \in 1..MaxAccounts, RemoveFromGroup(i, id)
      PROVE  /\ Inv' /\ Undangled
             /\ file' = data' \/ UNCHANGED <<data, file, modified>>
  BY <1>1, <1>2, <1>5, LeftKeeps DEF RemoveFromGroup, Indices
<1>6. ASSUME NEW i \in 1..MaxAccounts, NEW order \in 0..MaxOrder, ReorderInGroup(i, id, order)
      PROVE  /\ Inv' /\ Undangled
             /\ file' = data' \/ UNCHANGED <<data, file, modified>>
  <2>1. order \in Int
    BY BoundsAssumption
  <2> QED
    BY <1>1, <1>2, <1>6, <2>1, MemberReorderedKeeps DEF ReorderInGroup, Indices
<1> QED
  BY <1>3, <1>4, <1>5, <1>6

\* All operations on groups.
LEMMA GroupSteps ==
    ASSUME Inv, GroupStep
    PROVE  /\ Inv' /\ Undangled
           /\ file' = data' \/ UNCHANGED <<data, file, modified>>
BY CreateStep, DialogSteps, MemberSteps DEF GroupStep

\* The group of favorites is made with its own id, when there is none.
LEMMA FavoritesStep ==
    ASSUME Inv, NEW id \in GroupIds, GetFavorites(id)
    PROVE  Inv' /\ Undangled
<1>1. /\ data \in Data /\ asked' \in GroupIds \cup {NoGroup} /\ UNCHANGED <<open, kept>>
      /\ Keeps(data, data)
  BY DEF GetFavorites, Inv, Types, Keeps
<1>2. CASE HasFavorites(data)
  <2>1. OrKept(data) \/ UNCHANGED <<data, file, modified>>
    BY <1>2 DEF GetFavorites
  <2> QED
    BY <1>1, <2>1, SavedOrNot, NothingChanged
<1>3. CASE ~HasFavorites(data)
  <2>1. /\ id \notin IdsOf(data.groups)
        /\ OrKept(WithGroup(data, id, Favorites, TRUE, 0))
    BY <1>3, FreshMeans DEF GetFavorites
  <2>2. ASSUME NEW i \in 1..Len(data.groups)
        PROVE  data.groups[i].name # Favorites \/ data.groups[i].system # TRUE
    BY <1>3 DEF HasFavorites, IsFavorites
  <2> DEFINE system == TRUE
  <2>3. /\ system \in BOOLEAN /\ Favorites \in Names
        /\ \A i \in 1..Len(data.groups) :
                data.groups[i].name # Favorites \/ data.groups[i].system # system
    BY <2>2, NamesAssumption
  <2> HIDE DEF system
  <2>4. Keeps(data, WithGroup(data, id, Favorites, system, 0))
    BY <1>1, <2>1, <2>3, WithGroupKeeps
  <2> QED
    BY <1>1, <2>1, <2>4, SavedOrNot DEF system
<1> QED
  BY <1>2, <1>3

\* Accounts come, go and come back; the groups stay as they are.
LEMMA AccountSteps ==
    ASSUME Inv, AddAccount \/ Undelete \/ (\E i \in 1..MaxAccounts : DeleteAccount(i))
    PROVE  Inv' /\ Undangled
<1>1. /\ data \in Data /\ data.accounts \in Seq(GroupAccount) /\ kept \in Seq(GroupAccount)
      /\ Len(data.accounts) \in Nat
  BY DEF Inv, Types, Data
<1>2. ASSUME NEW as \in Seq(GroupAccount), data' = [data EXCEPT !.accounts = as],
             modified' = TRUE, kept' \in Seq(GroupAccount), UNCHANGED <<open, file, asked>>
      PROVE  Inv'
  <2>1. data' \in Data /\ data'.groups = data.groups
    BY <1>1, <1>2 DEF Data
  <2>2. AllDifferent(data') /\ AllDifferent(file')
    BY <1>2, <2>1 DEF AllDifferent, Inv
  <2> QED
    BY <1>2, <2>1, <2>2 DEF Inv, Types, AllDifferent
<1>3. CASE AddAccount
  <2> DEFINE as == Append(data.accounts, [member |-> <<>>])
  <2>1. [member |-> <<>>] \in GroupAccount /\ GroupsOf([member |-> <<>>]) = {}
    BY DEF GroupAccount, GroupsOf
  <2>2. /\ as \in Seq(GroupAccount) /\ Len(as) = Len(data.accounts) + 1
        /\ as[Len(data.accounts) + 1] = [member |-> <<>>]
        /\ \A i \in 1..Len(data.accounts) : as[i] = data.accounts[i]
    BY <1>1, <2>1
  <2>3. data' = [data EXCEPT !.accounts = as] /\ modified' = TRUE
    BY <1>3 DEF AddAccount
  <2> HIDE DEF as
  <2>4. ASSUME NEW g \in Referred(as) PROVE g \in Referred(data.accounts)
    <3>1. PICK j \in 1..Len(as) : g \in GroupsOf(as[j])
      BY <2>4 DEF Referred
    <3>2. j # Len(data.accounts) + 1
      BY <2>1, <2>2, <3>1
    <3>3. j \in 1..Len(data.accounts)
      BY <1>1, <2>2, <3>2
    <3>4. as[j] = data.accounts[j]
      BY <2>2, <3>3
    <3> QED
      BY <3>1, <3>3, <3>4 DEF Referred
  <2>5. Keeps(data, data')
    BY <1>1, <2>2, <2>3, <2>4, AccountsChange
  <2> QED
    BY <1>1, <1>2, <1>3, <2>2, <2>3, <2>5 DEF AddAccount, Keeps, Undangled
<1>4. CASE Undelete
  <2> DEFINE as == Append(data.accounts, Last(kept))
  <2>1. Last(kept) \in GroupAccount /\ kept' \in Seq(GroupAccount)
    <3>1. kept # <<>> /\ Len(kept) \in Nat \ {0}
      BY <1>1, <1>4 DEF Undelete
    <3>2. Last(kept) \in GroupAccount
      BY <1>1, <3>1 DEF Last
    <3>3. \A j \in 1..Len(kept) - 1 : kept[j] \in GroupAccount
      BY <1>1, <3>1
    <3>4. SubSeq(kept, 1, Len(kept) - 1) \in Seq(GroupAccount)
      BY <3>1, <3>3, SubSeqProperties
    <3> QED
      BY <1>4, <3>2, <3>4 DEF Undelete, Front
  <2>2. as \in Seq(GroupAccount)
    BY <1>1, <2>1
  <2>3. data' = [data EXCEPT !.accounts = as] /\ modified' = TRUE
    BY <1>4 DEF Undelete
  <2> HIDE DEF as
  <2>4. Inv'
    BY <1>2, <1>4, <2>1, <2>2, <2>3 DEF Undelete
  <2> QED
    BY <1>4, <2>4 DEF Undangled
<1>5. ASSUME NEW i \in 1..MaxAccounts, DeleteAccount(i) PROVE Inv' /\ Undangled
  <2> DEFINE as == RemoveAt(data.accounts, i)
  <2>1. i \in 1..Len(data.accounts)
    BY <1>5 DEF DeleteAccount, Indices
  <2>2. as \in Seq(GroupAccount) /\ \A k \in 1..Len(as) : \E l \in 1..Len(data.accounts) :
            as[k] = data.accounts[l]
    <3> DEFINE s == data.accounts
    <3>1. s \in Seq(GroupAccount) /\ i \in 1..Len(s) /\ as = RemoveAt(s, i)
      BY <1>1, <2>1
    <3> HIDE DEF s, as
    <3>2. as \in Seq(GroupAccount) /\ \A k \in 1..Len(as) : \E l \in 1..Len(s) : as[k] = s[l]
      BY <3>1, RemoveLeaves
    <3> QED
      BY <3>2 DEF s
  <2>3. data' = [data EXCEPT !.accounts = as] /\ modified' = TRUE
    BY <1>5 DEF DeleteAccount
  <2>4. kept' \in Seq(GroupAccount)
    <3>1. data.accounts[i] \in GroupAccount
      BY <1>1, <2>1
    <3> QED
      BY <1>5, <3>1 DEF DeleteAccount
  <2> HIDE DEF as
  <2>5. Referred(as) \subseteq Referred(data.accounts)
    BY <2>2 DEF Referred
  <2>6. Keeps(data, data')
    BY <1>1, <2>2, <2>3, <2>5, AccountsChange
  <2> QED
    BY <1>2, <1>5, <2>2, <2>3, <2>4, <2>6 DEF DeleteAccount, Keeps, Undangled
<1> QED
  BY <1>3, <1>4, <1>5

\* The vault is opened, saved and closed, and questions are asked.
LEMMA VaultSteps ==
    ASSUME Inv, Open \/ Close \/ Save \/ Cancel \/ \E id \in GroupIds : Ask(id)
    PROVE  Inv' /\ Undangled
<1>1. Nothing \in Data /\ AllDifferent(Nothing) /\ <<>> \in Seq(GroupAccount)
  BY DEF Nothing, Data, AllDifferent
<1>2. CASE Open
  BY <1>2 DEF Open, Inv, Types, AllDifferent, Undangled
<1>3. CASE Close
  BY <1>1, <1>3 DEF Close, Inv, Types, AllDifferent, Undangled
<1>4. CASE Save
  <2>1. Keeps(data, data)
    BY DEF Keeps, Inv, Types
  <2> QED
    BY <1>4, <2>1, SavedOrNot DEF Save, Inv, Types
<1>5. CASE Cancel \/ \E id \in GroupIds : Ask(id)
  BY <1>5, NothingChanged DEF Cancel, Ask
<1> QED
  BY <1>2, <1>3, <1>4, <1>5

\* Every step.
LEMMA Steps == Inv /\ [Next]_vars => Inv' /\ [Undangled]_vars
<1> SUFFICES ASSUME Inv, [Next]_vars PROVE Inv' /\ [Undangled]_vars
  OBVIOUS
<1>1. CASE UNCHANGED vars
  BY <1>1 DEF vars, Inv, Types, AllDifferent
<1>2. CASE Next
  BY <1>2, GroupSteps, FavoritesStep, AccountSteps, VaultSteps DEF Next
<1> QED
  BY <1>1, <1>2

-----------------------------------------------------------------------------
(* The theorems *)

\* The invariant of this module.
LEMMA Invariance == Spec => []Inv
<1>1. Init => Inv
  <2>1. <<>> \in Seq(Group) /\ <<>> \in Seq(GroupAccount) /\ Len(<<>>) = 0
    OBVIOUS
  <2>2. Nothing \in Data /\ AllDifferent(Nothing)
    BY <2>1 DEF Nothing, Data, AllDifferent
  <2> QED
    BY <2>1, <2>2 DEF Init, Inv, Types, AllDifferent
<1> QED
  BY <1>1, Steps, PTL DEF Spec

\* Whatever is renamed, rolled back, deleted or answered late, and in whatever
\* session, the groups of a vault and of its file stay distinct.
THEOREM GroupsAlwaysDistinct == Spec => []GroupsAreDistinct
BY Invariance, DistinctMeans, PTL

\* No operation leaves an account in a group that is gone; undoing a deletion, or
\* redoing an addition that was undone, may.
THEOREM OnlyUndoEverDangles == Spec => OnlyUndoDangles
<1>1. Inv /\ [Next]_vars =>
        [open /\ open' => Dangling(data') \subseteq Dangling(data) \/ Undelete]_vars
  BY Steps DEF Undangled
<1> QED
  BY <1>1, Invariance, PTL DEF Spec, OnlyUndoDangles

\* An operation on groups is done and saved, or has left no trace: taking a new
\* group away again is exactly what undoes making it.
THEOREM AlwaysAllOrNothing == Spec => AllOrNothing
<1>1. Inv /\ [Next]_vars =>
        [file' = data' \/ UNCHANGED <<data, file, modified>> \/ ~GroupStep]_vars
  BY GroupSteps
<1> QED
  BY <1>1, Invariance, PTL DEF Spec, AllOrNothing

-----------------------------------------------------------------------------
(* The list of accounts: what the widget makes of its copy *)

Texts == AccountNames \cup Tags \cup {NoText}
Tree == [cache : Seq(Account), text : Texts, field : Fields, tag : Tags \cup {NoText},
         rows : [favorites : Seq(Account), all : Seq(Account)]]

Stars(list) == {i \in 1..Len(list) : list[i].star}

\* The rows are of the copy, the favorites those with a star, and without
\* filters none is missing.
RowsFit(t) ==
    /\ From(t.rows.all, t.cache, Nat)
    /\ From(t.rows.favorites, t.cache, Stars(t.cache))
    /\ t.text = NoText /\ t.tag = NoText =>
        t.rows.all = t.cache /\ Covers(t.rows.favorites, t.cache, Stars(t.cache))

\* A tree whose rows are made of a part of its copy.
LEMMA RebuiltFits ==
    ASSUME NEW t \in Tree, NEW list \in Seq(Account), From(list, t.cache, Nat),
           t.text = NoText /\ t.tag = NoText => list = t.cache,
           NEW u, u = Rebuilt(t, list)
    PROVE  u \in Tree /\ u.cache = t.cache /\ u.text = t.text /\ u.tag = t.tag /\ RowsFit(u)
<1> DEFINE P == {i \in DOMAIN list : list[i].star}
           f == AtPositions(list, P)
<1>1. f \in Seq(Account) /\ From(f, list, P) /\ Covers(f, list, P)
  <2> HIDE DEF P
  <2> QED
    BY Selected
<1>2. u = [t EXCEPT !.rows = [favorites |-> f, all |-> list]]
  BY DEF Rebuilt
<1> HIDE DEF f
<1>3. /\ u \in Tree /\ u.cache = t.cache /\ u.text = t.text /\ u.tag = t.tag
      /\ u.rows.favorites = f /\ u.rows.all = list
  <2>1. [favorites |-> f, all |-> list] \in [favorites : Seq(Account), all : Seq(Account)]
    BY <1>1
  <2>2. t = [cache |-> t.cache, text |-> t.text, field |-> t.field, tag |-> t.tag, rows |-> t.rows]
    BY DEF Tree
  <2>3. u = [cache |-> t.cache, text |-> t.text, field |-> t.field, tag |-> t.tag,
             rows |-> [favorites |-> f, all |-> list]]
    BY <1>2, <2>2
  <2> QED
    BY <2>1, <2>3 DEF Tree
<1>4. P = Stars(list)
  BY DEF Stars
<1>5. From(f, t.cache, Stars(t.cache))
  <2> SUFFICES ASSUME NEW k \in 1..Len(f)
               PROVE  \E i \in (1..Len(t.cache)) \cap Stars(t.cache) : f[k] = t.cache[i]
    BY DEF From
  <2>1. PICK i \in (1..Len(list)) \cap P : f[k] = list[i]
    BY <1>1 DEF From
  <2>2. PICK j \in 1..Len(t.cache) : list[i] = t.cache[j]
    BY <2>1 DEF From
  <2>3. list[i].star
    BY <2>1
  <2> QED
    BY <2>1, <2>2, <2>3 DEF Stars
<1>6. t.text = NoText /\ t.tag = NoText => Covers(f, t.cache, Stars(t.cache))
  BY <1>1, <1>4
<1> QED
  BY <1>3, <1>5, <1>6 DEF RowsFit

\* Filters, whatever they are.
LEMMA FilteredFits ==
    ASSUME NEW t \in Tree, NEW text \in Texts, NEW field \in Fields,
           NEW tag \in Tags \cup {NoText}, NEW u, u = Filtered(t, text, field, tag)
    PROVE  u \in Tree /\ u.cache = t.cache /\ u.text = text /\ u.tag = tag /\ RowsFit(u)
<1> DEFINE v == [t EXCEPT !.text = text, !.field = field, !.tag = tag]
           P == {i \in DOMAIN t.cache :
                    /\ tag = NoText \/ tag \in t.cache[i].tags
                    /\ text = NoText \/ Matches(t.cache[i], text, field)}
           list == AtPositions(t.cache, P)
<1>1. t.cache \in Seq(Account) /\ Len(t.cache) \in Nat
  BY DEF Tree
<1>2. v \in Tree /\ v.cache = t.cache /\ v.text = text /\ v.tag = tag
  BY DEF Tree
<1>3. u = Rebuilt(v, list)
  BY DEF Filtered
<1> HIDE DEF v
<1>4. text = NoText /\ tag = NoText => (1..Len(t.cache)) \cap P = 1..Len(t.cache)
  BY <1>1
<1> HIDE DEF P
<1>5. list \in Seq(Account) /\ From(list, t.cache, P)
  BY <1>1, Selected
<1>6. ASSUME text = NoText, tag = NoText PROVE list = t.cache
  <2>1. First(list, t.cache, Len(t.cache))
    BY <1>1, <1>4, <1>6, SelectedFirst
  <2> HIDE DEF list
  <2> QED
    BY <1>1, <1>5, <2>1 DEF First
<1> HIDE DEF list
<1>7. From(list, t.cache, Nat)
  BY <1>5 DEF From
<1> QED
  BY <1>2, <1>3, <1>5, <1>6, <1>7, RebuiltFits

\* Sorting brings the whole copy.
LEMMA UnfilteredFits ==
    ASSUME NEW t \in Tree, NEW u, u = Unfiltered(t)
    PROVE  u \in Tree /\ u.cache = t.cache /\ RowsFit(u)
<1>1. t.cache \in Seq(Account)
  BY DEF Tree
<1>2. From(t.cache, t.cache, Nat)
  BY DEF From
<1> QED
  BY <1>1, <1>2, RebuiltFits DEF Unfiltered

\* The drop-down of tags is refilled.
LEMMA TagsResetFits ==
    ASSUME NEW t \in Tree, RowsFit(t), NEW u \in TagsReset(t)
    PROVE  u \in Tree /\ u.cache = t.cache /\ RowsFit(u)
<1>1. t.text \in Texts /\ t.field \in Fields
  BY DEF Tree
<1>2. u = t \/ u = Filtered(t, t.text, t.field, NoText)
  BY DEF TagsReset
<1> QED
  BY <1>1, <1>2, FilteredFits

-----------------------------------------------------------------------------
(* The list of accounts: what is copied *)

\* The copy has the same name and star.
Same(a, b) == a.id = b.id /\ a.name = b.name /\ a.star = b.star

Everyone(role, list) == role = "admin" \/ \A i \in 1..Len(list) : ~list[i].adminOnly

\* A copy of what a user may view, and of everything that every user may.
CacheFits(role, list, cache) ==
    role # "none" =>
        /\ \A k \in 1..Len(cache) : \E j \in 1..Len(list) :
                Same(list[j], cache[k]) /\ CanView(role, list, j)
        /\ Everyone(role, list) =>
                Len(cache) = Len(list) /\ \A k \in 1..Len(list) : Same(list[k], cache[k])

\* The second test, by positions, hides more, but nothing from those who may
\* view everything.
LEMMA ListedFits ==
    ASSUME NEW role \in Roles, NEW list \in Seq(Account),
           NEW r, r = Listed(role, list)
    PROVE  r \in Seq(Account) /\ CacheFits(role, list, r)
<1> DEFINE P == {i \in DOMAIN list : CanView(role, list, i)}
           all == AtPositions(list, P)
           Q == {i \in DOMAIN all : CanView(role, list, i)}
<1>1. r = AtPositions(all, Q)
  BY DEF Listed, GetAll
<1>2. \A i \in P : CanView(role, list, i)
  OBVIOUS
<1>3. Everyone(role, list) => \A i \in 1..Len(list) : CanView(role, list, i)
  BY DEF Everyone, CanView
<1>4. Everyone(role, list) => (1..Len(list)) \cap P = 1..Len(list)
  BY <1>3
<1> HIDE DEF P
<1>5. all \in Seq(Account) /\ From(all, list, P)
  BY Selected
<1>6. Everyone(role, list) => First(all, list, Len(list))
  <2>1. Len(list) \in Nat
    OBVIOUS
  <2> QED
    BY <1>4, <2>1, SelectedFirst
<1> HIDE DEF all
<1>7. Everyone(role, list) => (1..Len(all)) \cap Q = 1..Len(list)
  BY <1>3, <1>5, <1>6 DEF First
<1> HIDE DEF Q
<1>8. r \in Seq(Account) /\ From(r, all, Q)
  BY <1>1, <1>5, Selected
<1>9. Everyone(role, list) => First(r, all, Len(list))
  <2>1. Len(list) \in Nat
    OBVIOUS
  <2> QED
    BY <1>1, <1>5, <1>7, <2>1, SelectedFirst
<1>10. ASSUME NEW k \in 1..Len(r)
       PROVE  \E j \in 1..Len(list) : Same(list[j], r[k]) /\ CanView(role, list, j)
  <2>1. PICK i \in 1..Len(all) : r[k] = all[i]
    BY <1>8 DEF From
  <2>2. PICK j \in (1..Len(list)) \cap P : all[i] = list[j]
    BY <1>5 DEF From
  <2> QED
    BY <1>2, <2>1, <2>2 DEF Same
<1>11. ASSUME Everyone(role, list)
       PROVE  Len(r) = Len(list) /\ \A k \in 1..Len(list) : Same(list[k], r[k])
  BY <1>6, <1>9, <1>11 DEF First, Same
<1> QED
  BY <1>8, <1>10, <1>11 DEF CacheFits

AnyRole == Roles \cup {"none"}

\* The tree, refreshed, from whatever it was before.
LEMMA RefreshedFits ==
    ASSUME NEW t \in Tree, NEW role \in AnyRole, NEW list \in Seq(Account),
           NEW u, u = Refreshed(t, role, list)
    PROVE  u \in Tree /\ CacheFits(role, list, u.cache) /\ RowsFit(u)
<1> DEFINE c == IF role = "none" THEN <<>> ELSE Listed(role, list)
           v == [t EXCEPT !.cache = c]
<1>1. c \in Seq(Account) /\ CacheFits(role, list, c)
  <2>1. CASE role = "none"
    BY <2>1 DEF CacheFits
  <2>2. CASE role # "none"
    <3>1. role \in Roles
      BY <2>2 DEF AnyRole
    <3> QED
      BY <2>2, <3>1, ListedFits
  <2> QED
    BY <2>1, <2>2
<1>2. u = Filtered(v, t.text, t.field, t.tag)
  BY DEF Refreshed, WithData
<1> HIDE DEF c
<1>3. v \in Tree /\ v.cache = c
  BY <1>1 DEF Tree
<1>4. t.text \in Texts /\ t.field \in Fields /\ t.tag \in Tags \cup {NoText}
  BY DEF Tree
<1> HIDE DEF v
<1> QED
  BY <1>1, <1>2, <1>3, <1>4, FilteredFits

\* The two ways in which operations refresh it.
LEMMA UpdatedFits ==
    ASSUME NEW t \in Tree, NEW role \in AnyRole, NEW list \in Seq(Account),
           NEW u \in Updated(t, role, list)
    PROVE  u \in Tree /\ CacheFits(role, list, u.cache) /\ RowsFit(u)
BY RefreshedFits, TagsResetFits DEF Updated

\* Refilled, with what the search entry holds.
LEMMA RefilledFits ==
    ASSUME NEW t \in Tree, NEW role \in AnyRole, NEW list \in Seq(Account),
           NEW text \in Texts, NEW u, u = Refilled(t, role, list, text)
    PROVE  u \in Tree /\ CacheFits(role, list, u.cache) /\ RowsFit(u)
<1>1. t.field \in Fields
  BY DEF Tree
<1> QED
  BY <1>1, RefreshedFits, FilteredFits DEF Refilled

-----------------------------------------------------------------------------
(* The list of accounts: the invariant *)

\* The rows are always made of the copy; the copy, once it was refreshed for the
\* vault, is of what the user may view; in a closed vault, it may be any.
ListInv ==
    /\ session \in AnyRole /\ accounts \in Seq(Account) /\ tree \in Tree
    /\ listed \in BOOLEAN
    /\ listed => CacheFits(session, accounts, tree.cache)
    /\ RowsFit(tree)

\* At first nothing is open, listed or searched for.
LEMMA ListStarts == ASSUME ListInit PROVE ListInv
<1>1. session = "none" /\ accounts = <<>> /\ tree = EmptyTree /\ listed = FALSE
  BY DEF ListInit
<1>2. tree = [cache |-> <<>>, text |-> NoText, field |-> "all", tag |-> NoText,
              rows |-> [favorites |-> <<>>, all |-> <<>>]]
  BY <1>1 DEF EmptyTree
<1>3. tree \in Tree
  BY <1>2, FieldsAssumption DEF Tree, Texts
<1>4. RowsFit(tree)
  BY <1>2 DEF RowsFit, From, Covers, Stars
<1>5. session \in AnyRole /\ accounts \in Seq(Account)
  BY <1>1 DEF AnyRole
<1>6. listed \in BOOLEAN /\ (listed => CacheFits(session, accounts, tree.cache))
  BY <1>1, Zenon
<1> QED
  BY <1>3, <1>4, <1>5, <1>6 DEF ListInv

\* What the rows are made of again: other filters, or another order.
LEMMA FiltersShow ==
    ASSUME ListInv, UNCHANGED <<session, accounts, listed>>,
           \/ \E text \in Texts : Search(text)
           \/ \E field \in Fields : FilterByField(field)
           \/ \E tag \in Tags \cup {NoText} : FilterByTag(tag)
           \/ Sort
    PROVE  ListInv'
<1>1. tree \in Tree
  BY DEF ListInv
<1>2. tree.text \in Texts /\ tree.field \in Fields /\ tree.tag \in Tags \cup {NoText}
  BY <1>1 DEF Tree
<1>3. ASSUME NEW text \in Texts, Search(text)
      PROVE  tree' \in Tree /\ tree'.cache = tree.cache /\ RowsFit(tree')
  <2>1. tree' = Filtered(tree, text, tree.field, tree.tag)
    BY <1>3 DEF Search
  <2> QED
    BY <1>1, <1>2, <2>1, FilteredFits
<1>4. ASSUME NEW field \in Fields, FilterByField(field)
      PROVE  tree' \in Tree /\ tree'.cache = tree.cache /\ RowsFit(tree')
  <2>1. tree' = Filtered(tree, tree.text, field, tree.tag)
    BY <1>4 DEF FilterByField
  <2> QED
    BY <1>1, <1>2, <2>1, FilteredFits
<1>5. ASSUME NEW tag \in Tags \cup {NoText}, FilterByTag(tag)
      PROVE  tree' \in Tree /\ tree'.cache = tree.cache /\ RowsFit(tree')
  <2>1. tree' = Filtered(tree, tree.text, tree.field, tag)
    BY <1>5 DEF FilterByTag
  <2> QED
    BY <1>1, <1>2, <2>1, FilteredFits
<1>6. ASSUME Sort
      PROVE  tree' \in Tree /\ tree'.cache = tree.cache /\ RowsFit(tree')
  <2>1. tree' = Unfiltered(tree)
    BY <1>6 DEF Sort
  <2> QED
    BY <1>1, <2>1, UnfilteredFits
<1>7. tree' \in Tree /\ tree'.cache = tree.cache /\ RowsFit(tree')
  BY <1>3, <1>4, <1>5, <1>6
<1> QED
  BY <1>1, <1>7 DEF ListInv

\* A row that is clicked.
LEMMA SelectShows ==
    ASSUME ListInv, NEW i, Select(i)
    PROVE  ListInv'
<1>1. /\ tree \in Tree /\ RowsFit(tree)
      /\ tree' \in TagsReset(tree) /\ UNCHANGED <<session, accounts, listed>>
  BY DEF ListInv, Select
<1>2. tree' \in Tree /\ tree'.cache = tree.cache /\ RowsFit(tree')
  BY <1>1, TagsResetFits
<1> QED
  BY <1>1, <1>2 DEF ListInv

\* What the save of a pane makes of the accounts.
LEMMA EditedFits ==
    ASSUME NEW list \in Seq(Account), NEW i \in 1..Len(list), NEW name \in AccountNames,
           NEW tags \in SUBSET Tags, NEW adminOnly \in BOOLEAN,
           NEW new, new = EditedAt(list, i, name, tags, adminOnly)
    PROVE  /\ new \in Seq(Account) /\ Len(new) = Len(list)
           /\ new[i].id = list[i].id /\ new[i].name = name /\ new[i].star = list[i].star
           /\ new[i].adminOnly = adminOnly
           /\ \A j \in 1..Len(list) : j # i => new[j] = list[j]
<1> DEFINE b == [list[i] EXCEPT !.name = name, !.tags = tags, !.adminOnly = adminOnly]
<1>1. list[i] \in Account
  OBVIOUS
<1>2. /\ b \in Account /\ b.id = list[i].id /\ b.name = name /\ b.star = list[i].star
      /\ b.adminOnly = adminOnly
  BY <1>1 DEF Account
<1>3. new = [list EXCEPT ![i] = b]
  BY DEF EditedAt
<1> HIDE DEF b
<1>4. /\ new \in Seq(Account) /\ Len(new) = Len(list) /\ new[i] = b
      /\ \A j \in 1..Len(list) : j # i => new[j] = list[j]
  BY <1>2, <1>3
<1> QED
  BY <1>2, <1>4

\* An edit that keeps the name is not refreshed, and need not be unless the pane is of
\* an earlier vault: nobody can hide an account from himself.
LEMMA EditShows ==
    ASSUME ListInv, NEW i, NEW name \in AccountNames, NEW tags \in SUBSET Tags,
           NEW adminOnly \in BOOLEAN, Edit(i, name, tags, adminOnly)
    PROVE  ListInv'
<1> DEFINE list == accounts'
<1>1. /\ session \in AnyRole /\ accounts \in Seq(Account) /\ tree \in Tree
      /\ listed \in BOOLEAN /\ RowsFit(tree)
      /\ listed => CacheFits(session, accounts, tree.cache)
  BY DEF ListInv
<1>2. /\ session # "none" /\ session' = session /\ i \in 1..Len(accounts)
      /\ ~stale => (session = "standard" => adminOnly = accounts[i].adminOnly)
      /\ list = EditedAt(accounts, i, name, tags, adminOnly)
      /\ tree' \in AfterEdit(i)
      /\ listed' = (NewName(i) \/ (listed /\ ~stale))
  BY <1>1 DEF Edit, IsOpen
<1>3. /\ list \in Seq(Account) /\ Len(list) = Len(accounts)
      /\ list[i].id = accounts[i].id /\ list[i].name = name /\ list[i].star = accounts[i].star
      /\ list[i].adminOnly = adminOnly
      /\ \A j \in 1..Len(accounts) : j # i => list[j] = accounts[j]
  BY <1>1, <1>2, EditedFits
<1> HIDE DEF list
<1>4. CASE ~NewName(i) /\ ~(listed /\ ~stale)
  <2>1. tree' = tree /\ listed' = FALSE
    BY <1>2, <1>4 DEF AfterEdit
  <2> QED
    BY <1>1, <1>2, <1>3, <2>1 DEF ListInv, list
<1>5. CASE ~NewName(i) /\ listed /\ ~stale
  <2>1. tree' = tree /\ listed' = TRUE /\ list[i].name = accounts[i].name
    BY <1>2, <1>5 DEF AfterEdit, NewName, list
  <2>2. \A j \in 1..Len(accounts) : \A c : Same(accounts[j], c) => Same(list[j], c)
    BY <1>3, <2>1 DEF Same
  <2>3. \A j \in 1..Len(accounts) :
            CanView(session, accounts, j) => CanView(session, list, j)
    BY <1>1, <1>2, <1>3, <1>5 DEF CanView, AnyRole, Roles
  <2>4. Everyone(session, list) => Everyone(session, accounts)
    BY <1>1, <1>2, <1>3, <1>5 DEF Everyone, AnyRole, Roles
  <2>5. CacheFits(session, list, tree.cache)
    BY <1>1, <1>2, <1>3, <1>5, <2>2, <2>3, <2>4 DEF CacheFits
  <2> QED
    BY <1>1, <1>2, <1>3, <2>1, <2>5 DEF ListInv, list
<1>6. CASE NewName(i)
  <2>1. tree' \in Updated(tree, session, list) /\ listed' = TRUE
    BY <1>2, <1>6 DEF AfterEdit, list
  <2>2. tree' \in Tree /\ CacheFits(session, list, tree'.cache) /\ RowsFit(tree')
    BY <1>1, <1>3, <2>1, UpdatedFits
  <2> QED
    BY <1>1, <1>2, <1>3, <2>1, <2>2 DEF ListInv, list
<1> QED
  BY <1>4, <1>5, <1>6

\* An account more or less, with the list refilled.
LEMMA ChangeShows ==
    ASSUME ListInv, session # "none", UNCHANGED session, NEW list \in Seq(Account),
           accounts' = list, NEW text \in Texts,
           tree' = Refilled(tree, session, list, text), listed' = TRUE
    PROVE  ListInv'
<1>1. session \in AnyRole /\ tree \in Tree
  BY DEF ListInv
<1>2. tree' \in Tree /\ CacheFits(session, list, tree'.cache) /\ RowsFit(tree')
  BY <1>1, RefilledFits
<1> QED
  BY <1>1, <1>2 DEF ListInv

\* A new account, with an empty search.
LEMMA AddShows ==
    ASSUME ListInv, NEW id \in Ids, NEW name \in AccountNames, Add(id, name)
    PROVE  ListInv'
<1> DEFINE a == [id |-> id, name |-> name, tags |-> {}, adminOnly |-> FALSE, star |-> FALSE]
           list == Append(accounts, a)
<1>1. a \in Account
  BY DEF Account
<1>2. accounts \in Seq(Account)
  BY DEF ListInv
<1>3. /\ session # "none" /\ UNCHANGED session /\ accounts' = list
      /\ tree' = Refilled(tree, session, list, NoText) /\ listed' = TRUE
  BY DEF Add, IsOpen
<1> HIDE DEF a
<1>4. list \in Seq(Account)
  BY <1>1, <1>2
<1>5. NoText \in Texts
  BY DEF Texts
<1> HIDE DEF list
<1> QED
  BY <1>3, <1>4, <1>5, ChangeShows

\* An account that comes back, or is imported.
LEMMA RestoreShows ==
    ASSUME ListInv, NEW a \in Account, Restore(a)
    PROVE  ListInv'
<1> DEFINE list == Append(accounts, a)
           text == tree.text
<1>1. accounts \in Seq(Account) /\ text \in Texts
  BY DEF ListInv, Tree
<1>2. /\ session # "none" /\ UNCHANGED session /\ accounts' = list
      /\ tree' = Refilled(tree, session, list, text) /\ listed' = TRUE
  BY DEF Restore, IsOpen
<1>3. list \in Seq(Account)
  BY <1>1
<1> HIDE DEF list, text
<1> QED
  BY <1>1, <1>2, <1>3, ChangeShows

\* An account that is deleted.
LEMMA DeleteShows ==
    ASSUME ListInv, NEW i, Delete(i)
    PROVE  ListInv'
<1> DEFINE list == RemoveAt(accounts, i)
           text == tree.text
<1>1. accounts \in Seq(Account) /\ text \in Texts
  BY DEF ListInv, Tree
<1>2. /\ session # "none" /\ UNCHANGED session /\ accounts' = list /\ i \in DOMAIN accounts
      /\ tree' = Refilled(tree, session, list, text) /\ listed' = TRUE
  BY DEF Delete, IsOpen
<1>3. list \in Seq(Account)
  <2>1. i \in 1..Len(accounts) /\ list = RemoveAt(accounts, i)
    BY <1>1, <1>2 DEF RemoveAt
  <2> HIDE DEF list
  <2> QED
    BY <1>1, <2>1, RemoveType
<1> HIDE DEF list, text
<1> QED
  BY <1>1, <1>2, <1>3, ChangeShows

\* A star that is set or taken away.
LEMMA StarShows ==
    ASSUME ListInv, NEW i, ToggleFavorite(i)
    PROVE  ListInv'
<1> DEFINE b == [accounts[i] EXCEPT !.star = ~@]
           list == [accounts EXCEPT ![i] = b]
<1>1. session \in AnyRole /\ accounts \in Seq(Account) /\ tree \in Tree
  BY DEF ListInv
<1>2. /\ UNCHANGED session /\ i \in 1..Len(accounts) /\ listed' = TRUE
      /\ accounts' = list /\ tree' \in Updated(tree, session, list)
  BY <1>1 DEF ToggleFavorite
<1>3. accounts[i] \in Account
  BY <1>1, <1>2
<1>4. b \in Account
  BY <1>3 DEF Account
<1> HIDE DEF b
<1>5. list \in Seq(Account)
  <2>1. accounts \in Seq(Account) /\ i \in 1..Len(accounts)
    BY <1>1, <1>2
  <2> QED
    BY <1>4, <2>1
<1> HIDE DEF list
<1>6. tree' \in Tree /\ CacheFits(session, list, tree'.cache) /\ RowsFit(tree')
  BY <1>1, <1>2, <1>5, UpdatedFits
<1> QED
  BY <1>1, <1>2, <1>5, <1>6 DEF ListInv

\* The idle loop, which finds the vault that is open then, or none.
LEMMA IdleShows == ASSUME ListInv, Idle PROVE ListInv'
<1>1. session \in AnyRole /\ accounts \in Seq(Account) /\ tree \in Tree
  BY DEF ListInv
<1>2. UNCHANGED <<session, accounts>> /\ tree' \in Updated(tree, session, accounts) /\ listed' = TRUE
  BY DEF Idle
<1>3. tree' \in Tree /\ CacheFits(session, accounts, tree'.cache) /\ RowsFit(tree')
  BY <1>1, <1>2, UpdatedFits
<1> QED
  BY <1>1, <1>2, <1>3 DEF ListInv

\* A login, of whose vault the list knows nothing yet.
LEMMA LoginShows ==
    ASSUME ListInv, NEW role \in Roles, NEW list \in Seq(Account), Login(role, list)
    PROVE  ListInv'
BY DEF ListInv, Login, AnyRole

\* Its vault is in the window: its list is copied at once.
LEMMA OpenShows == ASSUME ListInv, CompleteOpening PROVE ListInv'
<1> DEFINE list == accounts'
<1>1. tree \in Tree /\ session \in AnyRole /\ accounts \in Seq(Account)
  BY DEF ListInv
<1>2. /\ session' = session /\ list \in PaneSaved /\ listed' = TRUE
      /\ tree' \in Updated(tree, session, list)
  BY DEF CompleteOpening
<1> HIDE DEF list
<1>3. list \in Seq(Account)
  <2>1. CASE list = accounts
    BY <1>1, <2>1
  <2>2. ASSUME NEW i \in 1..Len(accounts), NEW name \in AccountNames,
               NEW tags \in SUBSET Tags, NEW adminOnly \in BOOLEAN,
               list = EditedAt(accounts, i, name, tags, adminOnly)
        PROVE  list \in Seq(Account)
    BY <1>1, <2>2, EditedFits
  <2>3. DOMAIN accounts = 1..Len(accounts)
    BY <1>1
  <2> QED
    BY <1>2, <2>1, <2>2, <2>3 DEF PaneSaved
<1>4. tree' \in Tree /\ CacheFits(session, list, tree'.cache) /\ RowsFit(tree')
  BY <1>1, <1>2, <1>3, UpdatedFits
<1> QED
  BY <1>1, <1>2, <1>3, <1>4 DEF ListInv, list

\* No vault: nothing is promised of the copy, but rows are still of it.
LEMMA ClosedShows ==
    ASSUME ListInv, LoginFails \/ OnCloseVault PROVE ListInv'
<1>1. tree \in Tree /\ RowsFit(tree)
  BY DEF ListInv
<1>2. session' = "none" /\ accounts' = <<>>
  BY DEF LoginFails, OnCloseVault
<1>3. CASE LoginFails
  <2>1. tree' = tree /\ listed' = FALSE
    BY <1>3 DEF LoginFails
  <2>2. session' \in AnyRole /\ accounts' \in Seq(Account)
    BY <1>2 DEF AnyRole
  <2>3. listed' \in BOOLEAN /\ (listed' => CacheFits(session', accounts', tree'.cache))
    BY <2>1, Zenon
  <2>4. tree' \in Tree /\ RowsFit(tree')
    BY <1>1, <2>1
  <2> QED
    BY <2>2, <2>3, <2>4 DEF ListInv
<1>4. CASE OnCloseVault
  <2> DEFINE t == [tree EXCEPT !.text = NoText]
             v == [t EXCEPT !.cache = <<>>]
             field == tree.field
             tag == tree.tag
  <2>1. t \in Tree /\ t.text = NoText /\ t.field = field /\ t.tag = tag
    BY <1>1 DEF Tree, Texts
  <2>2. tree' = Filtered(v, t.text, t.field, t.tag)
    BY <1>4 DEF OnCloseVault, WithData
  <2> HIDE DEF t
  <2>3. field \in Fields /\ tag \in Tags \cup {NoText} /\ v \in Tree
    <3> DEFINE none == <<>>
    <3>1. none \in Seq(Account) /\ v = [t EXCEPT !.cache = none]
      OBVIOUS
    <3> HIDE DEF none, v
    <3> QED
      BY <1>1, <2>1, <3>1 DEF Tree
  <2> HIDE DEF v, field, tag
  <2>4. tree' \in Tree /\ RowsFit(tree')
    <3> DEFINE text == NoText
    <3>1. text \in Texts /\ tree' = Filtered(v, text, field, tag)
      BY <2>1, <2>2 DEF Texts
    <3> HIDE DEF text
    <3> QED
      BY <2>3, <3>1, FilteredFits
  <2> QED
    <3>1. listed' = TRUE
      BY <1>4 DEF OnCloseVault
    <3> QED
      BY <1>2, <2>4, <3>1 DEF ListInv, CacheFits, AnyRole
<1> QED
  BY <1>3, <1>4

\* Every step keeps the invariant.
LEMMA ListSteps ==
    ASSUME ListInv, [ListNext]_listVars PROVE ListInv'
<1>1. CASE UNCHANGED listVars
  BY <1>1 DEF listVars, ListInv
<1>2. ASSUME NEW text \in AccountNames \cup Tags \cup {NoText}, Search(text)
      PROVE  ListInv'
  <2>1. text \in Texts /\ UNCHANGED <<session, accounts, listed>>
    BY <1>2 DEF Texts, Search
  <2> QED
    BY <1>2, <2>1, FiltersShow
<1>3. ASSUME NEW field \in Fields, FilterByField(field) PROVE ListInv'
  <2>1. UNCHANGED <<session, accounts, listed>>
    BY <1>3 DEF FilterByField
  <2> QED
    BY <1>3, <2>1, FiltersShow
<1>4. ASSUME NEW tag \in Tags \cup {NoText}, FilterByTag(tag) PROVE ListInv'
  <2>1. UNCHANGED <<session, accounts, listed>>
    BY <1>4 DEF FilterByTag
  <2> QED
    BY <1>4, <2>1, FiltersShow
<1>5. CASE Sort
  <2>1. UNCHANGED <<session, accounts, listed>>
    BY <1>5 DEF Sort
  <2> QED
    BY <1>5, <2>1, FiltersShow
<1>6. CASE Drop
  BY <1>6 DEF Drop, ListInv
<1>7. ASSUME NEW list \in Contents, NEW i \in DOMAIN list, Restore(list[i])
      PROVE  ListInv'
  <2>1. list[i] \in Account
    BY ContentsAssumption
  <2> QED
    BY <1>7, <2>1, RestoreShows
<1>8. ASSUME NEW role \in Roles, NEW list \in Contents, Login(role, list)
      PROVE  ListInv'
  <2>1. list \in Seq(Account)
    BY ContentsAssumption
  <2> QED
    BY <1>8, <2>1, LoginShows
<1>9. CASE GiveUp
  BY <1>9 DEF GiveUp, ListInv
<1> QED
  BY <1>1, <1>2, <1>3, <1>4, <1>5, <1>6, <1>7, <1>8, <1>9, IdleShows, EditShows,
     SelectShows, DeleteShows, StarShows, AddShows, OpenShows, ClosedShows DEF ListNext

-----------------------------------------------------------------------------
(* The list of accounts: what it shows *)

\* What the invariant says of the rows.
LEMMA ShownRows ==
    ASSUME ListInv PROVE RowsAreOfTheVault /\ EverythingIsListed
<1> DEFINE fav == tree.rows.favorites
           all == tree.rows.all
           cache == tree.cache
<1>1. /\ fav \in Seq(Account) /\ all \in Seq(Account) /\ cache \in Seq(Account)
      /\ accounts \in Seq(Account) /\ session \in AnyRole
  BY DEF ListInv, Tree
<1>2. (listed => CacheFits(session, accounts, cache)) /\ RowsFit(tree)
  BY DEF ListInv
<1>3. ASSUME session # "none", listed, NEW a, \E k \in 1..Len(cache) : a = cache[k]
      PROVE  \E j \in DOMAIN accounts :
                Named(<<accounts[j]>>, a) /\ CanView(session, accounts, j)
  <2>1. PICK j \in 1..Len(accounts) :
            Same(accounts[j], a) /\ CanView(session, accounts, j)
    BY <1>2, <1>3 DEF CacheFits
  <2> DEFINE one == <<accounts[j]>>
  <2>2. 1 \in DOMAIN one /\ one[1] = accounts[j]
    OBVIOUS
  <2> HIDE DEF one
  <2>3. Named(one, a)
    BY <2>1, <2>2 DEF Named, Same
  <2>4. j \in DOMAIN accounts
    BY <1>1
  <2> QED
    BY <2>1, <2>3, <2>4, Zenon DEF one
<1>4. /\ \A k \in 1..Len(fav) : \E i \in (1..Len(cache)) \cap Stars(cache) : fav[k] = cache[i]
      /\ \A k \in 1..Len(all) : \E i \in 1..Len(cache) : all[k] = cache[i]
  BY <1>2 DEF RowsFit, From
<1>5. RowsAreOfTheVault
  <2> SUFFICES ASSUME session # "none", listed, NEW i \in DOMAIN Rows
      PROVE  \E j \in DOMAIN accounts :
                Named(<<accounts[j]>>, Rows[i]) /\ CanView(session, accounts, j)
    BY DEF RowsAreOfTheVault, IsOpen
  <2> DEFINE rows == Rows
  <2>1. rows = fav \o all
    BY DEF Rows
  <2>2. rows[i] \in {fav[k] : k \in 1..Len(fav)} \cup {all[k] : k \in 1..Len(all)}
    <3> HIDE DEF fav, all, rows
    <3>1. fav \in Seq(Account) /\ all \in Seq(Account) /\ i \in DOMAIN (fav \o all)
      BY <1>1, <2>1 DEF rows
    <3>2. /\ i \in 1..Len(fav) + Len(all)
          /\ (fav \o all)[i] = IF i <= Len(fav) THEN fav[i] ELSE all[i - Len(fav)]
      BY <3>1
    <3> QED
      BY <2>1, <3>1, <3>2
  <2>3. (\E k \in 1..Len(fav) : rows[i] = fav[k]) \/ (\E k \in 1..Len(all) : rows[i] = all[k])
    <3> HIDE DEF fav, all, rows
    <3> QED
      BY <2>2, Zenon
  <2> HIDE DEF rows, fav, all, cache
  <2>4. \E k \in 1..Len(cache) : rows[i] = cache[k]
    <3>1. CASE \E k \in 1..Len(fav) : rows[i] = fav[k]
      <4>1. PICK k \in 1..Len(fav) : rows[i] = fav[k]
        BY <3>1
      <4>2. PICK l \in (1..Len(cache)) \cap Stars(cache) : fav[k] = cache[l]
        BY <1>4
      <4>3. l \in 1..Len(cache)
        OBVIOUS
      <4> QED
        BY <4>1, <4>2, <4>3, Zenon
    <3>2. CASE \E k \in 1..Len(all) : rows[i] = all[k]
      <4>1. PICK k \in 1..Len(all) : rows[i] = all[k]
        BY <3>2
      <4>2. PICK l \in 1..Len(cache) : all[k] = cache[l]
        BY <1>4
      <4> QED
        BY <4>1, <4>2, Zenon
    <3> QED
      BY <2>3, <3>1, <3>2
  <2> QED
    BY <1>3, <2>4 DEF rows, cache
<1>6. ASSUME session # "none", listed, tree.text = NoText, tree.tag = NoText,
             session = "admin" \/ \A i \in DOMAIN accounts : ~accounts[i].adminOnly
      PROVE  /\ Len(all) = Len(accounts)
             /\ \A i \in DOMAIN accounts : Named(all, accounts[i])
             /\ \A i \in DOMAIN accounts :
                    accounts[i].star <=> Named(fav, accounts[i])
  <2>1. all = cache /\ \A i \in (1..Len(cache)) \cap Stars(cache) : \E k \in 1..Len(fav) : fav[k] = cache[i]
    BY <1>2, <1>6 DEF RowsFit, Covers
  <2>2. Len(cache) = Len(accounts) /\ \A k \in 1..Len(accounts) : Same(accounts[k], cache[k])
    BY <1>1, <1>2, <1>6 DEF CacheFits, Everyone
  <2>3. /\ DOMAIN accounts = 1..Len(accounts) /\ DOMAIN fav = 1..Len(fav)
        /\ DOMAIN all = 1..Len(all)
    BY <1>1
  <2>4. ASSUME NEW i \in 1..Len(accounts) PROVE Named(all, accounts[i])
    BY <2>1, <2>2, <2>3 DEF Named, Same
  <2>5. ASSUME NEW i \in 1..Len(accounts), accounts[i].star PROVE Named(fav, accounts[i])
    <3>1. i \in (1..Len(cache)) \cap Stars(cache) /\ Same(accounts[i], cache[i])
      BY <2>2, <2>5 DEF Stars, Same
    <3>2. PICK k \in 1..Len(fav) : fav[k] = cache[i]
      BY <2>1, <3>1
    <3> QED
      BY <2>3, <3>1, <3>2 DEF Named, Same
  <2>6. ASSUME NEW i \in 1..Len(accounts), Named(fav, accounts[i]) PROVE accounts[i].star
    <3>1. PICK k \in 1..Len(fav) : fav[k].star = accounts[i].star
      BY <2>3, <2>6 DEF Named
    <3>2. PICK l \in (1..Len(cache)) \cap Stars(cache) : fav[k] = cache[l]
      BY <1>4
    <3> QED
      BY <3>1, <3>2 DEF Stars
  <2> QED
    BY <2>1, <2>2, <2>3, <2>4, <2>5, <2>6
<1>7. EverythingIsListed
  BY <1>6 DEF EverythingIsListed, IsOpen
<1> QED
  BY <1>5, <1>7

\* The invariant always holds.
LEMMA ListInvariance == ListSpec => []ListInv
<1>1. ListInit => ListInv
  BY ListStarts
<1>2. ListInv /\ [ListNext]_listVars => ListInv'
  BY ListSteps
<1> QED
  BY <1>1, <1>2, PTL DEF ListSpec

\* Once the list was refreshed for the vault, no row shows an account that the user may
\* not view, that is gone or is of another vault, or an old name or star: an edit that
\* keeps the name leaves the copy as it is, every other change of the vault makes it
\* anew, a login over an open vault is told to it when its requirements are met, and
\* rows are only ever made of the copy.
THEOREM RowsAlwaysOfTheVault == ListSpec => []RowsAreOfTheVault
<1>1. ListInv => RowsAreOfTheVault
  BY ShownRows
<1> QED
  BY <1>1, ListInvariance, PTL

\* In that list, without filters, whoever may view everything finds everything: the
\* second test of what can be viewed, on positions of the list that the first one left,
\* loses nothing.
THEOREM EverythingAlwaysListed == ListSpec => []EverythingIsListed
<1>1. ListInv => EverythingIsListed
  BY ShownRows
<1> QED
  BY <1>1, ListInvariance, PTL

=============================================================================
