------------------------- MODULE TransferProofs --------------------------
(***************************************************************************)
(* What an export writes, an import of the same format reads back, for     *)
(* all accounts and all texts in them: no account that a format can carry  *)
(* is lost or changed by whatever quotes, entities or backslashes its      *)
(* fields are made of, and a file that was cut off in the middle of an     *)
(* account has all that were written before it and at most one more.       *)
(*                                                                         *)
(* The parsers of the three formats are loops over a text.  Each loop is   *)
(* the function of the position that the model has, and the proofs follow  *)
(* its states: what is true at the start and after every step is true all  *)
(* along (Along), a loop over u \o v is in the middle where a loop over u  *)
(* ends, and what is true of <<>> and of every text with one character     *)
(* more is true of all (EverySequence).  The order is                      *)
(*                                                                         *)
(*   - what is chosen of a sequence, and what a function makes of it;      *)
(*   - texts within texts, and the loops of the escapes and their inverses *)
(*     for XML, then those of the JSON strings of a 1pif record;           *)
(*   - the keys of a record: a key, between quotation marks, is read only  *)
(*     at the very end of an escaped value, since every quotation mark in  *)
(*     front of that comes behind a backslash;                             *)
(*   - the fields of a CSV line, the rows of a file, how the lines that    *)
(*     the import splits it into are those rows, and that a piece of a row *)
(*     after them changes none of them;                                    *)
(*   - the records of a 1pif file and those that the separator drops;      *)
(*   - the accounts read from a file, whole or cut, and the dialogs.       *)
(*                                                                         *)
(* ListProofs has what they need about AtPositions.                        *)
(***************************************************************************)
EXTENDS Transfer, ListProofs

-----------------------------------------------------------------------------
(* Loops over a text *)

\* What is true at the start and after every step is true all along.
LEMMA Along ==
    ASSUME NEW N \in Nat, NEW T, 0 \in T, \A i \in 1..N : i - 1 \in T => i \in T
    PROVE  \A i \in 0..N : i \in T
<1> DEFINE W == {n \in Nat : n <= N => n \in T}
<1>1. W \in SUBSET Nat /\ 0 \in W
  OBVIOUS
<1>2. ASSUME NEW n \in W PROVE n + 1 \in W
  <2>1. CASE n + 1 <= N
    <3>1. n + 1 \in 1..N /\ (n + 1) - 1 = n /\ n \in T
      BY <2>1
    <3> QED
      BY <3>1
  <2>2. CASE ~(n + 1 <= N)
    BY <2>2
  <2> QED
    BY <2>1, <2>2
<1> HIDE DEF W
<1>3. W = Nat
  BY <1>1, <1>2, Upwards
<1> QED
  BY <1>3 DEF W

\* What is true of the empty sequence, and of every sequence with one element more,
\* is true of all.
LEMMA EverySequence ==
    ASSUME NEW S, NEW T \in SUBSET Seq(S), <<>> \in T,
           \A t \in T, c \in S : Append(t, c) \in T
    PROVE  T = Seq(S)
<1> DEFINE W == {n \in Nat : \A t \in Seq(S) : Len(t) = n => t \in T}
<1>1. W \in SUBSET Nat /\ 0 \in W
  <2>1. ASSUME NEW t \in Seq(S), Len(t) = 0 PROVE t = <<>>
    BY <2>1, EmptySeq
  <2> QED
    BY <2>1
<1>2. ASSUME NEW n \in W PROVE n + 1 \in W
  <2>1. n \in Nat /\ \A t \in Seq(S) : Len(t) = n => t \in T
    OBVIOUS
  <2>2. ASSUME NEW t \in Seq(S), Len(t) = n + 1 PROVE t \in T
    <3>1. t # <<>>
      BY <2>1, <2>2, EmptySeq
    <3>2. PICK u \in Seq(S), c \in S : t = Append(u, c)
      BY <3>1, SequenceEmptyOrAppend
    <3>3. Len(t) = Len(u) + 1 /\ Len(u) \in Nat
      BY <3>2
    <3>4. u \in T
      BY <2>1, <2>2, <3>3
    <3> QED
      BY <3>2, <3>4
  <2> QED
    BY <2>1, <2>2
<1> HIDE DEF W
<1>3. W = Nat
  BY <1>1, <1>2, Upwards
<1>4. ASSUME NEW t \in Seq(S) PROVE t \in T
  <2>1. Len(t) \in W
    BY <1>3
  <2> QED
    BY <2>1 DEF W
<1> QED
  BY <1>4

\* A run of N steps: f starts with z and step i is what G[i] makes of a state in S.
RunOf(f, S, z, N, G) ==
    /\ f \in [0..N -> S] /\ f[0] = z
    /\ \A i \in 1..N : f[i] = G[i][f[i - 1]]

\* There is such a run, however many steps there are.
LEMMA Runs ==
    ASSUME NEW S, NEW z \in S, NEW N \in Nat, NEW G \in [1..N -> [S -> S]]
    PROVE  \E f : RunOf(f, S, z, N, G)
<1> DEFINE Run(f, n) == /\ f \in [0..n -> S] /\ f[0] = z
                        /\ \A i \in 1..n : f[i] = G[i][f[i - 1]]
           T == {n \in Nat : \E f : Run(f, n)}
<1>1. 0 \in T
  <2> DEFINE f == [i \in 0..0 |-> z]
  <2>1. Run(f, 0)
    OBVIOUS
  <2> HIDE DEF f, Run
  <2> QED
    BY <2>1
<1>2. ASSUME NEW i \in 1..N, i - 1 \in T PROVE i \in T
  <2>1. PICK f : Run(f, i - 1)
    BY <1>2
  <2>2. f \in [0..i - 1 -> S] /\ f[0] = z /\ \A j \in 1..i - 1 : f[j] = G[j][f[j - 1]]
    BY <2>1
  <2> DEFINE e == G[i][f[i - 1]]
             h == [j \in 0..i |-> IF j = i THEN e ELSE f[j]]
  <2>3. e \in S
    BY <2>2
  <2> HIDE DEF e
  <2>4. h \in [0..i -> S] /\ h[0] = z
    BY <2>2, <2>3
  <2>5. ASSUME NEW j \in 1..i PROVE h[j] = G[j][h[j - 1]]
    <3>1. j - 1 \in 0..i - 1 /\ h[j - 1] = f[j - 1]
      BY <2>2
    <3>2. CASE j = i
      BY <3>1, <3>2 DEF e
    <3>3. CASE j # i
      <4>1. j \in 1..i - 1 /\ h[j] = f[j]
        BY <3>3
      <4> QED
        BY <2>2, <3>1, <4>1
    <3> QED
      BY <3>2, <3>3
  <2> HIDE DEF h
  <2>6. Run(h, i)
    BY <2>4, <2>5
  <2> HIDE DEF Run
  <2> QED
    BY <2>6
<1> HIDE DEF T
<1>3. N \in T
  <2>1. \A i \in 0..N : i \in T
    BY <1>1, <1>2, Along
  <2> QED
    BY <2>1
<1>4. PICK f : Run(f, N)
  BY <1>3 DEF T
<1> QED
  BY <1>4 DEF RunOf

-----------------------------------------------------------------------------
(* Choosing and mapping elements *)

\* The elements of s that are in G, and what F makes of each.
Chosen(s, G) == AtPositions(s, {i \in DOMAIN s : s[i] \in G})
Over(F, s) == [i \in DOMAIN s |-> F[s[i]]]

\* What is chosen with one element more.
ChosenNext(S, s, e, G) ==
    /\ Chosen(s, G) \in Seq(S)
    /\ e \in G => Chosen(Append(s, e), G) = Append(Chosen(s, G), e)
    /\ e \notin G => Chosen(Append(s, e), G) = Chosen(s, G)

\* That one is chosen or not.
LEMMA ChosenAppend ==
    ASSUME NEW S, NEW s \in Seq(S), NEW e \in S, NEW G
    PROVE  ChosenNext(S, s, e, G)
<1> DEFINE u == Append(s, e)
           P == {i \in DOMAIN s : s[i] \in G}
           Q == {i \in DOMAIN u : u[i] \in G}
           g == Nth(s, P)
           h == Nth(u, Q)
           N == Len(s)
           T == {n \in 0..N : h[n] = g[n]}
<1>1. /\ N \in Nat /\ u \in Seq(S) /\ Len(u) = N + 1 /\ u[N + 1] = e
      /\ \A i \in 1..N : u[i] = s[i]
  OBVIOUS
<1>2. /\ \A i \in 1..N : i \in P <=> i \in Q
      /\ N + 1 \in Q <=> e \in G
  BY <1>1
<1>3. AtPositions(s, P) = g[N] /\ AtPositions(u, Q) = h[N + 1] /\ AtPositions(s, P) \in Seq(S)
  <2> HIDE DEF P, Q, u
  <2> QED
    BY <1>1, AtPositionsIsNth, Selected
<1> HIDE DEF u, P, Q
<1>4. /\ \A n \in 0..N : g[n] = Body(g, s, P, n)
      /\ \A n \in 0..N + 1 : h[n] = Body(h, u, Q, n)
  <2>1. g = [n \in 0..N |-> Body(g, s, P, n)]
    BY NthExists
  <2>2. h = [n \in 0..N + 1 |-> Body(h, u, Q, n)]
    BY <1>1, NthExists
  <2> HIDE DEF g, h
  <2> QED
    BY <2>1, <2>2
<1> HIDE DEF g, h
<1>5. 0 \in T
  <2>1. g[0] = <<>> /\ h[0] = <<>>
    BY <1>1, <1>4 DEF Body
  <2> QED
    BY <1>1, <2>1
<1>6. ASSUME NEW n \in 1..N, n - 1 \in T PROVE n \in T
  <2>1. g[n] = Body(g, s, P, n) /\ h[n] = Body(h, u, Q, n) /\ n \in 0..N /\ n # 0
    BY <1>1, <1>4
  <2>2. h[n - 1] = g[n - 1] /\ u[n] = s[n] /\ (n \in P <=> n \in Q)
    BY <1>1, <1>2, <1>6
  <2> QED
    BY <2>1, <2>2 DEF Body
<1> HIDE DEF T
<1>7. h[N] = g[N]
  <2>1. \A n \in 0..N : n \in T
    BY <1>1, <1>5, <1>6, Along
  <2> QED
    BY <1>1, <2>1 DEF T
<1>8. h[N + 1] = Body(h, u, Q, N + 1) /\ N + 1 # 0 /\ (N + 1) - 1 = N
  BY <1>1, <1>4
<1>9. h[N + 1] = IF e \in G THEN Append(g[N], e) ELSE g[N]
  BY <1>1, <1>2, <1>7, <1>8 DEF Body
<1> QED
  BY <1>3, <1>9 DEF ChosenNext, Chosen, u, P, Q

\* Of no elements none is chosen.
LEMMA ChosenEmpty == ASSUME NEW G PROVE Chosen(<<>>, G) = <<>>
<1> DEFINE P == {i \in DOMAIN <<>> : <<>>[i] \in G}
<1>1. <<>> \in Seq({}) /\ Len(<<>>) = 0
  OBVIOUS
<1> HIDE DEF P
<1> DEFINE o == <<>>
<1>a. o \in Seq({}) /\ Len(o) = 0
  BY <1>1
<1> HIDE DEF o
<1>2. AtPositions(o, P) \in Seq({})
  BY <1>a, Selected
<1>3. AtPositions(o, P) = <<>>
  BY <1>2
<1> QED
  BY <1>3 DEF Chosen, P, o

\* What is chosen of two sequences is chosen of each.
LEMMA ChosenConcat ==
    ASSUME NEW S, NEW s \in Seq(S), NEW t \in Seq(S), NEW G
    PROVE  Chosen(s \o t, G) = Chosen(s, G) \o Chosen(t, G)
<1> DEFINE T == {r \in Seq(S) : Chosen(s \o r, G) = Chosen(s, G) \o Chosen(r, G)}
           c == Chosen(s, G)
<1>1. c \in Seq(S)
  <2>1. CASE s = <<>>
    BY <2>1, ChosenEmpty
  <2>2. CASE s # <<>>
    <3>1. PICK q \in Seq(S), e \in S : s = Append(q, e)
      BY <2>2, SequenceEmptyOrAppend
    <3>2. ChosenNext(S, q, e, G)
      BY ChosenAppend
    <3>3. Append(Chosen(q, G), e) \in Seq(S)
      BY <3>2 DEF ChosenNext
    <3> QED
      BY <3>1, <3>2, <3>3 DEF ChosenNext
  <2> QED
    BY <2>1, <2>2
<1>2. <<>> \in T
  <2> DEFINE o == <<>>
  <2>1. s \o o = s /\ o \in Seq(S)
    OBVIOUS
  <2> HIDE DEF c
  <2>2. c \o o = c
    BY <1>1
  <2>3. Chosen(o, G) = o
    BY ChosenEmpty
  <2> HIDE DEF o
  <2>4. Chosen(s \o o, G) = Chosen(s, G) \o Chosen(o, G)
    BY <2>1, <2>2, <2>3 DEF c
  <2>5. o \in T
    BY <2>1, <2>4
  <2> QED
    BY <2>5 DEF o
<1>3. ASSUME NEW r \in T, NEW e \in S PROVE Append(r, e) \in T
  <2> DEFINE d == Chosen(r, G)
             u == s \o r
  <2>1. r \in Seq(S) /\ Chosen(u, G) = c \o d
    OBVIOUS
  <2>2. u \in Seq(S) /\ s \o Append(r, e) = Append(u, e) /\ Append(r, e) \in Seq(S)
    BY <2>1
  <2> HIDE DEF u, T
  <2>3. /\ d \in Seq(S)
        /\ e \in G => Chosen(Append(r, e), G) = Append(d, e)
        /\ e \notin G => Chosen(Append(r, e), G) = d
    <3>1. ChosenNext(S, r, e, G)
      BY <2>1, ChosenAppend
    <3> QED
      BY <3>1 DEF ChosenNext
  <2>4. /\ e \in G => Chosen(Append(u, e), G) = Append(Chosen(u, G), e)
        /\ e \notin G => Chosen(Append(u, e), G) = Chosen(u, G)
    <3>1. u \in Seq(S)
      BY <2>2
    <3>2. ChosenNext(S, u, e, G)
      BY <3>1, ChosenAppend
    <3> QED
      BY <3>2 DEF ChosenNext
  <2>a. c \in Seq(S) /\ d \in Seq(S)
    BY <1>1, <2>3
  <2> HIDE DEF c, d
  <2>5. Append(c \o d, e) = c \o Append(d, e)
    <3> DEFINE m == <<e>>
    <3>1. m \in Seq(S)
      OBVIOUS
    <3> DEFINE k == c \o d
    <3>2. k \in Seq(S) /\ Append(d, e) = d \o m
      BY <2>a
    <3> HIDE DEF k
    <3>3. Append(k, e) = k \o m
      BY <3>2
    <3> HIDE DEF m
    <3>4. (c \o d) \o m = c \o (d \o m)
      BY <2>a, <3>1, ConcatAssociative
    <3> QED
      BY <3>2, <3>3, <3>4 DEF k
  <2>6. Chosen(Append(u, e), G) = c \o Chosen(Append(r, e), G)
    BY <2>1, <2>3, <2>4, <2>5
  <2> QED
    BY <2>2, <2>6 DEF c, T
<1> HIDE DEF T
<1>4. T = Seq(S)
  <2>1. T \in SUBSET Seq(S)
    BY DEF T
  <2> QED
    BY <1>2, <1>3, <2>1, EverySequence
<1> QED
  BY <1>4 DEF T

\* Choosing twice is choosing what is in both.
LEMMA ChosenTwice ==
    ASSUME NEW S, NEW s \in Seq(S), NEW G, NEW H
    PROVE  Chosen(Chosen(s, G), H) = Chosen(s, G \cap H)
<1> DEFINE T == {r \in Seq(S) : Chosen(Chosen(r, G), H) = Chosen(r, G \cap H)}
<1>1. <<>> \in T
  BY ChosenEmpty
<1>2. ASSUME NEW r \in T, NEW e \in S PROVE Append(r, e) \in T
  <2> DEFINE c == Chosen(r, G)
             K == G \cap H
  <2>1. r \in Seq(S) /\ Chosen(c, H) = Chosen(r, K) /\ (e \in K <=> e \in G /\ e \in H)
    OBVIOUS
  <2> HIDE DEF K, T
  <2>2. /\ c \in Seq(S)
        /\ e \in G => Chosen(Append(r, e), G) = Append(c, e)
        /\ e \notin G => Chosen(Append(r, e), G) = c
    <3>1. ChosenNext(S, r, e, G)
      BY <2>1, ChosenAppend
    <3> QED
      BY <3>1 DEF ChosenNext
  <2>3. /\ e \in K => Chosen(Append(r, e), K) = Append(Chosen(r, K), e)
        /\ e \notin K => Chosen(Append(r, e), K) = Chosen(r, K)
    <3>1. ChosenNext(S, r, e, K)
      BY <2>1, ChosenAppend
    <3> QED
      BY <3>1 DEF ChosenNext
  <2> HIDE DEF c
  <2>4. /\ e \in H => Chosen(Append(c, e), H) = Append(Chosen(c, H), e)
        /\ e \notin H => Chosen(Append(c, e), H) = Chosen(c, H)
    <3>1. c \in Seq(S)
      BY <2>2
    <3>2. ChosenNext(S, c, e, H)
      BY <3>1, ChosenAppend
    <3> QED
      BY <3>2 DEF ChosenNext
  <2>5. Chosen(Chosen(Append(r, e), G), H) = Chosen(Append(r, e), K)
    <3>1. CASE e \in G /\ e \in H
      BY <2>1, <2>2, <2>3, <2>4, <3>1
    <3>2. CASE e \in G /\ e \notin H
      BY <2>1, <2>2, <2>3, <2>4, <3>2
    <3>3. CASE e \notin G
      BY <2>1, <2>2, <2>3, <3>3
    <3> QED
      BY <3>1, <3>2, <3>3
  <2>6. Append(r, e) \in Seq(S)
    BY <2>1
  <2> QED
    BY <2>5, <2>6 DEF K, T
<1> HIDE DEF T
<1>3. T = Seq(S)
  <2>1. T \in SUBSET Seq(S)
    BY DEF T
  <2> QED
    BY <1>1, <1>2, <2>1, EverySequence
<1> QED
  BY <1>3 DEF T

\* As long a sequence, element by element.
OverEach(R, F, s) ==
    /\ Over(F, s) \in Seq(R) /\ Len(Over(F, s)) = Len(s)
    /\ \A i \in 1..Len(s) : Over(F, s)[i] = F[s[i]]

\* What F makes of a sequence, ...
LEMMA OverIs ==
    ASSUME NEW S, NEW R, NEW F \in [S -> R], NEW s \in Seq(S)
    PROVE  OverEach(R, F, s)
<1>1. Len(s) \in Nat /\ DOMAIN s = 1..Len(s) /\ \A i \in 1..Len(s) : F[s[i]] \in R
  OBVIOUS
<1>2. Over(F, s) = [i \in 1..Len(s) |-> F[s[i]]]
  BY <1>1 DEF Over
<1> QED
  BY <1>1, <1>2 DEF OverEach

\* ... of two, ...
OverJoins(F, s, t) == Over(F, s \o t) = Over(F, s) \o Over(F, t)
LEMMA OverConcat ==
    ASSUME NEW S, NEW R, NEW F \in [S -> R], NEW s \in Seq(S), NEW t \in Seq(S)
    PROVE  OverJoins(F, s, t)
<1> DEFINE u == s \o t
           x == Over(F, s)
           y == Over(F, t)
           z == Over(F, u)
<1>1. /\ u \in Seq(S) /\ Len(u) = Len(s) + Len(t) /\ Len(s) \in Nat /\ Len(t) \in Nat
      /\ \A i \in 1..Len(s) : u[i] = s[i]
      /\ \A i \in 1..Len(t) : u[Len(s) + i] = t[i]
  OBVIOUS
<1>2. /\ x \in Seq(R) /\ Len(x) = Len(s) /\ \A i \in 1..Len(s) : x[i] = F[s[i]]
      /\ y \in Seq(R) /\ Len(y) = Len(t) /\ \A i \in 1..Len(t) : y[i] = F[t[i]]
  <2>1. OverEach(R, F, s) /\ OverEach(R, F, t)
    BY OverIs
  <2> QED
    BY <2>1 DEF OverEach
<1> HIDE DEF u
<1>3. z \in Seq(R) /\ Len(z) = Len(u) /\ \A i \in 1..Len(u) : z[i] = F[u[i]]
  <2>1. u \in Seq(S)
    BY <1>1
  <2>2. OverEach(R, F, u)
    BY <2>1, OverIs
  <2> QED
    BY <2>2 DEF OverEach
<1> HIDE DEF x, y, z
<1>4. /\ x \o y \in Seq(R) /\ Len(x \o y) = Len(s) + Len(t)
      /\ \A i \in 1..Len(s) : (x \o y)[i] = x[i]
      /\ \A i \in 1..Len(t) : (x \o y)[Len(s) + i] = y[i]
  <2>1. x \in Seq(R) /\ y \in Seq(R) /\ Len(x) = Len(s) /\ Len(y) = Len(t)
    BY <1>2
  <2>2. /\ x \o y \in Seq(R) /\ Len(x \o y) = Len(x) + Len(y)
        /\ \A i \in 1..Len(x) : (x \o y)[i] = x[i]
        /\ \A i \in 1..Len(y) : (x \o y)[Len(x) + i] = y[i]
    BY <2>1
  <2> QED
    BY <2>1, <2>2
<1>5. ASSUME NEW i \in 1..Len(u) PROVE z[i] = (x \o y)[i]
  <2>1. CASE i \in 1..Len(s)
    BY <1>1, <1>2, <1>3, <1>4, <2>1
  <2>2. CASE i \notin 1..Len(s)
    <3>1. i - Len(s) \in 1..Len(t) /\ i = Len(s) + (i - Len(s))
      BY <1>1, <2>2
    <3>2. z[i] = F[u[i]] /\ u[Len(s) + (i - Len(s))] = t[i - Len(s)]
          /\ (x \o y)[Len(s) + (i - Len(s))] = y[i - Len(s)] /\ y[i - Len(s)] = F[t[i - Len(s)]]
      BY <1>1, <1>2, <1>3, <1>4, <3>1
    <3> QED
      BY <3>1, <3>2
  <2> QED
    BY <2>1, <2>2
<1>6. z = x \o y
  BY <1>1, <1>3, <1>4, <1>5, SeqEqual
<1> QED
  BY <1>6 DEF OverJoins, x, y, z, u

\* ... and of one element more.
LEMMA OverAppend ==
    ASSUME NEW S, NEW R, NEW F \in [S -> R], NEW e \in S, NEW q \in Seq(S)
    PROVE  Over(F, Append(q, e)) = Append(Over(F, q), F[e])
<1> DEFINE m == <<e>>
           y == Over(F, q)
           k == Over(F, m)
<1>1. m \in Seq(S) /\ Len(m) = 1 /\ m[1] = e /\ Append(q, e) = q \o m
  OBVIOUS
<1> HIDE DEF m
<1>2. Over(F, q \o m) = y \o k
  <2>1. m \in Seq(S)
    BY <1>1
  <2>2. OverJoins(F, q, m)
    BY <2>1, OverConcat
  <2> QED
    BY <2>2 DEF OverJoins
<1>3. OverEach(R, F, q) /\ OverEach(R, F, m)
  BY <1>1, OverIs
<1>4. y \in Seq(R) /\ k \in Seq(R) /\ Len(k) = 1 /\ k[1] = F[e]
  BY <1>1, <1>3 DEF OverEach
<1> HIDE DEF y, k
<1>5. k = <<F[e]>> /\ F[e] \in R
  BY <1>4
<1>6. y \o <<F[e]>> = Append(y, F[e])
  BY <1>4, <1>5
<1> QED
  BY <1>1, <1>2, <1>5, <1>6 DEF y

\* What is chosen of what F makes is what F makes of those chosen by it.
OverChooses(F, s, G, H) == Chosen(Over(F, s), G) = Over(F, Chosen(s, H))
LEMMA ChosenOver ==
    ASSUME NEW S, NEW R, NEW F \in [S -> R], NEW s \in Seq(S), NEW G,
           NEW H, \A a \in S : a \in H <=> F[a] \in G
    PROVE  OverChooses(F, s, G, H)
<1> DEFINE T == {r \in Seq(S) : Chosen(Over(F, r), G) = Over(F, Chosen(r, H))}
<1>0. Over(F, <<>>) = <<>>
  BY DEF Over
<1>1. <<>> \in T
  BY <1>0, ChosenEmpty
<1>2. ASSUME NEW r \in T, NEW e \in S PROVE Append(r, e) \in T
  <2> DEFINE x == Over(F, r)
             c == Chosen(r, H)
             u == Append(r, e)
  <2>1. r \in Seq(S) /\ Chosen(x, G) = Over(F, c) /\ F[e] \in R
    OBVIOUS
  <2>2. u \in Seq(S) /\ x \in Seq(R)
    <3>1. OverEach(R, F, r)
      BY <2>1, OverIs
    <3> QED
      BY <2>1, <3>1 DEF OverEach
  <2> HIDE DEF T
  <2>a. \A q \in Seq(S) : Over(F, Append(q, e)) = Append(Over(F, q), F[e])
    BY OverAppend
  <2>3. Over(F, u) = Append(x, F[e])
    BY <2>1, <2>a
  <2>4. /\ c \in Seq(S)
        /\ e \in H => Chosen(u, H) = Append(c, e)
        /\ e \notin H => Chosen(u, H) = c
    <3>1. ChosenNext(S, r, e, H)
      BY <2>1, ChosenAppend
    <3> QED
      BY <3>1 DEF ChosenNext
  <2>5. /\ F[e] \in G => Chosen(Append(x, F[e]), G) = Append(Chosen(x, G), F[e])
        /\ F[e] \notin G => Chosen(Append(x, F[e]), G) = Chosen(x, G)
    <3> DEFINE d == F[e]
    <3>1. x \in Seq(R) /\ d \in R
      BY <2>1, <2>2
    <3> HIDE DEF d, x
    <3>2. ChosenNext(R, x, d, G)
      BY <3>1, ChosenAppend
    <3> QED
      BY <3>2 DEF ChosenNext, d
  <2> HIDE DEF x, c, u
  <2>6. Over(F, Append(c, e)) = Append(Over(F, c), F[e])
    BY <2>4, <2>a
  <2>7. Chosen(Over(F, u), G) = Over(F, Chosen(u, H))
    BY <2>1, <2>3, <2>4, <2>5, <2>6
  <2> QED
    BY <2>2, <2>7 DEF u, T
<1> HIDE DEF T
<1>3. T = Seq(S)
  <2>1. T \in SUBSET Seq(S)
    BY DEF T
  <2> QED
    BY <1>1, <1>2, <2>1, EverySequence
<1> QED
  BY <1>3 DEF T, OverChooses

\* What is chosen of a sequence of S is one.
LEMMA ChosenIn == ASSUME NEW S, NEW s \in Seq(S), NEW G PROVE Chosen(s, G) \in Seq(S)
BY Selected DEF Chosen

\* What is chosen is no longer.
LEMMA ChosenShorter ==
    ASSUME NEW S, NEW s \in Seq(S), NEW G, Len(s) \in {0, 1}
    PROVE  Chosen(s, G) \in Seq(S) /\ Len(Chosen(s, G)) \in {0, 1}
<1>1. CASE Len(s) = 0
  <2>1. s = <<>>
    BY <1>1, EmptySeq
  <2> QED
    BY <2>1, ChosenEmpty
<1>2. CASE Len(s) = 1
  <2>1. s # <<>>
    BY <1>2
  <2>2. PICK q \in Seq(S), e \in S : s = Append(q, e)
    BY <2>1, SequenceEmptyOrAppend
  <2>3. Len(q) = 0
    BY <1>2, <2>2
  <2>4. q = <<>>
    BY <2>3, EmptySeq
  <2>5. ChosenNext(S, q, e, G)
    BY ChosenAppend
  <2> DEFINE c == Chosen(s, G)
  <2>6. Chosen(q, G) = <<>>
    BY <2>4, ChosenEmpty
  <2>7. c = <<>> \/ c = Append(<<>>, e)
    BY <2>2, <2>5, <2>6 DEF ChosenNext
  <2> HIDE DEF c
  <2> DEFINE m == <<e>>
  <2>a. m \in Seq(S) /\ Len(m) = 1 /\ Append(<<>>, e) = m
    OBVIOUS
  <2>b. <<>> \in Seq(S) /\ Len(<<>>) = 0
    OBVIOUS
  <2> HIDE DEF m
  <2>8. c \in Seq(S) /\ Len(c) \in {0, 1}
    BY <2>7, <2>a, <2>b
  <2> QED
    BY <2>8 DEF c
<1> QED
  BY <1>1, <1>2

\* Where all are in G, all are chosen.
LEMMA ChosenAll ==
    ASSUME NEW S, NEW s \in Seq(S), NEW G, \A i \in 1..Len(s) : s[i] \in G
    PROVE  Chosen(s, G) = s
<1> DEFINE T == {r \in Seq(S) : (\A i \in 1..Len(r) : r[i] \in G) => Chosen(r, G) = r}
<1>1. <<>> \in T
  BY ChosenEmpty
<1>2. ASSUME NEW r \in T, NEW e \in S PROVE Append(r, e) \in T
  <2> DEFINE u == Append(r, e)
  <2>1. r \in Seq(S) /\ ((\A i \in 1..Len(r) : r[i] \in G) => Chosen(r, G) = r)
    OBVIOUS
  <2>2. /\ u \in Seq(S) /\ Len(u) = Len(r) + 1 /\ Len(r) \in Nat /\ u[Len(u)] = e
        /\ \A i \in 1..Len(r) : u[i] = r[i]
    BY <2>1
  <2>3. ChosenNext(S, r, e, G)
    BY <2>1, ChosenAppend
  <2>4. e \in G => Chosen(u, G) = Append(Chosen(r, G), e)
    BY <2>3 DEF ChosenNext
  <2>5. u = Append(r, e)
    OBVIOUS
  <2> HIDE DEF u
  <2>6. ASSUME \A i \in 1..Len(u) : u[i] \in G PROVE Chosen(u, G) = u
    <3>1. e \in G
      <4>1. Len(u) \in 1..Len(u)
        BY <2>2
      <4> QED
        BY <2>2, <2>6, <4>1
    <3>2. \A i \in 1..Len(r) : r[i] \in G
      <4>1. \A i \in 1..Len(r) : i \in 1..Len(u)
        BY <2>2
      <4> QED
        BY <2>2, <2>6, <4>1
    <3> QED
      BY <2>1, <2>4, <2>5, <3>1, <3>2
  <2>7. u \in T
    BY <2>2, <2>6
  <2> QED
    BY <2>7 DEF u
<1> HIDE DEF T
<1>3. T = Seq(S)
  <2>1. T \in SUBSET Seq(S)
    BY DEF T
  <2> QED
    BY <1>1, <1>2, <2>1, EverySequence
<1> QED
  BY <1>3 DEF T

\* Each that is in G is among those chosen.
LEMMA ChosenHas ==
    ASSUME NEW S, NEW s \in Seq(S), NEW G, NEW i \in 1..Len(s), s[i] \in G
    PROVE  \E k \in 1..Len(Chosen(s, G)) : Chosen(s, G)[k] = s[i]
<1> DEFINE P == {j \in DOMAIN s : s[j] \in G}
           t == AtPositions(s, P)
<1>1. i \in (1..Len(s)) \cap P
  <2>1. DOMAIN s = 1..Len(s)
    OBVIOUS
  <2> QED
    BY <2>1
<1>2. Chosen(s, G) = t
  BY DEF Chosen
<1> HIDE DEF P
<1>3. Covers(t, s, P)
  BY Selected
<1> HIDE DEF t
<1>4. PICK k \in 1..Len(t) : t[k] = s[i]
  BY <1>1, <1>3 DEF Covers
<1> QED
  BY <1>2, <1>4

-----------------------------------------------------------------------------
(* Joining texts *)

\* What FlattenSeq makes of no sequences.
LEMMA FlattenEmpty == FlattenSeq(<<>>) = <<>>
BY DEF FlattenSeq

\* The run of FlattenSeq's loop.
Flattening(g, ss) ==
    g = [i \in 1..Len(ss) |-> IF i = 1 THEN ss[i] ELSE g[i - 1] \o ss[i]]

\* What it makes of some is where its loop ends.
LEMMA FlattenIs ==
    ASSUME NEW ss, Len(ss) # 0
    PROVE  FlattenSeq(ss) = (CHOOSE g : Flattening(g, ss))[Len(ss)]
BY DEF FlattenSeq, Flattening

\* Its loop has a run.
LEMMA FlattenRuns ==
    ASSUME NEW S, NEW ss \in Seq(Seq(S))
    PROVE  \E g : Flattening(g, ss)
<1> DEFINE N == Len(ss)
           Q == Seq(S)
           G == [i \in 1..N |-> [s \in Q |-> s \o ss[i]]]
           z == <<>>
<1>1. z \in Q /\ N \in Nat
  OBVIOUS
<1>2. \A i \in 1..N : ss[i] \in Q
  OBVIOUS
<1>3. \A i \in 1..N, s \in Q : s \o ss[i] \in Q
  BY <1>2
<1> HIDE DEF z, N, Q
<1>a. G \in [1..N -> [Q -> Q]]
  BY <1>3
<1>4. \A i \in 1..N, s \in Q : G[i][s] = s \o ss[i]
  OBVIOUS
<1> HIDE DEF G
<1>b. PICK f : RunOf(f, Q, z, N, G)
  BY <1>1, <1>a, Runs
<1>5. f \in [0..N -> Q] /\ f[0] = z /\ \A i \in 1..N : f[i] = G[i][f[i - 1]]
  BY <1>b DEF RunOf
<1> DEFINE h == [i \in 1..N |-> f[i]]
<1>6. ASSUME NEW i \in 1..N PROVE h[i] = IF i = 1 THEN ss[i] ELSE h[i - 1] \o ss[i]
  <2>1. i - 1 \in 0..N /\ i \in 0..N /\ f[i - 1] \in Q
    BY <1>1, <1>5
  <2>2. h[i] = f[i - 1] \o ss[i]
    BY <1>4, <1>5, <2>1
  <2>3. CASE i = 1
    <3>1. f[i - 1] = <<>>
      BY <1>5, <2>3 DEF z
    <3>2. <<>> \o ss[i] = ss[i]
      BY <1>2 DEF Q
    <3> QED
      BY <2>2, <2>3, <3>1, <3>2
  <2>4. CASE i # 1
    <3>1. i - 1 \in 1..N /\ h[i - 1] = f[i - 1]
      BY <1>1, <2>4
    <3> QED
      BY <2>2, <2>4, <3>1
  <2> QED
    BY <2>3, <2>4
<1>7. h = [i \in 1..N |-> h[i]]
  OBVIOUS
<1> HIDE DEF h
<1>8. h = [i \in 1..N |-> IF i = 1 THEN ss[i] ELSE h[i - 1] \o ss[i]]
  BY <1>6, <1>7
<1> QED
  BY <1>8 DEF Flattening, N

\* Any two runs over the same sequences agree, as far as both go.
LEMMA FlattenAgrees ==
    ASSUME NEW S, NEW ss \in Seq(Seq(S)), NEW tt \in Seq(Seq(S)), NEW g, NEW h,
           Flattening(g, ss), Flattening(h, tt),
           NEW n \in Nat, n <= Len(ss), n <= Len(tt), \A i \in 1..n : ss[i] = tt[i]
    PROVE  \A i \in 1..n : g[i] = h[i] /\ g[i] \in Seq(S)
<1> DEFINE T == {i \in Nat : i \in 1..n => g[i] = h[i] /\ g[i] \in Seq(S)}
<1>1. 0 \in T
  OBVIOUS
<1>2. ASSUME NEW i \in 1..n, i - 1 \in T PROVE i \in T
  <2>0. i \in 1..Len(ss) /\ i \in 1..Len(tt) /\ i \in Nat
    OBVIOUS
  <2>1. g[i] = IF i = 1 THEN ss[i] ELSE g[i - 1] \o ss[i]
    <3> DEFINE V(j) == IF j = 1 THEN ss[j] ELSE g[j - 1] \o ss[j]
    <3>1. g = [j \in 1..Len(ss) |-> V(j)]
      BY DEF Flattening
    <3> HIDE DEF V
    <3>2. g[i] = V(i)
      BY <2>0, <3>1
    <3> QED
      BY <3>2 DEF V
  <2>2. h[i] = IF i = 1 THEN tt[i] ELSE h[i - 1] \o tt[i]
    <3> DEFINE V(j) == IF j = 1 THEN tt[j] ELSE h[j - 1] \o tt[j]
    <3>1. h = [j \in 1..Len(tt) |-> V(j)]
      BY DEF Flattening
    <3> HIDE DEF V
    <3>2. h[i] = V(i)
      BY <2>0, <3>1
    <3> QED
      BY <3>2 DEF V
  <2>3. ss[i] = tt[i] /\ ss[i] \in Seq(S)
    BY <2>0
  <2>4. i # 1 => g[i - 1] = h[i - 1] /\ g[i - 1] \in Seq(S)
    BY <1>2
  <2>5. CASE i = 1
    BY <2>0, <2>1, <2>2, <2>3, <2>5
  <2>6. CASE i # 1
    <3>1. g[i] = g[i - 1] \o ss[i] /\ h[i] = h[i - 1] \o tt[i]
      BY <2>1, <2>2, <2>6
    <3>2. g[i] = h[i]
      BY <2>3, <2>4, <2>6, <3>1
    <3>3. g[i] \in Seq(S)
      BY <2>3, <2>4, <2>6, <3>1
    <3> QED
      BY <2>0, <3>2, <3>3
  <2> QED
    BY <2>5, <2>6
<1> HIDE DEF T
<1>3. \A i \in 0..n : i \in T
  BY <1>1, <1>2, Along
<1> QED
  BY <1>3 DEF T

\* Joining with one more puts it at the end.
LEMMA FlattenAppend ==
    ASSUME NEW S, NEW ss \in Seq(Seq(S)), NEW t \in Seq(S)
    PROVE  /\ FlattenSeq(ss) \in Seq(S)
           /\ FlattenSeq(Append(ss, t)) = FlattenSeq(ss) \o t
<1> DEFINE tt == Append(ss, t)
           n == Len(ss)
<1>1. tt \in Seq(Seq(S)) /\ Len(tt) = n + 1 /\ n \in Nat /\ tt[n + 1] = t
      /\ \A i \in 1..n : ss[i] = tt[i]
  OBVIOUS
<1> HIDE DEF tt
<1> DEFINE h == CHOOSE g : Flattening(g, tt)
<1>2. Flattening(h, tt)
  <2>1. \E g : Flattening(g, tt)
    BY <1>1, FlattenRuns
  <2> QED
    BY <2>1
<1>3. FlattenSeq(tt) = h[n + 1]
  BY <1>1, FlattenIs
<1> HIDE DEF h
<1>4. h[n + 1] = IF n + 1 = 1 THEN t ELSE h[n] \o t
  <2>1. n + 1 \in 1..Len(tt) /\ (n + 1) - 1 = n
    BY <1>1
  <2>2. h[n + 1] = IF n + 1 = 1 THEN tt[n + 1] ELSE h[(n + 1) - 1] \o tt[n + 1]
    BY <1>2, <2>1 DEF Flattening
  <2> QED
    BY <1>1, <2>1, <2>2
<1>5. CASE n = 0
  <2>1. ss = <<>> /\ FlattenSeq(ss) = <<>>
    <3>1. ss = <<>>
      BY <1>5, EmptySeq
    <3> QED
      BY <3>1, FlattenEmpty
  <2>2. h[n + 1] = t /\ <<>> \o t = t /\ <<>> \in Seq(S)
    BY <1>4, <1>5
  <2> QED
    BY <1>3, <2>1, <2>2 DEF tt
<1>6. CASE n # 0
  <2> DEFINE f == CHOOSE g : Flattening(g, ss)
  <2>1. Flattening(f, ss)
    <3>1. \E g : Flattening(g, ss)
      BY FlattenRuns
    <3> QED
      BY <3>1
  <2>2. FlattenSeq(ss) = f[n]
    BY <1>6, FlattenIs
  <2> HIDE DEF f
  <2>3. \A i \in 1..n : f[i] = h[i] /\ f[i] \in Seq(S)
    <3>1. n <= Len(ss) /\ n <= Len(tt)
      BY <1>1
    <3> HIDE DEF n
    <3> QED
      BY <1>1, <1>2, <2>1, <3>1, FlattenAgrees
  <2>4. n \in 1..n /\ n + 1 # 1
    BY <1>1, <1>6
  <2>5. f[n] = h[n] /\ f[n] \in Seq(S)
    BY <2>3, <2>4
  <2>6. h[n + 1] = h[n] \o t
    BY <1>4, <2>4
  <2> QED
    BY <1>3, <2>2, <2>5, <2>6 DEF tt
<1> QED
  BY <1>5, <1>6

-----------------------------------------------------------------------------
(* Texts in texts *)

\* v is in the text after its first p characters.
At(text, p, v) == p + Len(v) <= Len(text) /\ \A j \in 1..Len(v) : text[p + j] = v[j]

\* What is two texts is the one and then the other.
LEMMA AtConcat ==
    ASSUME NEW S, NEW text \in Seq(S), NEW p \in Nat, NEW u \in Seq(S), NEW v \in Seq(S),
           At(text, p, u \o v)
    PROVE  At(text, p, u) /\ At(text, p + Len(u), v)
<1>1. Len(u) \in Nat /\ Len(v) \in Nat /\ Len(text) \in Nat /\ Len(u \o v) = Len(u) + Len(v)
  OBVIOUS
<1>2. At(text, p, u)
  <2>1. ASSUME NEW j \in 1..Len(u) PROVE text[p + j] = u[j]
    <3>1. j \in 1..Len(u \o v) /\ (u \o v)[j] = u[j]
      OBVIOUS
    <3> QED
      BY <3>1 DEF At
  <2> QED
    BY <1>1, <2>1 DEF At
<1>3. At(text, p + Len(u), v)
  <2>1. ASSUME NEW j \in 1..Len(v) PROVE text[p + Len(u) + j] = v[j]
    <3>1. Len(u) + j \in 1..Len(u \o v) /\ (u \o v)[Len(u) + j] = v[j]
      OBVIOUS
    <3>2. text[p + (Len(u) + j)] = (u \o v)[Len(u) + j]
      BY <3>1 DEF At
    <3>3. p + (Len(u) + j) = p + Len(u) + j
      BY <1>1
    <3> QED
      BY <3>1, <3>2, <3>3
  <2> QED
    BY <1>1, <2>1 DEF At
<1> QED
  BY <1>2, <1>3

\* What is in a part of a text is in the text.
LEMMA AtWithin ==
    ASSUME NEW S, NEW text \in Seq(S), NEW u \in Seq(S), NEW v \in Seq(S),
           NEW p \in Nat, NEW q \in Nat, At(text, p, u), At(u, q, v)
    PROVE  At(text, p + q, v)
<1>1. Len(u) \in Nat /\ Len(v) \in Nat /\ Len(text) \in Nat
  OBVIOUS
<1>2. q + Len(v) <= Len(u) /\ p + Len(u) <= Len(text)
  BY DEF At
<1>3. ASSUME NEW j \in 1..Len(v) PROVE text[p + q + j] = v[j]
  <2>1. q + j \in 1..Len(u) /\ u[q + j] = v[j]
    BY <1>1, <1>2 DEF At
  <2>2. text[p + (q + j)] = u[q + j]
    BY <2>1 DEF At
  <2> QED
    BY <1>1, <2>1, <2>2
<1> QED
  BY <1>1, <1>2, <1>3 DEF At

\* The first k elements.
UpTo(t, k) == SubSeq(t, 1, k)

\* Each front is the one before and one element more.
LEMMA Fronts ==
    ASSUME NEW S, NEW t \in Seq(S)
    PROVE  /\ UpTo(t, 0) = <<>> /\ UpTo(t, Len(t)) = t
           /\ \A k \in 0..Len(t) - 1 : /\ UpTo(t, k) \in Seq(S) /\ t[k + 1] \in S
                                       /\ UpTo(t, k + 1) = Append(UpTo(t, k), t[k + 1])
<1>1. UpTo(t, 0) = <<>> /\ UpTo(t, Len(t)) = t
  <2>1. SubSeq(t, 1, Len(t)) = t
    BY SubSeqFull
  <2>2. SubSeq(t, 1, 0) = <<>>
    BY SubSeqEmpty
  <2> QED
    BY <2>1, <2>2 DEF UpTo
<1>2. ASSUME NEW k \in 0..Len(t) - 1
      PROVE  /\ UpTo(t, k) \in Seq(S) /\ t[k + 1] \in S
             /\ UpTo(t, k + 1) = Append(UpTo(t, k), t[k + 1])
  <2>1. /\ Len(t) \in Nat /\ k + 1 \in 1..Len(t) /\ k \in Nat
        /\ \A i \in 1..k + 1 : t[i] \in S
    OBVIOUS
  <2> DEFINE u == UpTo(t, k)
             v == UpTo(t, k + 1)
             w == Append(u, t[k + 1])
  <2>2. u \in Seq(S) /\ Len(u) = k /\ \A i \in 1..k : u[i] = t[i]
    BY <2>1, SubSeqProperties DEF UpTo
  <2>3. v \in Seq(S) /\ Len(v) = k + 1 /\ \A i \in 1..k + 1 : v[i] = t[i]
    BY <2>1, SubSeqProperties DEF UpTo
  <2> HIDE DEF u, v
  <2>4. w \in Seq(S) /\ Len(w) = k + 1 /\ \A i \in 1..k + 1 : w[i] = t[i]
    BY <2>1, <2>2
  <2> HIDE DEF w
  <2>5. v = w
    BY <2>3, <2>4, SeqEqual
  <2> QED
    BY <2>1, <2>2, <2>5 DEF w, u, v
<1> QED
  BY <1>1, <1>2

-----------------------------------------------------------------------------
(* What the escapes write *)

\* What an escape e makes of one character.
Esc(c, e) == IF c \in DOMAIN e THEN e[c] ELSE <<c>>

\* It makes a text of each.
IsEscape(e) == \A c \in DOMAIN e : e[c] \in Text

\* The escape of no text.
LEMMA EscapedEmpty == ASSUME NEW e PROVE Escaped(<<>>, e) = <<>>
<1>1. [i \in DOMAIN <<>> |-> IF <<>>[i] \in DOMAIN e THEN e[<<>>[i]] ELSE <<<<>>[i]>>] = <<>>
  OBVIOUS
<1> QED
  BY <1>1, FlattenEmpty DEF Escaped

\* The escape of a text with one character more.
LEMMA EscapedAppend ==
    ASSUME NEW e, IsEscape(e), NEW t \in Text, NEW c \in Chars
    PROVE  /\ Escaped(t, e) \in Text /\ Esc(c, e) \in Text
           /\ Escaped(Append(t, c), e) = Escaped(t, e) \o Esc(c, e)
<1> DEFINE u == Append(t, c)
           ss == [i \in DOMAIN t |-> Esc(t[i], e)]
           tt == [i \in DOMAIN u |-> Esc(u[i], e)]
           w == Append(ss, Esc(c, e))
<1>1. Escaped(t, e) = FlattenSeq(ss) /\ Escaped(u, e) = FlattenSeq(tt)
  BY DEF Escaped, Esc
<1>2. \A d \in Chars : Esc(d, e) \in Text
  <2>1. ASSUME NEW d \in Chars PROVE <<d>> \in Seq(Chars)
    OBVIOUS
  <2> QED
    BY <2>1 DEF Esc, IsEscape, Text
<1>3. /\ u \in Seq(Chars) /\ Len(u) = Len(t) + 1 /\ Len(t) \in Nat
      /\ u[Len(t) + 1] = c /\ \A i \in 1..Len(t) : u[i] = t[i] /\ t[i] \in Chars
      /\ DOMAIN t = 1..Len(t) /\ DOMAIN u = 1..Len(t) + 1
  BY DEF Text
<1> HIDE DEF u
<1>4. ss \in Seq(Text) /\ Len(ss) = Len(t) /\ \A i \in 1..Len(t) : ss[i] = Esc(t[i], e)
  BY <1>2, <1>3
<1>5. tt \in Seq(Text) /\ Len(tt) = Len(t) + 1 /\ \A i \in 1..Len(t) + 1 : tt[i] = Esc(u[i], e)
  <2>1. \A i \in 1..Len(t) + 1 : u[i] \in Chars
    BY <1>3
  <2> QED
    BY <1>2, <1>3, <2>1
<1> HIDE DEF ss, tt
<1>6. w \in Seq(Text) /\ Len(w) = Len(t) + 1 /\ \A i \in 1..Len(t) + 1 : w[i] = tt[i]
  BY <1>2, <1>3, <1>4, <1>5
<1> HIDE DEF w
<1>7. w = tt
  BY <1>5, <1>6, SeqEqual
<1>8. FlattenSeq(ss) \in Text /\ FlattenSeq(w) = FlattenSeq(ss) \o Esc(c, e)
  BY <1>2, <1>4, FlattenAppend DEF w, Text
<1> QED
  BY <1>1, <1>2, <1>7, <1>8 DEF u

\* An escape makes a text of every text.
LEMMA EscapedText == ASSUME NEW e, IsEscape(e), NEW t \in Text PROVE Escaped(t, e) \in Text
<1>1. CASE t = <<>>
  <2>1. <<>> \in Text
    BY DEF Text
  <2> QED
    BY <1>1, <2>1, EscapedEmpty
<1>2. CASE t # <<>>
  <2>1. PICK u \in Seq(Chars), c \in Chars : t = Append(u, c)
    BY <1>2, SequenceEmptyOrAppend DEF Text
  <2>2. Escaped(u, e) \in Text /\ Esc(c, e) \in Text /\ Escaped(t, e) = Escaped(u, e) \o Esc(c, e)
    BY <2>1, EscapedAppend DEF Text
  <2> QED
    BY <2>2 DEF Text
<1> QED
  BY <1>1, <1>2

\* How far the escape of the first k characters goes.
Mark(t, e, k) == Len(Escaped(UpTo(t, k), e))

\* The escape of character k + 1 is there after the escape of the first k.
EscapesAt(text, p, t, e) ==
    /\ Mark(t, e, 0) = 0 /\ Mark(t, e, Len(t)) = Len(Escaped(t, e))
    /\ \A k \in 0..Len(t) - 1 :
        /\ Escaped(UpTo(t, k), e) \in Text /\ Esc(t[k + 1], e) \in Text
        /\ Escaped(UpTo(t, k + 1), e) = Escaped(UpTo(t, k), e) \o Esc(t[k + 1], e)
        /\ Mark(t, e, k) \in Nat /\ Mark(t, e, k + 1) = Mark(t, e, k) + Len(Esc(t[k + 1], e))
        /\ At(text, p + Mark(t, e, k), Esc(t[k + 1], e))

\* Where the escape of a text is, the escapes of its characters follow one another.
LEMMA EscapesThere ==
    ASSUME NEW e, IsEscape(e), NEW t \in Text, NEW text \in Text, NEW p \in Nat,
           At(text, p, Escaped(t, e))
    PROVE  EscapesAt(text, p, t, e)
<1>1. /\ UpTo(t, 0) = <<>> /\ UpTo(t, Len(t)) = t
      /\ \A k \in 0..Len(t) - 1 : /\ UpTo(t, k) \in Text /\ t[k + 1] \in Chars
                                  /\ UpTo(t, k + 1) = Append(UpTo(t, k), t[k + 1])
  BY Fronts DEF Text
<1>2. Mark(t, e, 0) = 0 /\ Mark(t, e, Len(t)) = Len(Escaped(t, e))
  BY <1>1, EscapedEmpty DEF Mark
<1>3. ASSUME NEW k \in 0..Len(t) - 1
      PROVE  /\ Escaped(UpTo(t, k), e) \in Text /\ Esc(t[k + 1], e) \in Text
             /\ Escaped(UpTo(t, k + 1), e) = Escaped(UpTo(t, k), e) \o Esc(t[k + 1], e)
  BY <1>1, EscapedAppend
<1>4. ASSUME NEW k \in 0..Len(t) - 1
      PROVE  Mark(t, e, k) \in Nat /\ Mark(t, e, k + 1) = Mark(t, e, k) + Len(Esc(t[k + 1], e))
  <2>1. Escaped(UpTo(t, k), e) \in Seq(Chars) /\ Esc(t[k + 1], e) \in Seq(Chars)
    BY <1>3 DEF Text
  <2>2. Escaped(UpTo(t, k + 1), e) = Escaped(UpTo(t, k), e) \o Esc(t[k + 1], e)
    BY <1>3
  <2> QED
    BY <2>1, <2>2 DEF Mark
\* Down from the whole text: what is there of k + 1 characters is there of k.
<1> DEFINE T == {n \in Nat : n <= Len(t) => At(text, p, Escaped(UpTo(t, Len(t) - n), e))}
<1>5. Len(t) \in Nat
  BY DEF Text
<1>6. 0 \in T
  BY <1>1, <1>5
<1>7. ASSUME NEW i \in 1..Len(t), i - 1 \in T PROVE i \in T
  <2> DEFINE k == Len(t) - i
  <2>1. k \in 0..Len(t) - 1 /\ k + 1 = Len(t) - (i - 1) /\ i - 1 <= Len(t)
    BY <1>5
  <2>2. At(text, p, Escaped(UpTo(t, k + 1), e))
    BY <1>7, <2>1
  <2> HIDE DEF k
  <2>3. At(text, p, Escaped(UpTo(t, k), e))
    <3> DEFINE u == Escaped(UpTo(t, k), e)
               v == Esc(t[k + 1], e)
    <3>1. u \in Seq(Chars) /\ v \in Seq(Chars) /\ text \in Seq(Chars)
      BY <1>3, <2>1 DEF Text
    <3>2. At(text, p, u \o v)
      BY <1>3, <2>1, <2>2
    <3> HIDE DEF u, v
    <3>3. At(text, p, u)
      BY <3>1, <3>2, AtConcat
    <3> QED
      BY <3>3 DEF u
  <2> QED
    BY <2>3 DEF k
<1> HIDE DEF T
<1>8. \A i \in 0..Len(t) : i \in T
  BY <1>5, <1>6, <1>7, Along
<1>9. ASSUME NEW k \in 0..Len(t) - 1 PROVE At(text, p + Mark(t, e, k), Esc(t[k + 1], e))
  <2> DEFINE n == Len(t) - (k + 1)
  <2>1. n \in 0..Len(t) /\ Len(t) - n = k + 1
    BY <1>5
  <2>2. At(text, p, Escaped(UpTo(t, k + 1), e))
    <3>1. n \in T
      BY <1>8, <2>1
    <3>2. At(text, p, Escaped(UpTo(t, Len(t) - n), e))
      BY <2>1, <3>1 DEF T
    <3> HIDE DEF n
    <3> QED
      BY <2>1, <3>2
  <2> DEFINE u == Escaped(UpTo(t, k), e)
             v == Esc(t[k + 1], e)
  <2>3. u \in Seq(Chars) /\ v \in Seq(Chars) /\ text \in Seq(Chars)
    BY <1>3 DEF Text
  <2>4. At(text, p, u \o v)
    BY <1>3, <2>2
  <2> HIDE DEF u, v
  <2>5. At(text, p + Len(u), v)
    BY <2>3, <2>4, AtConcat
  <2> QED
    BY <2>5 DEF u, v, Mark
<1> QED
  BY <1>2, <1>3, <1>4, <1>9 DEF EscapesAt

\* The character b does not occur.
Lacks(s, b) == \A i \in 1..Len(s) : s[i] # b

\* A text is free of the characters that it does not have.
LEMMA FreeIsNotHas == ASSUME NEW t, NEW b PROVE Lacks(t, b) <=> ~Has(t, b)
BY DEF Lacks, Has, Contains

\* An escape that does not write b writes none where there was none.
LEMMA EscapedFree ==
    ASSUME NEW e, IsEscape(e), NEW b, \A d : d # b => Lacks(Esc(d, e), b),
           NEW t \in Text, Lacks(t, b)
    PROVE  Lacks(Escaped(t, e), b)
<1> DEFINE T == {s \in Text : Lacks(s, b) => Lacks(Escaped(s, e), b)}
<1>1. <<>> \in T
  BY EscapedEmpty DEF Text, Lacks
<1>2. ASSUME NEW s \in T, NEW c \in Chars PROVE Append(s, c) \in T
  <2> DEFINE r == Append(s, c)
             x == Escaped(s, e)
             y == Esc(c, e)
  <2>1. s \in Seq(Chars) /\ s \in Text /\ r \in Text
    BY DEF Text
  <2>2. x \in Seq(Chars) /\ y \in Seq(Chars) /\ Escaped(r, e) = x \o y
    BY <2>1, EscapedAppend DEF Text
  <2>3. ASSUME Lacks(r, b) PROVE Lacks(Escaped(r, e), b)
    <3>1. Len(r) = Len(s) + 1 /\ r[Len(s) + 1] = c /\ Len(s) \in Nat
          /\ \A i \in 1..Len(s) : r[i] = s[i]
      BY <2>1
    <3>2. Lacks(s, b) /\ c # b
      BY <2>3, <3>1 DEF Lacks
    <3>3. Lacks(x, b) /\ Lacks(y, b)
      BY <3>2
    <3> HIDE DEF x, y, r
    <3>4. \A i \in 1..Len(x \o y) : (x \o y)[i] # b
      BY <2>2, <3>3 DEF Lacks
    <3> QED
      BY <2>2, <3>4 DEF Lacks
  <2> QED
    BY <2>1, <2>3
<1>3. T \in SUBSET Seq(Chars)
  BY DEF Text
<1> HIDE DEF T
<1>4. T = Seq(Chars)
  BY <1>1, <1>2, <1>3, EverySequence
<1> QED
  BY <1>4 DEF T, Text

-----------------------------------------------------------------------------
(* Collapsed *)

\* The state of Collapsed's loop, and its step.
CollapseState == [out : Text, skip : BOOLEAN]
CollapseStep(s, text, i, pair, c) ==
    IF s.skip THEN [s EXCEPT !.skip = FALSE]
    ELSE IF PairAt(text, i, pair)
         THEN [out |-> Append(s.out, c), skip |-> TRUE]
         ELSE [s EXCEPT !.out = Append(@, text[i])]

\* The run of its loop, ...
CollapseLoop(g, text, pair, c) ==
    g = [i \in 0..Len(text) |->
            IF i = 0 THEN [out |-> <<>>, skip |-> FALSE]
            ELSE CollapseStep(g[i - 1], text, i, pair, c)]

\* ... and what is said of it: t is what a step makes of s.
CollapseTakes(s, t, text, i, pair, c) ==
    /\ s.skip => t.out = s.out /\ t.skip = FALSE
    /\ ~s.skip /\ PairAt(text, i, pair) => t.out = Append(s.out, c) /\ t.skip = TRUE
    /\ ~s.skip /\ ~PairAt(text, i, pair) => t.out = Append(s.out, text[i]) /\ t.skip = FALSE

\* The states of the loop: each is what a step makes of the one before.
Collapsing(g, text, pair, c) ==
    /\ \A i \in 0..Len(text) : g[i].out \in Text /\ g[i].skip \in BOOLEAN
    /\ g[0].out = <<>> /\ g[0].skip = FALSE
    /\ \A i \in 1..Len(text) : CollapseTakes(g[i - 1], g[i], text, i, pair, c)
    /\ Collapsed(text, pair, c) = g[Len(text)].out

\* A step is what is said of it.
LEMMA CollapseSteps ==
    ASSUME NEW text \in Text, NEW pair, NEW c \in Chars, NEW i \in 1..Len(text),
           NEW s \in CollapseState, NEW t, t = CollapseStep(s, text, i, pair, c)
    PROVE  t \in CollapseState /\ CollapseTakes(s, t, text, i, pair, c)
<1>1. s.out \in Seq(Chars) /\ s.skip \in BOOLEAN /\ text[i] \in Chars
  BY DEF CollapseState, Text
<1>2. Append(s.out, c) \in Text /\ Append(s.out, text[i]) \in Text
  BY <1>1 DEF Text
<1>3. CASE s.skip
  <2>1. t = [s EXCEPT !.skip = FALSE]
    BY <1>3 DEF CollapseStep
  <2>2. t \in CollapseState /\ t.out = s.out /\ t.skip = FALSE
    BY <2>1 DEF CollapseState
  <2> QED
    BY <1>3, <2>2 DEF CollapseTakes
<1>4. CASE ~s.skip /\ PairAt(text, i, pair)
  <2>1. t = [out |-> Append(s.out, c), skip |-> TRUE]
    BY <1>4 DEF CollapseStep
  <2>2. t \in CollapseState /\ t.out = Append(s.out, c) /\ t.skip = TRUE
    BY <1>2, <2>1 DEF CollapseState
  <2> QED
    BY <1>4, <2>2 DEF CollapseTakes
<1>5. CASE ~s.skip /\ ~PairAt(text, i, pair)
  <2>1. t = [s EXCEPT !.out = Append(s.out, text[i])]
    BY <1>5 DEF CollapseStep
  <2>2. t \in CollapseState /\ t.out = Append(s.out, text[i]) /\ t.skip = s.skip
    BY <1>2, <2>1 DEF CollapseState
  <2> QED
    BY <1>1, <1>5, <2>2 DEF CollapseTakes
<1> QED
  BY <1>3, <1>4, <1>5

\* There is a run.
LEMMA CollapseLoops ==
    ASSUME NEW text \in Text, NEW pair, NEW c \in Chars
    PROVE  \E g : CollapseLoop(g, text, pair, c)
<1> DEFINE N == Len(text)
           z == [out |-> <<>>, skip |-> FALSE]
           Q == CollapseState
           G == [i \in 1..N |-> [s \in Q |-> CollapseStep(s, text, i, pair, c)]]
<1>1. z \in Q /\ N \in Nat
  BY DEF CollapseState, Text
<1> HIDE DEF z, Q
<1>2. G \in [1..N -> [Q -> Q]]
  <2>1. \A i \in 1..N, s \in Q : CollapseStep(s, text, i, pair, c) \in Q
    BY CollapseSteps DEF Q
  <2> QED
    BY <2>1
<1>3. \A i \in 1..N, s \in Q : G[i][s] = CollapseStep(s, text, i, pair, c)
  OBVIOUS
<1> HIDE DEF G, N
<1>4. PICK f : RunOf(f, Q, z, N, G)
  BY <1>1, <1>2, Runs
<1>5. f \in [0..N -> Q] /\ f[0] = z /\ \A i \in 1..N : f[i] = G[i][f[i - 1]]
  BY <1>4 DEF RunOf
<1>6. ASSUME NEW i \in 0..N
      PROVE  f[i] = IF i = 0 THEN z ELSE CollapseStep(f[i - 1], text, i, pair, c)
  <2>1. CASE i = 0
    BY <1>5, <2>1
  <2>2. CASE i # 0
    <3>1. i \in 1..N /\ f[i - 1] \in Q
      BY <1>1, <1>5, <2>2
    <3> QED
      BY <1>3, <1>5, <2>2, <3>1
  <2> QED
    BY <2>1, <2>2
<1>7. f = [i \in 0..N |-> IF i = 0 THEN z ELSE CollapseStep(f[i - 1], text, i, pair, c)]
  BY <1>5, <1>6
<1> QED
  BY <1>7 DEF CollapseLoop, N, z

\* Collapsed is where its loop ends.
LEMMA CollapsedIs ==
    ASSUME NEW text, NEW pair, NEW c
    PROVE  Collapsed(text, pair, c) = (CHOOSE g : CollapseLoop(g, text, pair, c))[Len(text)].out
BY DEF Collapsed, CollapseLoop, CollapseStep

\* Its loop has a run.
LEMMA CollapsedRuns ==
    ASSUME NEW text \in Text, NEW pair, NEW c \in Chars
    PROVE  \E g : Collapsing(g, text, pair, c)
<1> DEFINE g == CHOOSE h : CollapseLoop(h, text, pair, c)
           N == Len(text)
<1>1. CollapseLoop(g, text, pair, c)
  BY CollapseLoops
<1>2. Collapsed(text, pair, c) = g[N].out
  BY CollapsedIs
<1>3. N \in Nat
  BY DEF Text
<1> HIDE DEF g
<1>4. \A i \in 0..N : g[i] = IF i = 0 THEN [out |-> <<>>, skip |-> FALSE]
                             ELSE CollapseStep(g[i - 1], text, i, pair, c)
  <2> DEFINE V(i) == IF i = 0 THEN [out |-> <<>>, skip |-> FALSE]
                     ELSE CollapseStep(g[i - 1], text, i, pair, c)
  <2>1. g = [i \in 0..N |-> V(i)]
    BY <1>1 DEF CollapseLoop
  <2> HIDE DEF V
  <2>2. \A i \in 0..N : g[i] = V(i)
    BY <2>1
  <2> QED
    BY <2>2 DEF V
<1>5. \A i \in 1..N : g[i] = CollapseStep(g[i - 1], text, i, pair, c)
  BY <1>3, <1>4
<1>6. g[0] = [out |-> <<>>, skip |-> FALSE]
  BY <1>3, <1>4
<1> DEFINE T == {i \in 0..N : g[i] \in CollapseState}
<1>7. 0 \in T
  <2>1. [out |-> <<>>, skip |-> FALSE] \in CollapseState
    BY DEF CollapseState, Text
  <2> QED
    BY <1>3, <1>6, <2>1
<1>8. ASSUME NEW i \in 1..N, i - 1 \in T PROVE i \in T
  <2>1. g[i - 1] \in CollapseState
    BY <1>8
  <2>2. g[i] \in CollapseState
    BY <1>5, <2>1, CollapseSteps
  <2> QED
    BY <2>2
<1> HIDE DEF T
<1>9. \A i \in 0..N : i \in T
  BY <1>3, <1>7, <1>8, Along
<1>10. \A i \in 0..N : g[i] \in CollapseState
  BY <1>9 DEF T
<1>11. ASSUME NEW i \in 1..N PROVE CollapseTakes(g[i - 1], g[i], text, i, pair, c)
  <2>1. g[i - 1] \in CollapseState
    BY <1>3, <1>10
  <2> QED
    BY <1>5, <2>1, CollapseSteps
<1>12. \A i \in 0..N : g[i].out \in Text /\ g[i].skip \in BOOLEAN
  BY <1>10 DEF CollapseState
<1>13. g[0].out = <<>> /\ g[0].skip = FALSE
  BY <1>6
<1> QED
  BY <1>2, <1>11, <1>12, <1>13 DEF Collapsing

\* It makes a text.
LEMMA CollapsedText ==
    ASSUME NEW text \in Text, NEW pair, NEW c \in Chars
    PROVE  Collapsed(text, pair, c) \in Text
<1>1. PICK g : Collapsing(g, text, pair, c)
  BY CollapsedRuns
<1>2. Len(text) \in 0..Len(text)
  BY DEF Text
<1> QED
  BY <1>1, <1>2 DEF Collapsing

\* A text without the pair stays as it is.
LEMMA CollapsedSame ==
    ASSUME NEW text \in Text, NEW pair, NEW c \in Chars, ~HasPair(text, pair)
    PROVE  Collapsed(text, pair, c) = text
<1>1. PICK g : Collapsing(g, text, pair, c)
  BY CollapsedRuns
<1> DEFINE T == {i \in 0..Len(text) : g[i].out = UpTo(text, i) /\ g[i].skip = FALSE}
<1>2. /\ UpTo(text, 0) = <<>> /\ UpTo(text, Len(text)) = text
      /\ \A k \in 0..Len(text) - 1 : /\ UpTo(text, k) \in Text /\ text[k + 1] \in Chars
                                     /\ UpTo(text, k + 1) = Append(UpTo(text, k), text[k + 1])
  BY Fronts DEF Text
<1>3. Len(text) \in Nat /\ DOMAIN text = 1..Len(text)
  BY DEF Text
<1>4. 0 \in T
  BY <1>1, <1>2, <1>3 DEF Collapsing
<1>5. ASSUME NEW i \in 1..Len(text), i - 1 \in T PROVE i \in T
  <2>1. g[i - 1].out = UpTo(text, i - 1) /\ g[i - 1].skip = FALSE
    BY <1>5
  <2>2. ~PairAt(text, i, pair)
    BY <1>3 DEF HasPair
  <2>3. g[i].out = Append(UpTo(text, i - 1), text[i]) /\ g[i].skip = FALSE
    BY <1>1, <2>1, <2>2 DEF Collapsing, CollapseTakes
  <2>4. i - 1 \in 0..Len(text) - 1 /\ (i - 1) + 1 = i
    BY <1>3
  <2>5. UpTo(text, i) = Append(UpTo(text, i - 1), text[i])
    BY <1>2, <2>4
  <2>6. i \in 0..Len(text)
    BY <1>3
  <2> QED
    BY <2>3, <2>5, <2>6
<1> HIDE DEF T
<1>6. \A i \in 0..Len(text) : i \in T
  BY <1>3, <1>4, <1>5, Along
<1>7. g[Len(text)].out = UpTo(text, Len(text))
  <2>1. Len(text) \in T
    BY <1>3, <1>6
  <2> QED
    BY <2>1 DEF T
<1> QED
  BY <1>1, <1>2, <1>7 DEF Collapsing

\* Nothing is made only of the empty text.
LEMMA CollapsedEmpty ==
    ASSUME NEW text \in Text, NEW pair, NEW c \in Chars
    PROVE  Collapsed(text, pair, c) = <<>> <=> text = <<>>
<1>1. PICK g : Collapsing(g, text, pair, c)
  BY CollapsedRuns
<1>2. Len(text) \in Nat /\ (text = <<>> <=> Len(text) = 0)
  BY EmptySeq DEF Text
<1>3. CASE text = <<>>
  <2>1. Len(text) = 0
    BY <1>2, <1>3
  <2> QED
    BY <1>1, <1>3, <2>1 DEF Collapsing
<1>4. CASE text # <<>>
  <2> DEFINE T == {i \in 0..Len(text) : i = 0 \/ g[i].out # <<>>}
  <2>1. 0 \in T
    BY <1>2
  <2>2. ASSUME NEW i \in 1..Len(text), i - 1 \in T PROVE i \in T
    <3>1. /\ i - 1 \in 0..Len(text) /\ i \in 0..Len(text)
          /\ g[i - 1].out \in Seq(Chars) /\ g[i - 1].skip \in BOOLEAN
      BY <1>1, <1>2 DEF Collapsing, Text
    <3>2. CollapseTakes(g[i - 1], g[i], text, i, pair, c)
      BY <1>1 DEF Collapsing
    <3>3. \A d : Append(g[i - 1].out, d) # <<>>
      <4>1. ASSUME NEW d, Append(g[i - 1].out, d) = <<>> PROVE FALSE
        <5>1. Len(Append(g[i - 1].out, d)) = Len(g[i - 1].out) + 1 /\ Len(g[i - 1].out) \in Nat
          BY <3>1
        <5> QED
          BY <4>1, <5>1
      <4> QED
        BY <4>1
    <3>4. CASE ~g[i - 1].skip
      BY <3>1, <3>2, <3>3, <3>4 DEF CollapseTakes
    <3>5. CASE g[i - 1].skip
      <4>1. i - 1 # 0
        BY <1>1, <3>5 DEF Collapsing
      <4>2. g[i - 1].out # <<>>
        BY <2>2, <4>1
      <4> QED
        BY <3>1, <3>2, <3>5, <4>2 DEF CollapseTakes
    <3> QED
      BY <3>1, <3>4, <3>5
  <2> HIDE DEF T
  <2>3. \A i \in 0..Len(text) : i \in T
    BY <1>2, <2>1, <2>2, Along
  <2>4. Len(text) \in T /\ Len(text) # 0
    BY <1>2, <1>4, <2>3
  <2>5. g[Len(text)].out # <<>>
    BY <2>4 DEF T
  <2> QED
    BY <1>1, <1>4, <2>5 DEF Collapsing
<1> QED
  BY <1>3, <1>4

-----------------------------------------------------------------------------
(* XML *)

\* After i characters s is written, and the next one is not skipped.
Out(g, i, s) == g[i].out = s /\ g[i].skip = FALSE

\* Over a pair the loop writes c for both.
LEMMA CollapsesPair ==
    ASSUME NEW text \in Text, NEW pair, NEW c \in Chars, NEW g,
           Collapsing(g, text, pair, c),
           NEW i \in Nat, NEW s, Out(g, i, s), PairAt(text, i + 1, pair)
    PROVE  Out(g, i + 2, Append(s, c))
<1>1. Len(text) \in Nat /\ i + 1 < Len(text)
  BY DEF Text, PairAt
<1>2. i + 1 \in 1..Len(text) /\ i + 2 \in 1..Len(text)
      /\ (i + 2) - 1 = i + 1 /\ (i + 1) - 1 = i
  BY <1>1
<1>3. CollapseTakes(g[i], g[i + 1], text, i + 1, pair, c)
  <2>1. CollapseTakes(g[(i + 1) - 1], g[i + 1], text, i + 1, pair, c)
    BY <1>2 DEF Collapsing
  <2> QED
    BY <1>2, <2>1
<1>4. CollapseTakes(g[i + 1], g[i + 2], text, i + 2, pair, c)
  <2>1. CollapseTakes(g[(i + 2) - 1], g[i + 2], text, i + 2, pair, c)
    BY <1>2 DEF Collapsing
  <2> QED
    BY <1>2, <2>1
<1>5. g[i + 1].out = Append(s, c) /\ g[i + 1].skip = TRUE
  BY <1>3 DEF CollapseTakes, Out
<1>6. g[i + 2].out = g[i + 1].out /\ g[i + 2].skip = FALSE
  BY <1>4, <1>5 DEF CollapseTakes
<1> QED
  BY <1>5, <1>6 DEF Out

\* Over anything else it writes what it reads.
LEMMA CollapseKeeps ==
    ASSUME NEW text \in Text, NEW pair, NEW c \in Chars, NEW g,
           Collapsing(g, text, pair, c),
           NEW i \in Nat, i + 1 <= Len(text), NEW s, Out(g, i, s), ~PairAt(text, i + 1, pair)
    PROVE  Out(g, i + 1, Append(s, text[i + 1]))
<1>1. Len(text) \in Nat
  BY DEF Text
<1>2. i + 1 \in 1..Len(text) /\ (i + 1) - 1 = i
  BY <1>1
<1>3. CollapseTakes(g[i], g[i + 1], text, i + 1, pair, c)
  <2>1. CollapseTakes(g[(i + 1) - 1], g[i + 1], text, i + 1, pair, c)
    BY <1>2 DEF Collapsing
  <2> QED
    BY <1>2, <2>1
<1> QED
  BY <1>3 DEF CollapseTakes, Out

\* The characters that XML escapes, and the escape of those in D.
Marked == {"<", "&", "quote"}
Entities(D) == [c \in D |-> <<"&", EntityEnd[c]>>]

\* The ends of the entities are characters, none is the ampersand, and no two
\* agree.
LEMMA EntityEnds ==
    /\ \A c \in Marked : c \in Chars /\ EntityEnd[c] \in Chars /\ EntityEnd[c] # "&"
    /\ \A c, d \in Marked : c # d => EntityEnd[c] # EntityEnd[d]
    /\ "&" \in Chars
BY CharsAssumption DEF EntityEnd, Marked

\* What the escape of some marked characters makes of each character.
LEMMA EntitiesEscape ==
    ASSUME NEW D \in SUBSET Marked
    PROVE  /\ IsEscape(Entities(D))
           /\ \A c : c \in D => Esc(c, Entities(D)) = <<"&", EntityEnd[c]>>
           /\ \A c : c \notin D => Esc(c, Entities(D)) = <<c>>
<1>1. ASSUME NEW c \in D PROVE Entities(D)[c] \in Text
  <2>1. Entities(D)[c] = <<"&", EntityEnd[c]>>
    BY DEF Entities
  <2>2. EntityEnd[c] \in Chars /\ "&" \in Chars
    BY EntityEnds
  <2> QED
    BY <2>1, <2>2 DEF Text
<1>2. DOMAIN Entities(D) = D
  BY DEF Entities
<1>3. \A c \in D : Entities(D)[c] = <<"&", EntityEnd[c]>>
  BY DEF Entities
<1> QED
  BY <1>1, <1>2, <1>3 DEF IsEscape, Esc

\* Undoing the entity of c leaves a text in which c is not escaped, if what the
\* entity is spelled with is escaped or does not occur.
LEMMA UndoesEntity ==
    ASSUME NEW t \in Text, NEW D \in SUBSET Marked, NEW c \in D,
           "&" \in D \/ ~HasPair(t, <<"&", EntityEnd[c]>>)
    PROVE  Collapsed(Escaped(t, Entities(D)), <<"&", EntityEnd[c]>>, c)
              = Escaped(t, Entities(D \ {c}))
<1> DEFINE e == Entities(D)
           f == Entities(D \ {c})
           z == EntityEnd[c]
           pair == <<"&", z>>
           u == Escaped(t, e)
           N == Len(t)
<1>1. /\ IsEscape(e) /\ IsEscape(f)
      /\ \A d : d \in D => Esc(d, e) = <<"&", EntityEnd[d]>>
      /\ \A d : d \notin D => Esc(d, e) = <<d>>
      /\ \A d : d \in D \ {c} => Esc(d, f) = <<"&", EntityEnd[d]>>
      /\ \A d : d \notin D \ {c} => Esc(d, f) = <<d>>
  <2>1. D \ {c} \in SUBSET Marked
    OBVIOUS
  <2> QED
    BY <2>1, EntitiesEscape
<1> HIDE DEF e, f
<1>2. u \in Text /\ c \in Chars /\ z \in Chars
  BY <1>1, EscapedText, EntityEnds
<1>3. N \in Nat /\ Len(u) \in Nat /\ DOMAIN t = 1..N
  BY <1>2 DEF Text
<1>4. EscapesAt(u, 0, t, e)
  <2>1. At(u, 0, u)
    BY <1>3 DEF At
  <2> DEFINE o == 0
  <2>2. o \in Nat /\ At(u, o, Escaped(t, e))
    BY <2>1
  <2> HIDE DEF o
  <2>3. EscapesAt(u, o, t, e)
    BY <1>1, <1>2, <2>2, EscapesThere
  <2> QED
    BY <2>3 DEF o
<1>5. EscapesAt(Escaped(t, f), 0, t, f)
  <2> DEFINE o == 0
             v == Escaped(t, f)
  <2>0. v \in Text
    BY <1>1, EscapedText
  <2>1. Len(v) \in Nat
    BY <2>0 DEF Text
  <2>2. o \in Nat /\ At(v, o, Escaped(t, f))
    BY <2>1 DEF At
  <2> HIDE DEF o, v
  <2>3. EscapesAt(v, o, t, f)
    BY <1>1, <2>0, <2>2, EscapesThere
  <2> QED
    BY <2>3 DEF o, v
<1>6. PICK g : Collapsing(g, u, pair, c)
  BY <1>2, CollapsedRuns
<1> DEFINE M(k) == Mark(t, e, k)
           F(k) == Escaped(UpTo(t, k), f)
           T == {k \in 0..N : M(k) \in Nat /\ Out(g, M(k), F(k))}
<1> HIDE DEF u, z, pair
<1>7. 0 \in T
  <2>1. M(0) = 0
    BY <1>4 DEF EscapesAt
  <2>2. F(0) = <<>>
    <3>1. UpTo(t, 0) = <<>>
      BY Fronts DEF Text
    <3> QED
      BY <3>1, EscapedEmpty
  <2>3. Out(g, 0, <<>>)
    BY <1>6 DEF Collapsing, Out
  <2> HIDE DEF M, F
  <2> QED
    BY <1>3, <2>1, <2>2, <2>3
<1>8. ASSUME NEW k \in 1..N, k - 1 \in T PROVE k \in T
  <2> DEFINE j == k - 1
             d == t[k]
             m == M(j)
  <2>1. j \in 0..N - 1 /\ j + 1 = k /\ k \in 0..N /\ d \in Chars
    BY <1>3 DEF Text
  <2>2. /\ m \in Nat /\ M(k) = m + Len(Esc(d, e)) /\ At(u, m, Esc(d, e))
    <3>1. /\ M(j) \in Nat /\ M(j + 1) = M(j) + Len(Esc(t[j + 1], e))
          /\ At(u, 0 + M(j), Esc(t[j + 1], e))
      BY <1>4, <2>1 DEF EscapesAt
    <3> HIDE DEF M
    <3> QED
      BY <2>1, <3>1
  <2>3. F(j) \in Text /\ Esc(d, f) \in Text /\ F(k) = F(j) \o Esc(d, f)
    <3>1. F(j) \in Text /\ Esc(t[j + 1], f) \in Text /\ F(j + 1) = F(j) \o Esc(t[j + 1], f)
      BY <1>5, <2>1 DEF EscapesAt
    <3> HIDE DEF F
    <3> QED
      BY <2>1, <3>1
  <2>4. Out(g, m, F(j))
    BY <1>8
  <2> HIDE DEF T, M, F
  <2>a. k < N => /\ At(u, m + Len(Esc(d, e)), Esc(t[k + 1], e))
    <3>1. ASSUME k < N PROVE At(u, m + Len(Esc(d, e)), Esc(t[k + 1], e))
      <4>1. k \in 0..N - 1
        BY <1>3, <3>1
      <4>2. M(k) \in Nat /\ At(u, 0 + M(k), Esc(t[k + 1], e))
        BY <1>4, <4>1 DEF EscapesAt, M
      <4> QED
        BY <2>2, <4>2
    <3> QED
      BY <3>1
  <2>b. k = N => M(k) = Len(u)
    BY <1>4 DEF EscapesAt, M, u
  <2> HIDE DEF j, m
  <2>5. F(j) \in Seq(Chars)
    BY <2>3 DEF Text
  <2>6. CASE d = c
    <3>1. Esc(d, e) = <<"&", z>> /\ Esc(d, f) = <<c>>
      BY <1>1, <2>6 DEF z
    <3>2. Len(Esc(d, e)) = 2 /\ m + 2 <= Len(u) /\ u[m + 1] = "&" /\ u[m + 2] = z
      BY <2>2, <3>1 DEF At
    <3>3. Out(g, m + 2, Append(F(j), c))
      <4>1. PairAt(u, m + 1, pair)
        <5>1. m + 1 < Len(u) /\ (m + 1) + 1 = m + 2
          BY <1>3, <2>2, <3>2
        <5> QED
          BY <3>2, <5>1 DEF PairAt, pair
      <4> QED
        BY <1>2, <1>6, <2>2, <2>4, <4>1, CollapsesPair
    <3>4. F(k) = Append(F(j), c)
      BY <1>2, <2>3, <2>5, <3>1
    <3>5. M(k) = m + 2 /\ m + 2 \in Nat
      BY <2>2, <3>2
    <3> QED
      BY <2>1, <3>3, <3>4, <3>5 DEF T
  <2>7. CASE d \in D \ {c}
    <3> DEFINE y == EntityEnd[d]
    <3>0. y # z /\ y # "&" /\ y \in Chars /\ "&" \in Chars
      BY <2>7, EntityEnds DEF z
    <3>1. Esc(d, e) = <<"&", y>> /\ Esc(d, f) = <<"&", y>>
      BY <1>1, <2>7
    <3> HIDE DEF y
    <3>2. Len(Esc(d, e)) = 2 /\ m + 2 <= Len(u) /\ u[m + 1] = "&" /\ u[m + 2] = y
      BY <2>2, <3>1 DEF At
    <3>3. Out(g, m + 1, Append(F(j), "&"))
      <4>1. m + 1 <= Len(u) /\ (m + 1) + 1 = m + 2
        BY <1>3, <2>2, <3>2
      <4>2. ~PairAt(u, m + 1, pair)
        BY <3>0, <3>2, <4>1 DEF PairAt, pair
      <4>3. Out(g, m + 1, Append(F(j), u[m + 1]))
        BY <1>2, <1>6, <2>2, <2>4, <4>1, <4>2, CollapseKeeps
      <4> QED
        BY <3>2, <4>3
    <3>4. Out(g, m + 2, Append(Append(F(j), "&"), y))
      <4> DEFINE n == m + 1
                 s == Append(F(j), "&")
      <4>1. n \in Nat /\ n + 1 = m + 2 /\ Out(g, n, s)
        BY <2>2, <3>3
      <4>2. n + 1 <= Len(u) /\ u[n + 1] = y
        BY <3>2, <4>1
      <4> HIDE DEF n, s
      <4>3. ~PairAt(u, n + 1, pair)
        BY <3>0, <4>2 DEF PairAt, pair
      <4>4. Out(g, n + 1, Append(s, u[n + 1]))
        BY <1>2, <1>6, <4>1, <4>2, <4>3, CollapseKeeps
      <4> QED
        BY <4>1, <4>2, <4>4 DEF s
    <3>5. F(k) = Append(Append(F(j), "&"), y)
      <4>1. F(k) = F(j) \o <<"&", y>>
        BY <2>3, <3>1
      <4>2. \A s \in Seq(Chars) : s \o <<"&", y>> = Append(Append(s, "&"), y)
        BY <3>0
      <4> QED
        BY <2>5, <4>1, <4>2
    <3>6. M(k) = m + 2 /\ m + 2 \in Nat
      BY <2>2, <3>2
    <3> QED
      BY <2>1, <3>4, <3>5, <3>6 DEF T
  <2>8. CASE d \notin D
    <3>1. Esc(d, e) = <<d>> /\ Esc(d, f) = <<d>>
      BY <1>1, <2>8
    <3>2. Len(Esc(d, e)) = 1 /\ m + 1 <= Len(u) /\ u[m + 1] = d
      BY <2>2, <3>1 DEF At
    <3>3. ~PairAt(u, m + 1, pair)
      <4>0. SUFFICES ASSUME PairAt(u, m + 1, pair) PROVE FALSE
        OBVIOUS
      <4>a. m + 1 < Len(u) /\ d = "&" /\ u[m + 1 + 1] = z
        BY <3>2, <4>0 DEF PairAt, pair
      <4>1. ~HasPair(t, <<"&", z>>)
        BY <2>8, <4>a DEF z
      <4>2. k < N
        <5>1. M(k) = m + 1
          BY <2>2, <3>2
        <5>2. m \in Nat /\ Len(u) \in Nat /\ N \in Nat /\ k \in 1..N
          BY <1>3, <2>2
        <5>3. ASSUME k = N PROVE FALSE
          <6>1. m + 1 = Len(u)
            BY <2>b, <5>1, <5>3
          <6> QED
            BY <4>a, <5>2, <6>1
        <5> HIDE DEF N
        <5> QED
          BY <5>2, <5>3
      <4>3. At(u, m + 1, Esc(t[k + 1], e))
        BY <2>a, <3>2, <4>2
      <4>4. CASE t[k + 1] \in D
        <5>1. Esc(t[k + 1], e) = <<"&", EntityEnd[t[k + 1]]>>
          BY <1>1, <4>4
        <5>2. u[m + 1 + 1] = "&"
          BY <4>3, <5>1 DEF At
        <5>3. z # "&"
          BY EntityEnds DEF z
        <5> QED
          BY <4>a, <5>2, <5>3
      <4>5. CASE t[k + 1] \notin D
        <5>1. Esc(t[k + 1], e) = <<t[k + 1]>>
          BY <1>1, <4>5
        <5>2. u[m + 1 + 1] = t[k + 1]
          BY <4>3, <5>1 DEF At
        <5>3. t[k + 1] = z
          BY <4>a, <5>2
        <5>4. PairAt(t, k, <<"&", z>>)
          BY <4>2, <4>a, <5>3 DEF PairAt
        <5> QED
          BY <1>3, <4>1, <5>4 DEF HasPair
      <4> QED
        BY <4>4, <4>5
    <3>4. Out(g, m + 1, Append(F(j), u[m + 1]))
      BY <1>2, <1>6, <2>2, <2>4, <3>2, <3>3, CollapseKeeps
    <3>5. F(k) = Append(F(j), d)
      BY <2>1, <2>3, <2>5, <3>1
    <3>6. M(k) = m + 1 /\ m + 1 \in Nat
      BY <2>2, <3>2
    <3> QED
      BY <2>1, <3>2, <3>4, <3>5, <3>6 DEF T
  <2> QED
    BY <2>6, <2>7, <2>8
<1> HIDE DEF T
<1>9. \A k \in 0..N : k \in T
  BY <1>3, <1>7, <1>8, Along
<1>10. g[M(N)].out = F(N)
  <2>1. N \in T
    BY <1>3, <1>9
  <2> HIDE DEF M, F
  <2> QED
    BY <2>1 DEF T, Out
<1>11. M(N) = Len(u) /\ F(N) = Escaped(t, f)
  <2>1. UpTo(t, Len(t)) = t
    BY Fronts DEF Text
  <2> QED
    BY <2>1 DEF Mark, u
<1>12. Collapsed(u, pair, c) = g[Len(u)].out
  BY <1>6 DEF Collapsing
<1> QED
  BY <1>10, <1>11, <1>12 DEF u, z, e, f, pair

\* Without escapes a text is itself.
LEMMA NothingEscaped == ASSUME NEW t \in Text PROVE Escaped(t, Entities({})) = t
<1> DEFINE e == Entities({})
           T == {s \in Text : Escaped(s, e) = s}
<1>1. IsEscape(e) /\ \A c : Esc(c, e) = <<c>>
  BY EntitiesEscape
<1> HIDE DEF e
<1>2. <<>> \in T
  BY EscapedEmpty DEF Text
<1>3. ASSUME NEW s \in T, NEW c \in Chars PROVE Append(s, c) \in T
  <2>1. s \in Seq(Chars) /\ s \in Text /\ Escaped(s, e) = s
    BY DEF Text
  <2>2. Escaped(Append(s, c), e) = Escaped(s, e) \o Esc(c, e)
    BY <1>1, <2>1, EscapedAppend
  <2>3. Esc(c, e) = <<c>>
    BY <1>1
  <2>4. s \o <<c>> = Append(s, c) /\ Append(s, c) \in Text
    BY <2>1 DEF Text
  <2> QED
    BY <2>1, <2>2, <2>3, <2>4
<1>4. T \in SUBSET Seq(Chars)
  BY DEF Text
<1> HIDE DEF T
<1>5. T = Seq(Chars)
  BY <1>2, <1>3, <1>4, EverySequence
<1> QED
  BY <1>5 DEF T, Text, e

\* EscapeXml is the escape of all marked characters.
LEMMA EscapeXmlIs ==
    ASSUME NEW t \in Text
    PROVE  EscapeXml(t) = Escaped(t, Entities(Marked)) /\ EscapeXml(t) \in Text
<1>1. DOMAIN EntityEnd = Marked
  BY DEF EntityEnd, Marked
<1>2. EscapeXml(t) = Escaped(t, Entities(Marked))
  BY <1>1 DEF EscapeXml, Entities
<1>3. IsEscape(Entities(Marked))
  BY EntitiesEscape
<1> QED
  BY <1>2, <1>3, EscapedText

\* UnescapeXml makes a text of every text.
LEMMA UnescapeXmlText == ASSUME NEW t \in Text PROVE UnescapeXml(t) \in Text
<1>1. "<" \in Chars /\ "&" \in Chars /\ "quote" \in Chars
  BY CharsAssumption
<1> DEFINE u == Collapsed(t, <<"&", "lt;">>, "<")
           v == Collapsed(u, <<"&", "amp;">>, "&")
           w == Collapsed(v, <<"&", "quot;">>, "quote")
<1>2. u \in Text
  BY <1>1, CollapsedText
<1> HIDE DEF u
<1>3. v \in Text
  BY <1>1, <1>2, CollapsedText
<1> HIDE DEF v
<1>4. w \in Text
  BY <1>1, <1>3, CollapsedText
<1> QED
  BY <1>4 DEF UnescapeXml, u, v

\* What was escaped comes back, unless it spells the entity that is undone last.
LEMMA UnescapesXml ==
    ASSUME NEW t \in Text, ~HasPair(t, <<"&", "quot;">>)
    PROVE  UnescapeXml(EscapeXml(t)) = t
<1> DEFINE A == {"&", "quote"}
           B == {"quote"}
           lt == "<"
           amp == "&"
           quot == "quote"
<1>1. /\ Marked \ {lt} = A /\ A \ {amp} = B /\ B \ {quot} = {}
      /\ lt \in Marked /\ amp \in A /\ quot \in B /\ "&" \in Marked /\ "&" \in A
      /\ A \in SUBSET Marked /\ B \in SUBSET Marked /\ Marked \in SUBSET Marked
  BY DEF Marked
<1>2. EntityEnd[lt] = "lt;" /\ EntityEnd[amp] = "amp;" /\ EntityEnd[quot] = "quot;"
  BY DEF EntityEnd
<1>a. ~HasPair(t, <<"&", EntityEnd[quot]>>)
  BY <1>2
<1> HIDE DEF A, B, lt, amp, quot
<1>3. Collapsed(Escaped(t, Entities(Marked)), <<"&", EntityEnd[lt]>>, lt)
         = Escaped(t, Entities(Marked \ {lt}))
  BY <1>1, UndoesEntity
<1>4. Collapsed(Escaped(t, Entities(A)), <<"&", EntityEnd[amp]>>, amp)
         = Escaped(t, Entities(A \ {amp}))
  BY <1>1, UndoesEntity
<1>5. Collapsed(Escaped(t, Entities(B)), <<"&", EntityEnd[quot]>>, quot)
         = Escaped(t, Entities(B \ {quot}))
  BY <1>1, <1>a, UndoesEntity
<1>6. EscapeXml(t) = Escaped(t, Entities(Marked))
  BY EscapeXmlIs
<1>7. Escaped(t, Entities({})) = t
  BY NothingEscaped
<1>8. UnescapeXml(EscapeXml(t)) = Collapsed(Collapsed(Collapsed(EscapeXml(t),
          <<"&", "lt;">>, lt), <<"&", "amp;">>, amp), <<"&", "quot;">>, quot)
  BY DEF UnescapeXml, lt, amp, quot
<1> QED
  BY <1>1, <1>2, <1>3, <1>4, <1>5, <1>6, <1>7, <1>8

\* A text that spells no entity is not changed.
LEMMA NothingToUnescape ==
    ASSUME NEW t \in Text, \A c \in DOMAIN EntityEnd : ~HasPair(t, <<"&", EntityEnd[c]>>)
    PROVE  UnescapeXml(t) = t
<1>1. "<" \in Chars /\ "&" \in Chars /\ "quote" \in Chars
  BY CharsAssumption
<1>2. ~HasPair(t, <<"&", "lt;">>) /\ ~HasPair(t, <<"&", "amp;">>) /\ ~HasPair(t, <<"&", "quot;">>)
  BY DEF EntityEnd
<1>3. Collapsed(t, <<"&", "lt;">>, "<") = t
  BY <1>1, <1>2, CollapsedSame
<1>4. Collapsed(t, <<"&", "amp;">>, "&") = t
  BY <1>1, <1>2, CollapsedSame
<1>5. Collapsed(t, <<"&", "quot;">>, "quote") = t
  BY <1>1, <1>2, CollapsedSame
<1> QED
  BY <1>3, <1>4, <1>5 DEF UnescapeXml

-----------------------------------------------------------------------------
(* The address among the notes *)

\* The address e and the notes n, written one after the other.
Parted(w, e, n) ==
    /\ w \in Text /\ w[1] = "Email"
    /\ \A i \in 1..Len(e) : w[i + 1] = e[i]
    /\ n = <<>> => Len(w) = Len(e) + 1
    /\ n # <<>> => /\ Len(w) = Len(e) + 3 + Len(n)
                   /\ w[Len(e) + 2] = "newline" /\ w[Len(e) + 3] = "newline"
                   /\ \A i \in 1..Len(n) : w[Len(e) + 3 + i] = n[i]

\* What is written as notes is the address, if there is one, and the notes.
LEMMA WithEmailParts ==
    ASSUME NEW a \in Record
    PROVE  /\ a.email = <<>> => WithEmail(a) = a.notes
           /\ a.email # <<>> => Parted(WithEmail(a), a.email, a.notes)
           /\ WithEmail(a) \in Text
<1> DEFINE e == a.email
           n == a.notes
           w == WithEmail(a)
<1>1. e \in Seq(Chars) /\ n \in Seq(Chars)
  BY DEF Record, Text
<1>2. w = IF e = <<>> THEN n
          ELSE <<"Email">> \o e
               \o (IF n = <<>> THEN <<>> ELSE <<"newline", "newline">> \o n)
  BY DEF WithEmail
<1> HIDE DEF e, n, w
<1>3. "Email" \in Chars /\ "newline" \in Chars
  BY CharsAssumption
<1>4. <<"Email">> \in Seq(Chars) /\ <<"newline", "newline">> \in Seq(Chars)
  BY <1>3
<1>5. CASE e = <<>>
  BY <1>1, <1>2, <1>5 DEF e, n, w, Text
<1>6. CASE e # <<>> /\ n = <<>>
  <2>1. w = <<"Email">> \o e
    BY <1>1, <1>2, <1>4, <1>6
  <2>2. w \in Text /\ w[1] = "Email" /\ Len(w) = Len(e) + 1
        /\ \A i \in 1..Len(e) : w[i + 1] = e[i]
    BY <1>1, <1>4, <2>1 DEF Text
  <2> QED
    BY <1>6, <2>2 DEF Parted, e, n, w
<1>7. CASE e # <<>> /\ n # <<>>
  <2> DEFINE u == <<"Email">> \o e
             v == <<"newline", "newline">> \o n
  <2>1. w = u \o v
    BY <1>2, <1>7
  <2>2. u \in Seq(Chars) /\ u[1] = "Email" /\ Len(u) = Len(e) + 1
        /\ \A i \in 1..Len(e) : u[i + 1] = e[i]
    BY <1>1, <1>4
  <2>3. v \in Seq(Chars) /\ v[1] = "newline" /\ v[2] = "newline" /\ Len(v) = Len(n) + 2
        /\ \A i \in 1..Len(n) : v[i + 2] = n[i]
    BY <1>1, <1>4
  <2>4. Len(e) \in Nat /\ Len(n) \in Nat
    BY <1>1
  <2> HIDE DEF u, v
  <2>5. /\ w \in Seq(Chars) /\ Len(w) = Len(e) + 3 + Len(n)
        /\ \A i \in 1..Len(e) + 1 : w[i] = u[i]
        /\ \A i \in 1..Len(n) + 2 : w[Len(e) + 1 + i] = v[i]
    <3>1. u \in Seq(Chars) /\ v \in Seq(Chars) /\ Len(u) \in Nat /\ Len(v) \in Nat
      BY <2>2, <2>3
    <3>2. /\ w \in Seq(Chars) /\ Len(w) = Len(u) + Len(v)
          /\ \A i \in 1..Len(u) : w[i] = u[i]
          /\ \A i \in 1..Len(v) : w[Len(u) + i] = v[i]
      BY <2>1, <3>1
    <3>3. Len(u) = Len(e) + 1 /\ Len(v) = Len(n) + 2
      BY <2>2, <2>3
    <3>4. w \in Seq(Chars) /\ Len(w) = Len(e) + 3 + Len(n)
      BY <2>4, <3>2, <3>3
    <3>5. \A i \in 1..Len(e) + 1 : w[i] = u[i]
      BY <3>2, <3>3
    <3>6. \A i \in 1..Len(n) + 2 : w[Len(e) + 1 + i] = v[i]
      BY <3>2, <3>3
    <3> QED
      BY <3>4, <3>5, <3>6
  <2>6. w[1] = "Email" /\ \A i \in 1..Len(e) : w[i + 1] = e[i]
    BY <2>2, <2>4, <2>5
  <2>7. w[Len(e) + 2] = "newline" /\ w[Len(e) + 3] = "newline"
    <3>1. 1 \in 1..Len(n) + 2 /\ 2 \in 1..Len(n) + 2
      BY <2>4
    <3>2. w[Len(e) + 1 + 1] = v[1] /\ w[Len(e) + 1 + 2] = v[2]
      BY <2>5, <3>1
    <3> QED
      BY <2>3, <2>4, <3>2
  <2>8. ASSUME NEW i \in 1..Len(n) PROVE w[Len(e) + 3 + i] = n[i]
    <3>1. i + 2 \in 1..Len(n) + 2 /\ v[i + 2] = n[i]
      BY <2>3, <2>4
    <3>2. w[Len(e) + 1 + (i + 2)] = v[i + 2]
      BY <2>5, <3>1
    <3> QED
      BY <2>4, <3>1, <3>2
  <2> QED
    BY <1>7, <2>5, <2>6, <2>7, <2>8 DEF Parted, e, n, w, Text
<1> QED
  BY <1>5, <1>6, <1>7

\* It spells no entity that neither of them spells.
LEMMA NoPairWithEmail ==
    ASSUME NEW a \in Record, NEW z, z # "newline",
           ~HasPair(a.email, <<"&", z>>), ~HasPair(a.notes, <<"&", z>>)
    PROVE  ~HasPair(WithEmail(a), <<"&", z>>)
<1> DEFINE e == a.email
           n == a.notes
           w == WithEmail(a)
<1>1. e \in Seq(Chars) /\ n \in Seq(Chars)
  BY DEF Record, Text
<1>2. /\ e = <<>> => w = n
      /\ e # <<>> => Parted(w, e, n)
  BY WithEmailParts
<1>3. ~HasPair(e, <<"&", z>>) /\ ~HasPair(n, <<"&", z>>)
  OBVIOUS
<1> HIDE DEF e, n, w
<1>4. SUFFICES ASSUME e # <<>>, HasPair(w, <<"&", z>>) PROVE FALSE
  BY <1>2, <1>3 DEF w
<1>5. PICK i \in DOMAIN w : PairAt(w, i, <<"&", z>>)
  BY <1>4 DEF HasPair
<1>6. Parted(w, e, n)
  BY <1>2, <1>4
<1>7. /\ w \in Seq(Chars) /\ w[1] = "Email"
      /\ \A j \in 1..Len(e) : w[j + 1] = e[j]
      /\ n = <<>> => Len(w) = Len(e) + 1
      /\ n # <<>> => /\ Len(w) = Len(e) + 3 + Len(n)
                     /\ w[Len(e) + 2] = "newline" /\ w[Len(e) + 3] = "newline"
                     /\ \A j \in 1..Len(n) : w[Len(e) + 3 + j] = n[j]
  BY <1>6 DEF Parted, Text
<1>8. i \in 1..Len(w) /\ i < Len(w) /\ w[i] = "&" /\ w[i + 1] = z
  BY <1>5, <1>7 DEF PairAt
<1>9. Len(e) \in Nat /\ Len(n) \in Nat
  BY <1>1
<1>10. i # 1
  BY <1>7, <1>8
<1>11. CASE i + 1 <= Len(e) + 1
  <2>1. i - 1 \in 1..Len(e) /\ i \in 1..Len(e) /\ (i - 1) + 1 = i
    BY <1>8, <1>9, <1>10, <1>11
  <2>2. e[i - 1] = "&" /\ e[i] = z
    BY <1>7, <1>8, <2>1
  <2>3. PairAt(e, i - 1, <<"&", z>>) /\ i - 1 \in DOMAIN e
    BY <1>1, <2>1, <2>2 DEF PairAt
  <2> QED
    BY <1>3, <2>3 DEF HasPair
<1>12. CASE ~(i + 1 <= Len(e) + 1)
  <2>1. n # <<>>
    BY <1>7, <1>8, <1>9, <1>12
  <2>2. i # Len(e) + 1
    <3>1. ASSUME i = Len(e) + 1 PROVE FALSE
      <4>1. i + 1 = Len(e) + 2
        BY <1>9, <3>1
      <4> QED
        BY <1>7, <1>8, <2>1, <4>1
    <3> QED
      BY <3>1
  <2>3. i # Len(e) + 2 /\ i # Len(e) + 3
    BY <1>7, <1>8, <2>1
  <2> DEFINE j == i - (Len(e) + 3)
  <2>4. j \in 1..Len(n) /\ j + 1 \in 1..Len(n) /\ Len(e) + 3 + j = i /\ Len(e) + 3 + (j + 1) = i + 1
        /\ j < Len(n)
    <3>1. Len(w) = Len(e) + 3 + Len(n)
      BY <1>7, <2>1
    <3>2. i \in Nat /\ i >= 1 /\ i < Len(w) /\ i >= Len(e) + 1
      BY <1>8, <1>9, <1>12
    <3>3. i >= Len(e) + 4
      BY <1>9, <2>2, <2>3, <3>2
    <3> QED
      BY <1>9, <3>1, <3>2, <3>3
  <2> HIDE DEF j
  <2>5. n[j] = "&" /\ n[j + 1] = z
    BY <1>7, <1>8, <2>1, <2>4
  <2>6. PairAt(n, j, <<"&", z>>) /\ j \in DOMAIN n
    BY <1>1, <2>4, <2>5 DEF PairAt
  <2> QED
    BY <1>3, <2>6 DEF HasPair
<1> QED
  BY <1>11, <1>12

\* The texts of an account.
LEMMA RecordTexts ==
    ASSUME NEW a \in Record
    PROVE  /\ a.name \in Text /\ a.user \in Text /\ a.password \in Text
           /\ a.email \in Text /\ a.website \in Text /\ a.notes \in Text
BY DEF Record

\* Accounts with the same texts are the same.
LEMMA RecordEqual ==
    ASSUME NEW a \in Record, NEW b \in Record,
           a.name = b.name, a.user = b.user, a.password = b.password,
           a.email = b.email, a.website = b.website, a.notes = b.notes
    PROVE  a = b
BY DEF Record

\* r is the account a with other texts for the address and the notes.
Amends(r, a, e, n) ==
    /\ r \in Record /\ r.name = a.name /\ r.user = a.user /\ r.password = a.password
    /\ r.email = e /\ r.website = a.website /\ r.notes = n

\* Replacing the address and the notes.
LEMMA WithNotes ==
    ASSUME NEW a \in Record, NEW e \in Text, NEW n \in Text, NEW r,
           r = [a EXCEPT !.email = e, !.notes = n]
    PROVE  Amends(r, a, e, n)
BY DEF Record, Amends

\* Replacing the notes.
LEMMA WithOtherNotes ==
    ASSUME NEW a \in Record, NEW n \in Text, NEW r, r = [a EXCEPT !.notes = n]
    PROVE  Amends(r, a, a.email, n)
BY DEF Record, Amends

\* Replacing the address.
LEMMA WithOtherEmail ==
    ASSUME NEW a \in Record, NEW e \in Text, NEW r, r = [a EXCEPT !.email = e]
    PROVE  Amends(r, a, e, a.notes)
BY DEF Record, Amends

\* Where the notes have a blank line.
Blanks(w) == {i \in DOMAIN w : PairAt(w, i, <<"newline", "newline">>)}

\* SplitNotes as a choice of three cases.
LEMMA SplitNotesIs ==
    ASSUME NEW a, NEW w
    PROVE  SplitNotes(a, w) =
              IF w = <<>> \/ Head(w) # "Email" THEN [a EXCEPT !.notes = w]
              ELSE IF Blanks(w) = {} THEN [a EXCEPT !.email = Tail(w)]
              ELSE [a EXCEPT !.email = SubSeq(w, 2, Min(Blanks(w)) - 1),
                             !.notes = SubSeq(w, Min(Blanks(w)) + 2, Len(w))]
BY DEF SplitNotes, Blanks

\* The first blank line is the least position of one.
LEMMA FirstBlank ==
    ASSUME NEW w \in Text, NEW i \in Nat, i \in Blanks(w),
           \A j \in Blanks(w) : i <= j
    PROVE  Min(Blanks(w)) = i
<1>1. \A j \in Blanks(w) : j \in Nat
  BY DEF Blanks, Text
<1> DEFINE B == Blanks(w)
           M == CHOOSE x \in B : \A y \in B : x =< y
<1>2. M \in B /\ \A y \in B : M <= y
  OBVIOUS
<1>3. Min(Blanks(w)) = M
  BY DEF Min
<1> HIDE DEF B, M
<1> QED
  BY <1>1, <1>2, <1>3 DEF B

\* SplitNotes makes an account, and keeps its name.
LEMMA SplitNotesText ==
    ASSUME NEW a \in Record, NEW w \in Text
    PROVE  SplitNotes(a, w) \in Record /\ SplitNotes(a, w).name = a.name
<1> DEFINE r == SplitNotes(a, w)
           i == Min(Blanks(w))
<1>1. r = IF w = <<>> \/ Head(w) # "Email" THEN [a EXCEPT !.notes = w]
          ELSE IF Blanks(w) = {} THEN [a EXCEPT !.email = Tail(w)]
          ELSE [a EXCEPT !.email = SubSeq(w, 2, i - 1), !.notes = SubSeq(w, i + 2, Len(w))]
  BY SplitNotesIs
<1>2. CASE w = <<>> \/ Head(w) # "Email"
  <2>1. r = [a EXCEPT !.notes = w]
    BY <1>1, <1>2
  <2> HIDE DEF r
  <2>2. r \in Record /\ r.name = a.name
    BY <2>1, WithOtherNotes DEF Amends
  <2> QED
    BY <2>2 DEF r
<1>3. CASE w # <<>> /\ ~(Head(w) # "Email") /\ Blanks(w) = {}
  <2> DEFINE e == Tail(w)
  <2>1. r = [a EXCEPT !.email = e]
    BY <1>1, <1>3
  <2>2. e \in Text
    BY <1>3, HeadTailProperties DEF Text
  <2> HIDE DEF r, e
  <2>3. r \in Record /\ r.name = a.name
    BY <2>1, <2>2, WithOtherEmail DEF Amends
  <2> QED
    BY <2>3 DEF r
<1>4. CASE w # <<>> /\ ~(Head(w) # "Email") /\ Blanks(w) # {}
  <2> DEFINE e == SubSeq(w, 2, i - 1)
             n == SubSeq(w, i + 2, Len(w))
  <2>1. r = [a EXCEPT !.email = e, !.notes = n]
    BY <1>1, <1>4
  <2>2. i \in 1..Len(w) /\ Len(w) \in Nat
    <3> DEFINE B == Blanks(w)
    <3>1. B \subseteq 1..Len(w) /\ B # {}
      BY <1>4 DEF Blanks, Text
    <3> HIDE DEF B
    <3> DEFINE T == {k \in Nat : \A j \in B : k <= j}
    <3>2. \E x \in B : \A y \in B : x =< y
      <4>1. SUFFICES ASSUME \A x \in B : \E y \in B : ~(x =< y) PROVE FALSE
        OBVIOUS
      <4>2. 0 \in T
        BY <3>1
      <4>3. ASSUME NEW k \in T PROVE k + 1 \in T
        <5>1. ASSUME k \in B PROVE FALSE
          BY <3>1, <4>1, <5>1
        <5> QED
          BY <3>1, <5>1
      <4>4. T \in SUBSET Nat
        OBVIOUS
      <4> HIDE DEF T
      <4>5. T = Nat
        BY <4>2, <4>3, <4>4, Upwards
      <4>6. PICK j \in B : TRUE
        BY <3>1
      <4>7. j \in Nat /\ j + 1 \in T
        BY <3>1, <4>5
      <4>8. j + 1 <= j
        BY <4>6, <4>7 DEF T
      <4> QED
        BY <4>7, <4>8
    <3> HIDE DEF T
    <3>3. Min(B) \in B
      BY <3>2 DEF Min
    <3>4. Len(w) \in Nat
      BY DEF Text
    <3> QED
      BY <3>1, <3>3, <3>4 DEF B
  <2> HIDE DEF i
  <2>3. w \in Seq(Chars)
    BY DEF Text
  <2>4. \A k \in 1..Len(w) : w[k] \in Chars
    BY <2>3
  <2>5. e \in Text
    <3>1. \A k \in 2..i - 1 : w[k] \in Chars
      BY <2>2, <2>4
    <3>2. 2 \in Nat /\ i - 1 \in Nat
      BY <2>2
    <3>3. e \in Seq(Chars)
      BY <2>2, <2>3, <3>1, SubSeqProperties
    <3> QED
      BY <3>3 DEF Text
  <2>6. n \in Text
    <3>1. \A k \in i + 2..Len(w) : w[k] \in Chars
      BY <2>2, <2>4
    <3>2. n \in Seq(Chars)
      BY <2>2, <2>3, <3>1, SubSeqProperties
    <3> QED
      BY <3>2 DEF Text
  <2> HIDE DEF r, e, n
  <2>7. r \in Record /\ r.name = a.name
    <3>1. Amends(r, a, e, n)
      BY <2>1, <2>5, <2>6, WithNotes
    <3> QED
      BY <3>1 DEF Amends
  <2> QED
    BY <2>7 DEF r
<1> QED
  BY <1>2, <1>3, <1>4

\* The address and the notes come apart where they were joined.
LEMMA SplitsNotes ==
    ASSUME NEW a \in Record, NEW b \in Record, NotesAreNotes(b),
           a.name = b.name, a.user = b.user, a.password = b.password, a.website = b.website,
           a.email = <<>>, a.notes = <<>>, NEW w, w = WithEmail(b)
    PROVE  SplitNotes(a, w) = b
<1> DEFINE e == b.email
           n == b.notes
           r == SplitNotes(a, w)
<1>1. e \in Seq(Chars) /\ n \in Seq(Chars) /\ e \in Text /\ n \in Text
  BY RecordTexts DEF Text
<1>2. /\ e = <<>> => w = n
      /\ e # <<>> => Parted(w, e, n)
  BY WithEmailParts
<1>3. r = IF w = <<>> \/ Head(w) # "Email" THEN [a EXCEPT !.notes = w]
          ELSE IF Blanks(w) = {} THEN [a EXCEPT !.email = Tail(w)]
          ELSE [a EXCEPT !.email = SubSeq(w, 2, Min(Blanks(w)) - 1),
                         !.notes = SubSeq(w, Min(Blanks(w)) + 2, Len(w))]
  BY SplitNotesIs
<1>4. /\ e = <<>> => n = <<>> \/ Head(n) # "Email"
      /\ e # <<>> => ~Has(e, "newline")
  BY DEF NotesAreNotes
<1>5. CASE e = <<>>
  <2>1. r = [a EXCEPT !.notes = n]
    BY <1>2, <1>3, <1>4, <1>5
  <2> HIDE DEF r
  <2>2. Amends(r, a, a.email, n)
    <3> HIDE DEF n
    <3> QED
      BY <1>1, <2>1, WithOtherNotes
  <2>3. r = b
    BY <1>5, <2>2, RecordEqual DEF Amends
  <2> QED
    BY <2>3 DEF r
<1>6. CASE e # <<>>
  <2>1. Parted(w, e, n) /\ ~Has(e, "newline")
    BY <1>2, <1>4, <1>6
  <2> HIDE DEF e, n
  <2>2. /\ w \in Seq(Chars) /\ w[1] = "Email" /\ w \in Text
        /\ \A j \in 1..Len(e) : w[j + 1] = e[j]
        /\ n = <<>> => Len(w) = Len(e) + 1
        /\ n # <<>> => /\ Len(w) = Len(e) + 3 + Len(n)
                       /\ w[Len(e) + 2] = "newline" /\ w[Len(e) + 3] = "newline"
                       /\ \A j \in 1..Len(n) : w[Len(e) + 3 + j] = n[j]
    BY <2>1 DEF Parted, Text
  <2>3. Len(e) \in Nat /\ Len(n) \in Nat /\ Len(w) \in Nat
    BY <1>1, <2>2
  <2>4. Len(w) >= Len(e) + 1
    BY <2>2, <2>3
  <2>5. w # <<>> /\ Head(w) = "Email"
    <3>1. w # <<>>
      BY <2>2, <2>3, <2>4, EmptySeq
    <3>2. Head(w) = w[1]
      BY <2>2, <3>1, HeadTailProperties
    <3> QED
      BY <2>2, <3>1, <3>2
  <2>6. \A i \in Blanks(w) : i \in 1..Len(w) /\ i >= Len(e) + 2 /\ i < Len(w)
    <3> SUFFICES ASSUME NEW i \in Blanks(w)
                 PROVE  i \in 1..Len(w) /\ i >= Len(e) + 2 /\ i < Len(w)
      OBVIOUS
    <3>1. i \in DOMAIN w /\ PairAt(w, i, <<"newline", "newline">>)
      BY DEF Blanks
    <3>2. i \in 1..Len(w) /\ i < Len(w) /\ w[i] = "newline"
      BY <2>2, <3>1 DEF PairAt
    <3>3. i # 1
      BY <2>2, <3>2
    <3>4. ASSUME i <= Len(e) + 1 PROVE FALSE
      <4>1. i - 1 \in 1..Len(e) /\ (i - 1) + 1 = i
        BY <2>3, <3>2, <3>3, <3>4
      <4>2. e[i - 1] = "newline"
        BY <2>2, <3>2, <4>1
      <4> QED
        BY <2>1, <4>1, <4>2 DEF Has, Contains
    <3> QED
      BY <2>3, <3>2, <3>4
  <2>7. CASE n = <<>>
    <3>1. Blanks(w) = {}
      <4>1. Len(w) = Len(e) + 1
        BY <2>2, <2>7
      <4>2. \A i \in Blanks(w) : FALSE
        BY <2>3, <2>6, <4>1
      <4> QED
        BY <4>2
    <3>2. Tail(w) = e
      <4> DEFINE t == Tail(w)
      <4>1. t \in Seq(Chars) /\ Len(t) = Len(w) - 1 /\ \A i \in 1..Len(t) : t[i] = w[i + 1]
        BY <2>2, <2>5, HeadTailProperties
      <4> HIDE DEF t
      <4>2. Len(t) = Len(e) /\ \A i \in 1..Len(t) : t[i] = e[i]
        BY <2>2, <2>3, <2>7, <4>1
      <4>3. t = e
        BY <1>1, <4>1, <4>2, SeqEqual
      <4> QED
        BY <4>3 DEF t
    <3>3. r = [a EXCEPT !.email = e]
      BY <1>3, <2>5, <3>1, <3>2
    <3> HIDE DEF r
    <3>4. Amends(r, a, e, a.notes)
      BY <1>1, <3>3, WithOtherEmail
    <3>5. r = b
      BY <2>7, <3>4, RecordEqual DEF e, n, Amends
    <3> QED
      BY <3>5 DEF r
  <2>8. CASE n # <<>>
    <3> DEFINE i == Len(e) + 2
    <3>1. /\ Len(w) = Len(e) + 3 + Len(n)
          /\ w[Len(e) + 2] = "newline" /\ w[Len(e) + 3] = "newline"
          /\ \A j \in 1..Len(n) : w[Len(e) + 3 + j] = n[j]
      BY <2>2, <2>8
    <3>2. i \in Nat /\ i \in Blanks(w)
      <4>1. i \in 1..Len(w) /\ i < Len(w) /\ i + 1 = Len(e) + 3
        BY <2>3, <3>1
      <4>2. w[i] = "newline" /\ w[i + 1] = "newline"
        BY <3>1, <4>1
      <4> HIDE DEF i
      <4>3. i \in DOMAIN w /\ PairAt(w, i, <<"newline", "newline">>)
        BY <2>2, <4>1, <4>2 DEF PairAt
      <4> QED
        BY <4>1, <4>3 DEF Blanks
    <3>3. \A j \in Blanks(w) : i <= j
      BY <2>3, <2>6
    <3>4. Min(Blanks(w)) = i
      <4> HIDE DEF i
      <4> QED
        BY <2>2, <3>2, <3>3, FirstBlank
    <3>5. SubSeq(w, 2, i - 1) = e
      <4> DEFINE t == SubSeq(w, 2, i - 1)
      <4>0. i - 1 = Len(e) + 1
        BY <2>3
      <4>1. \A k \in 2..i - 1 : w[k] \in Chars
        <5>1. \A k \in 1..Len(w) : w[k] \in Chars
          BY <2>2
        <5> QED
          BY <2>3, <2>4, <5>1
      <4>2. t \in Seq(Chars) /\ Len(t) = Len(e) /\ \A k \in 1..Len(t) : t[k] = w[k + 1]
        <5>1. i - 1 \in Nat /\ 2 \in Nat
          BY <2>3
        <5>2. /\ t \in Seq(Chars)
              /\ Len(t) = IF 2 <= i - 1 THEN i - 1 - 2 + 1 ELSE 0
              /\ \A k \in 1..(i - 1) - 2 + 1 : t[k] = w[2 + k - 1]
          BY <2>2, <4>1, <5>1, SubSeqProperties
        <5>3. Len(t) = Len(e) /\ (i - 1) - 2 + 1 = Len(e)
          BY <2>3, <5>2
        <5>4. \A k \in 1..Len(e) : 2 + k - 1 = k + 1
          BY <2>3
        <5> HIDE DEF t, i
        <5> QED
          BY <5>2, <5>3, <5>4
      <4> HIDE DEF t
      <4>3. \A k \in 1..Len(t) : t[k] = e[k]
        BY <2>2, <4>2
      <4>4. t = e
        BY <1>1, <4>2, <4>3, SeqEqual
      <4> QED
        BY <4>4 DEF t
    <3>6. SubSeq(w, i + 2, Len(w)) = n
      <4> DEFINE t == SubSeq(w, i + 2, Len(w))
      <4>0. i + 2 \in Nat /\ i + 2 = Len(e) + 4
        BY <2>3
      <4>1. \A k \in i + 2..Len(w) : w[k] \in Chars
        <5>1. \A k \in 1..Len(w) : w[k] \in Chars
          BY <2>2
        <5> QED
          BY <2>3, <5>1
      <4>2. t \in Seq(Chars) /\ Len(t) = Len(n) /\ \A k \in 1..Len(t) : t[k] = w[Len(e) + 3 + k]
        <5> DEFINE j == i + 2
        <5>1. j \in Nat /\ j = Len(e) + 4
          BY <4>0
        <5>2. t = SubSeq(w, j, Len(w)) /\ \A k \in j..Len(w) : w[k] \in Chars
          BY <4>1
        <5> HIDE DEF t, i, j
        <5>3. /\ t \in Seq(Chars)
              /\ Len(t) = IF j <= Len(w) THEN Len(w) - j + 1 ELSE 0
              /\ \A k \in 1..Len(w) - j + 1 : t[k] = w[j + k - 1]
          BY <2>2, <2>3, <5>1, <5>2, SubSeqProperties
        <5>4. Len(t) = Len(n) /\ Len(w) - j + 1 = Len(n)
          BY <2>3, <3>1, <5>1, <5>3
        <5>5. \A k \in 1..Len(n) : j + k - 1 = Len(e) + 3 + k
          BY <2>3, <5>1
        <5> QED
          BY <5>3, <5>4, <5>5
      <4> HIDE DEF t
      <4>3. \A k \in 1..Len(t) : t[k] = n[k]
        BY <3>1, <4>2
      <4>4. t = n
        BY <1>1, <4>2, <4>3, SeqEqual
      <4> QED
        BY <4>4 DEF t
    <3>7. r = [a EXCEPT !.email = e, !.notes = n]
      <4>1. Blanks(w) # {}
        BY <3>2
      <4>2. r = [a EXCEPT !.email = SubSeq(w, 2, Min(Blanks(w)) - 1),
                          !.notes = SubSeq(w, Min(Blanks(w)) + 2, Len(w))]
        BY <1>3, <2>5, <4>1
      <4> HIDE DEF r, i
      <4> QED
        BY <3>4, <3>5, <3>6, <4>2
    <3> HIDE DEF r
    <3>8. Amends(r, a, e, n)
      <4>1. e \in Text /\ n \in Text
        BY <1>1
      <4> QED
        BY <3>7, <4>1, WithNotes
    <3>9. r = b
      BY <3>8, RecordEqual DEF e, n, Amends
    <3> QED
      BY <3>9 DEF r
  <2> QED
    BY <2>7, <2>8
<1> QED
  BY <1>5, <1>6

-----------------------------------------------------------------------------
(* An account in XML *)

\* The keys of an entry, and what is written under each.
Kept == {"name", "user", "password", "website", "notes"}
Values(a) == [a EXCEPT !.notes = WithEmail(a)]
Present(a) == {"name", "user", "password"} \cup {f \in {"website", "notes"} : Values(a)[f] # <<>>}

\* What is written under the keys are texts, and which.
LEMMA ValuesTexts ==
    ASSUME NEW a \in Record, NEW v, v = Values(a)
    PROVE  /\ v \in Record /\ \A f \in Kept : v[f] \in Text
           /\ Amends(v, a, a.email, WithEmail(a))
           /\ v["name"] = a.name /\ v["user"] = a.user /\ v["password"] = a.password
           /\ v["website"] = a.website /\ v["notes"] = WithEmail(a)
<1>1. Amends(v, a, a.email, WithEmail(a))
  <2>1. v = [a EXCEPT !.notes = WithEmail(a)]
    BY DEF Values
  <2>2. WithEmail(a) \in Text
    BY WithEmailParts
  <2> QED
    BY <2>1, <2>2, WithOtherNotes
<1>2. v \in Record
  BY <1>1 DEF Amends
<1>3. \A f \in Kept : v[f] \in Text
  BY <1>2 DEF Record, Kept
<1>4. /\ v["name"] = a.name /\ v["user"] = a.user /\ v["password"] = a.password
      /\ v["website"] = a.website /\ v["notes"] = WithEmail(a)
  BY <1>1 DEF Amends
<1> QED
  BY <1>1, <1>2, <1>3, <1>4

\* What a reader that finds R(f) under the key f makes of the account.
Gathered(b, R) == /\ b \in Record /\ b.name = R["name"] /\ b.user = R["user"]
                  /\ b.password = R["password"] /\ b.email = <<>>
                  /\ b.website = R["website"] /\ b.notes = R["notes"]

\* An entry is read as what is under its keys, with the notes split.
LEMMA XmlGathered ==
    ASSUME NEW a \in Record
    PROVE  \E b \in Record, R \in [Kept -> Text] :
              /\ Gathered(b, R)
              /\ \A f \in Kept : R[f] = IF f \in Present(a) THEN UnescapeXml(EscapeXml(Values(a)[f]))
                                        ELSE <<>>
              /\ FromXmlEntry(XmlEntry(a)) = SplitNotes([b EXCEPT !.notes = <<>>], b.notes)
<1> DEFINE v == Values(a)
           P == Present(a)
           entry == [f \in P |-> EscapeXml(v[f])]
           V == [f \in DOMAIN entry |-> UnescapeXml(entry[f])]
           U(f) == UnescapeXml(EscapeXml(v[f]))
           R == [f \in Kept |-> IF f \in P THEN U(f) ELSE <<>>]
           b == [f \in DOMAIN Empty |-> IF f \in DOMAIN V THEN V[f] ELSE <<>>]
<1>1. XmlEntry(a) = entry
  BY DEF XmlEntry, Values, Present
<1>2. FromXmlEntry(entry) = SplitNotes([b EXCEPT !.notes = <<>>], b.notes)
  BY DEF FromXmlEntry
<1>3. \A f \in Kept : v[f] \in Text
  BY ValuesTexts
<1>4. P \subseteq Kept
  BY DEF Present, Kept
<1> HIDE DEF v, P
<1>5. ASSUME NEW f \in Kept PROVE U(f) \in Text
  <2>1. v[f] \in Text
    BY <1>3
  <2>2. EscapeXml(v[f]) \in Text
    BY <2>1, EscapeXmlIs
  <2> QED
    BY <2>2, UnescapeXmlText
<1>6. DOMAIN V = P /\ \A f \in P : V[f] = U(f)
  OBVIOUS
<1> HIDE DEF V, U
<1>7. R \in [Kept -> Text] /\ \A f \in Kept : R[f] = IF f \in P THEN U(f) ELSE <<>>
  <2>1. <<>> \in Text
    BY DEF Text
  <2> QED
    BY <1>5, <2>1
<1>8. b = [f \in DOMAIN Empty |-> IF f \in Kept THEN R[f] ELSE <<>>]
  <2>1. \A f : (IF f \in DOMAIN V THEN V[f] ELSE <<>>) = IF f \in Kept THEN R[f] ELSE <<>>
    BY <1>4, <1>6, <1>7
  <2> QED
    BY <2>1
<1> HIDE DEF b, R
<1>9. Gathered(b, R)
  <2>1. b = [name |-> R["name"], user |-> R["user"], password |-> R["password"],
             email |-> <<>>, website |-> R["website"], notes |-> R["notes"]]
    BY <1>8 DEF Empty, Kept
  <2>2. /\ R["name"] \in Text /\ R["user"] \in Text /\ R["password"] \in Text
        /\ R["website"] \in Text /\ R["notes"] \in Text /\ <<>> \in Text
    BY <1>7 DEF Kept, Text
  <2> QED
    BY <2>1, <2>2 DEF Gathered, Record
<1>10. b \in Record
  BY <1>9 DEF Gathered
<1> QED
  BY <1>1, <1>2, <1>7, <1>9, <1>10 DEF U, v, P

\* An account that XML carries comes back from its entry.
LEMMA XmlReadsBack ==
    ASSUME NEW a \in Record, NEW b, b = FromXmlEntry(XmlEntry(a))
    PROVE  b \in Record /\ (Carries("xml", a) => b = a)
<1>1. PICK r \in Record, R \in [Kept -> Text] :
              /\ Gathered(r, R)
              /\ \A f \in Kept : R[f] = IF f \in Present(a) THEN UnescapeXml(EscapeXml(Values(a)[f]))
                                        ELSE <<>>
              /\ b = SplitNotes([r EXCEPT !.notes = <<>>], r.notes)
  BY XmlGathered
<1> DEFINE v == Values(a)
           s == [r EXCEPT !.notes = <<>>]
<1>2. Amends(s, r, r.email, <<>>)
  <2>1. <<>> \in Text
    BY DEF Text
  <2> HIDE DEF s
  <2>2. s = [r EXCEPT !.notes = <<>>]
    BY DEF s
  <2> QED
    BY <2>1, <2>2, WithOtherNotes
<1>3. b = SplitNotes(s, r.notes)
  BY <1>1
<1> HIDE DEF s
<1>4. b \in Record
  <2>1. s \in Record /\ r.notes \in Text
    BY <1>2, RecordTexts DEF Amends
  <2> QED
    BY <1>3, <2>1, SplitNotesText
<1>5. ASSUME Carries("xml", a) PROVE b = a
  <2>1. NotesAreNotes(a) /\ \A f \in DOMAIN a : ~HasPair(a[f], <<"&", "quot;">>)
    BY <1>5 DEF Carries
  <2>2. /\ v \in Record /\ \A f \in Kept : v[f] \in Text
        /\ v["name"] = a.name /\ v["user"] = a.user /\ v["password"] = a.password
        /\ v["website"] = a.website /\ v["notes"] = WithEmail(a)
    BY ValuesTexts
  <2>3. ~HasPair(WithEmail(a), <<"&", "quot;">>)
    <3> DEFINE z == "quot;"
    <3>1. z # "newline" /\ ~HasPair(a.email, <<"&", z>>) /\ ~HasPair(a.notes, <<"&", z>>)
      BY <2>1 DEF Record
    <3> HIDE DEF z
    <3>2. ~HasPair(WithEmail(a), <<"&", z>>)
      BY <3>1, NoPairWithEmail
    <3> QED
      BY <3>2 DEF z
  <2>4. \A f \in Kept : ~HasPair(v[f], <<"&", "quot;">>)
    <3>1. /\ ~HasPair(a.name, <<"&", "quot;">>) /\ ~HasPair(a.user, <<"&", "quot;">>)
          /\ ~HasPair(a.password, <<"&", "quot;">>) /\ ~HasPair(a.website, <<"&", "quot;">>)
      BY <2>1 DEF Record
    <3> QED
      BY <2>2, <2>3, <3>1 DEF Kept
  <2>5. ASSUME NEW f \in Kept PROVE R[f] = v[f]
    <3>1. CASE f \in Present(a)
      <4>1. v[f] \in Text /\ ~HasPair(v[f], <<"&", "quot;">>)
        BY <2>2, <2>4
      <4>2. UnescapeXml(EscapeXml(v[f])) = v[f]
        BY <4>1, UnescapesXml
      <4> QED
        BY <1>1, <3>1, <4>2
    <3>2. CASE f \notin Present(a)
      <4>1. v[f] = <<>>
        BY <3>2 DEF Present, Kept
      <4> QED
        BY <1>1, <3>2, <4>1
    <3> QED
      BY <3>1, <3>2
  <2>6. /\ R["name"] = a.name /\ R["user"] = a.user /\ R["password"] = a.password
        /\ R["website"] = a.website /\ R["notes"] = WithEmail(a)
    BY <2>2, <2>5 DEF Kept
  <2>7. /\ s \in Record /\ s.name = a.name /\ s.user = a.user /\ s.password = a.password
        /\ s.website = a.website /\ s.email = <<>> /\ s.notes = <<>> /\ r.notes = WithEmail(a)
    BY <1>1, <1>2, <2>6 DEF Amends, Gathered
  <2>8. SplitNotes(s, r.notes) = a
    BY <2>1, <2>7, SplitsNotes
  <2> QED
    BY <1>3, <2>8
<1> QED
  BY <1>4, <1>5

-----------------------------------------------------------------------------
(* The strings of 1Password *)

\* What EscapeJson writes for a character.
JsonEscape == [quote |-> <<"backslash", "quote">>,
               backslash |-> <<"backslash", "backslash">>,
               newline |-> <<"backslash", "n">>]
\* What is read after a backslash, and what has to be written there for c.
Meant(c) == IF c = "n" THEN "newline" ELSE c
Coded(c) == IF c = "newline" THEN "n" ELSE c

\* What the escape of JSON makes of each character, and what that means.
LEMMA JsonEscapes ==
    /\ IsEscape(JsonEscape)
    /\ \A c : c \in {"quote", "backslash", "newline"} =>
          Esc(c, JsonEscape) = <<"backslash", Coded(c)>> /\ Meant(Coded(c)) = c
    /\ \A c : c \notin {"quote", "backslash", "newline"} => Esc(c, JsonEscape) = <<c>>
<1>1. DOMAIN JsonEscape = {"quote", "backslash", "newline"}
  BY DEF JsonEscape
<1>2. /\ JsonEscape["quote"] = <<"backslash", "quote">>
      /\ JsonEscape["backslash"] = <<"backslash", "backslash">>
      /\ JsonEscape["newline"] = <<"backslash", "n">>
  BY DEF JsonEscape
<1>3. "backslash" \in Chars /\ "quote" \in Chars /\ "n" \in Chars
  BY CharsAssumption
<1>4. /\ <<"backslash", "quote">> \in Text /\ <<"backslash", "backslash">> \in Text
      /\ <<"backslash", "n">> \in Text
  BY <1>3 DEF Text
<1>5. IsEscape(JsonEscape)
  BY <1>1, <1>2, <1>4 DEF IsEscape
<1>6. ASSUME NEW c \in {"quote", "backslash", "newline"}
      PROVE  Esc(c, JsonEscape) = <<"backslash", Coded(c)>> /\ Meant(Coded(c)) = c
  <2>1. Esc(c, JsonEscape) = JsonEscape[c]
    BY <1>1 DEF Esc
  <2>2. JsonEscape[c] = <<"backslash", Coded(c)>>
    BY <1>2 DEF Coded
  <2>3. Meant(Coded(c)) = c
    BY DEF Meant, Coded
  <2> QED
    BY <2>1, <2>2, <2>3
<1>7. \A c : c \notin {"quote", "backslash", "newline"} => Esc(c, JsonEscape) = <<c>>
  BY <1>1 DEF Esc
<1> QED
  BY <1>5, <1>6, <1>7

\* EscapeJson is that escape.
LEMMA EscapeJsonIs ==
    ASSUME NEW t
    PROVE  EscapeJson(t) = Escaped(t, JsonEscape)
BY DEF EscapeJson, JsonEscape

\* The state of ParseJson's loop, its step and its run.
JsonState == [out : Text, escape : BOOLEAN, closed : BOOLEAN]
JsonStep(s, text, i) ==
    IF s.closed THEN s
    ELSE IF s.escape
    THEN [s EXCEPT !.escape = FALSE,
                   !.out = Append(@, IF text[i] \in DOMAIN [n |-> "newline"]
                                     THEN [n |-> "newline"][text[i]] ELSE text[i])]
    ELSE IF text[i] = "backslash" THEN [s EXCEPT !.escape = TRUE]
    ELSE IF text[i] = "quote" THEN [s EXCEPT !.closed = TRUE]
    ELSE [s EXCEPT !.out = Append(@, text[i])]

JsonLoop(g, text) ==
    g = [i \in 0..Len(text) |->
            IF i = 0 THEN [out |-> <<>>, escape |-> FALSE, closed |-> FALSE]
            ELSE JsonStep(g[i - 1], text, i)]

\* What a step makes of s with the character c.
JsonTakes(s, t, c) ==
    /\ s.closed => t.out = s.out /\ t.closed = TRUE
    /\ ~s.closed /\ s.escape =>
          t.out = Append(s.out, Meant(c)) /\ t.escape = FALSE /\ t.closed = FALSE
    /\ ~s.closed /\ ~s.escape /\ c = "backslash" =>
          t.out = s.out /\ t.escape = TRUE /\ t.closed = FALSE
    /\ ~s.closed /\ ~s.escape /\ c = "quote" => t.out = s.out /\ t.closed = TRUE
    /\ ~s.closed /\ ~s.escape /\ c \notin {"backslash", "quote"} =>
          t.out = Append(s.out, c) /\ t.escape = FALSE /\ t.closed = FALSE

\* The states of the loop, and what ParseJson makes of the last one.
Parsing(g, text) ==
    /\ \A i \in 0..Len(text) : g[i].out \in Text
    /\ g[0].out = <<>> /\ g[0].escape = FALSE /\ g[0].closed = FALSE
    /\ \A i \in 1..Len(text) : JsonTakes(g[i - 1], g[i], text[i])
    /\ ParseJson(text) = g[Len(text)].out

\* A step is what is said of it.
LEMMA JsonSteps ==
    ASSUME NEW text \in Text, NEW i \in 1..Len(text),
           NEW s \in JsonState, NEW t, t = JsonStep(s, text, i)
    PROVE  t \in JsonState /\ JsonTakes(s, t, text[i])
<1> DEFINE c == text[i]
           d == IF c \in DOMAIN [n |-> "newline"] THEN [n |-> "newline"][c] ELSE c
<1>1. s.out \in Seq(Chars) /\ s.escape \in BOOLEAN /\ s.closed \in BOOLEAN /\ c \in Chars
  BY DEF JsonState, Text
<1>2. d = Meant(c)
  BY DEF Meant
<1>a. Meant(c) \in Chars
  BY <1>1, CharsAssumption DEF Meant
<1>b. t = IF s.closed THEN s
          ELSE IF s.escape THEN [s EXCEPT !.escape = FALSE, !.out = Append(s.out, d)]
          ELSE IF c = "backslash" THEN [s EXCEPT !.escape = TRUE]
          ELSE IF c = "quote" THEN [s EXCEPT !.closed = TRUE]
          ELSE [s EXCEPT !.out = Append(s.out, c)]
  BY DEF JsonStep
<1> HIDE DEF c, d
<1>3. Append(s.out, d) \in Text /\ Append(s.out, c) \in Text
  BY <1>1, <1>2, <1>a DEF Text
<1>4. CASE s.closed
  BY <1>1, <1>b, <1>4 DEF JsonTakes, c
<1>5. CASE ~s.closed /\ s.escape
  <2>1. t = [s EXCEPT !.escape = FALSE, !.out = Append(s.out, d)]
    BY <1>b, <1>5
  <2>2. t \in JsonState /\ t.out = Append(s.out, d) /\ t.escape = FALSE /\ t.closed = s.closed
    BY <1>3, <2>1 DEF JsonState
  <2> QED
    BY <1>1, <1>2, <1>5, <2>2 DEF JsonTakes, c
<1>6. CASE ~s.closed /\ ~s.escape /\ c = "backslash"
  <2>1. t = [s EXCEPT !.escape = TRUE]
    BY <1>b, <1>6
  <2>2. t \in JsonState /\ t.out = s.out /\ t.escape = TRUE /\ t.closed = s.closed
    BY <2>1 DEF JsonState
  <2> QED
    BY <1>1, <1>6, <2>2 DEF JsonTakes, c
<1>7. CASE ~s.closed /\ ~s.escape /\ c = "quote"
  <2>1. t = [s EXCEPT !.closed = TRUE]
    BY <1>b, <1>7
  <2>2. t \in JsonState /\ t.out = s.out /\ t.closed = TRUE
    BY <2>1 DEF JsonState
  <2> QED
    BY <1>7, <2>2 DEF JsonTakes, c
<1>8. CASE ~s.closed /\ ~s.escape /\ c \notin {"backslash", "quote"}
  <2>1. t = [s EXCEPT !.out = Append(s.out, c)]
    BY <1>b, <1>8
  <2>2. t \in JsonState /\ t.out = Append(s.out, c) /\ t.escape = s.escape /\ t.closed = s.closed
    BY <1>3, <2>1 DEF JsonState
  <2> QED
    BY <1>1, <1>8, <2>2 DEF JsonTakes, c
<1> QED
  BY <1>4, <1>5, <1>6, <1>7, <1>8

\* The loop has a run.
LEMMA JsonLoops == ASSUME NEW text \in Text PROVE \E g : JsonLoop(g, text)
<1> DEFINE N == Len(text)
           z == [out |-> <<>>, escape |-> FALSE, closed |-> FALSE]
           Q == JsonState
           G == [i \in 1..N |-> [s \in Q |-> JsonStep(s, text, i)]]
<1>1. z \in Q /\ N \in Nat
  BY DEF JsonState, Text
<1> HIDE DEF z, Q
<1>2. G \in [1..N -> [Q -> Q]]
  <2>1. \A i \in 1..N, s \in Q : JsonStep(s, text, i) \in Q
    BY JsonSteps DEF Q
  <2> QED
    BY <2>1
<1>3. \A i \in 1..N, s \in Q : G[i][s] = JsonStep(s, text, i)
  OBVIOUS
<1> HIDE DEF G, N
<1>4. PICK f : RunOf(f, Q, z, N, G)
  BY <1>1, <1>2, Runs
<1>5. f \in [0..N -> Q] /\ f[0] = z /\ \A i \in 1..N : f[i] = G[i][f[i - 1]]
  BY <1>4 DEF RunOf
<1>6. ASSUME NEW i \in 0..N PROVE f[i] = IF i = 0 THEN z ELSE JsonStep(f[i - 1], text, i)
  <2>1. CASE i = 0
    BY <1>5, <2>1
  <2>2. CASE i # 0
    <3>1. i \in 1..N /\ f[i - 1] \in Q
      BY <1>1, <1>5, <2>2
    <3> QED
      BY <1>3, <1>5, <2>2, <3>1
  <2> QED
    BY <2>1, <2>2
<1>7. f = [i \in 0..N |-> IF i = 0 THEN z ELSE JsonStep(f[i - 1], text, i)]
  BY <1>5, <1>6
<1> QED
  BY <1>7 DEF JsonLoop, N, z

\* ParseJson is where its loop ends.
LEMMA ParseJsonIs ==
    ASSUME NEW text
    PROVE  ParseJson(text) = (CHOOSE g : JsonLoop(g, text))[Len(text)].out
BY DEF ParseJson, JsonLoop, JsonStep

\* There is a run of states of which all this can be said.
LEMMA ParseJsonRuns == ASSUME NEW text \in Text PROVE \E g : Parsing(g, text)
<1> DEFINE g == CHOOSE h : JsonLoop(h, text)
           N == Len(text)
           z == [out |-> <<>>, escape |-> FALSE, closed |-> FALSE]
<1>1. JsonLoop(g, text)
  BY JsonLoops
<1>2. ParseJson(text) = g[N].out
  BY ParseJsonIs
<1>3. N \in Nat
  BY DEF Text
<1> HIDE DEF g
<1>4. \A i \in 0..N : g[i] = IF i = 0 THEN z ELSE JsonStep(g[i - 1], text, i)
  <2> DEFINE V(i) == IF i = 0 THEN z ELSE JsonStep(g[i - 1], text, i)
  <2>1. g = [i \in 0..N |-> V(i)]
    BY <1>1 DEF JsonLoop
  <2> HIDE DEF V
  <2>2. \A i \in 0..N : g[i] = V(i)
    BY <2>1
  <2> QED
    BY <2>2 DEF V
<1>5. \A i \in 1..N : g[i] = JsonStep(g[i - 1], text, i)
  <2> HIDE DEF z
  <2> QED
    BY <1>3, <1>4
<1>6. g[0] = z
  BY <1>3, <1>4
<1> DEFINE T == {i \in 0..N : g[i] \in JsonState}
<1>7. 0 \in T
  <2>1. z \in JsonState
    BY DEF JsonState, Text
  <2> HIDE DEF z
  <2> QED
    BY <1>3, <1>6, <2>1
<1>8. ASSUME NEW i \in 1..N, i - 1 \in T PROVE i \in T
  <2>1. g[i - 1] \in JsonState
    BY <1>8
  <2>2. g[i] \in JsonState
    BY <1>5, <2>1, JsonSteps
  <2> QED
    BY <2>2
<1> HIDE DEF T
<1>9. \A i \in 0..N : i \in T
  BY <1>3, <1>7, <1>8, Along
<1>10. \A i \in 0..N : g[i] \in JsonState
  BY <1>9 DEF T
<1>11. ASSUME NEW i \in 1..N PROVE JsonTakes(g[i - 1], g[i], text[i])
  <2>1. g[i - 1] \in JsonState
    BY <1>3, <1>10
  <2> QED
    BY <1>5, <2>1, JsonSteps
<1>12. \A i \in 0..N : g[i].out \in Text
  BY <1>10 DEF JsonState
<1>13. g[0].out = <<>> /\ g[0].escape = FALSE /\ g[0].closed = FALSE
  BY <1>6
<1> QED
  BY <1>2, <1>11, <1>12, <1>13 DEF Parsing

\* ParseJson makes a text of every text.
LEMMA ParseJsonText == ASSUME NEW text \in Text PROVE ParseJson(text) \in Text
<1>1. PICK g : Parsing(g, text)
  BY ParseJsonRuns
<1>2. Len(text) \in 0..Len(text)
  BY DEF Text
<1> QED
  BY <1>1, <1>2 DEF Parsing

\* After i characters s is read, and the string goes on.
JsonOut(g, i, s) == g[i].out = s /\ g[i].escape = FALSE /\ g[i].closed = FALSE

\* A character that is not escaped is read as it is.
LEMMA ParsesPlain ==
    ASSUME NEW text \in Text, NEW g, Parsing(g, text), NEW i \in Nat, i + 1 <= Len(text),
           NEW s, JsonOut(g, i, s), text[i + 1] \notin {"backslash", "quote"}
    PROVE  JsonOut(g, i + 1, Append(s, text[i + 1]))
<1>1. Len(text) \in Nat
  BY DEF Text
<1>2. i + 1 \in 1..Len(text) /\ (i + 1) - 1 = i
  BY <1>1
<1>3. JsonTakes(g[i], g[i + 1], text[i + 1])
  <2>1. JsonTakes(g[(i + 1) - 1], g[i + 1], text[i + 1])
    BY <1>2 DEF Parsing
  <2> QED
    BY <1>2, <2>1
<1> QED
  BY <1>3 DEF JsonTakes, JsonOut

\* A backslash and the character after it are read as what they mean.
LEMMA ParsesEscape ==
    ASSUME NEW text \in Text, NEW g, Parsing(g, text), NEW i \in Nat, i + 2 <= Len(text),
           NEW s, JsonOut(g, i, s), text[i + 1] = "backslash"
    PROVE  JsonOut(g, i + 2, Append(s, Meant(text[i + 2])))
<1>1. Len(text) \in Nat
  BY DEF Text
<1>2. i + 1 \in 1..Len(text) /\ (i + 1) - 1 = i /\ i + 2 \in 1..Len(text) /\ (i + 2) - 1 = i + 1
  BY <1>1
<1>3. JsonTakes(g[i], g[i + 1], text[i + 1])
  <2>1. JsonTakes(g[(i + 1) - 1], g[i + 1], text[i + 1])
    BY <1>2 DEF Parsing
  <2> QED
    BY <1>2, <2>1
<1>4. JsonTakes(g[i + 1], g[i + 2], text[i + 2])
  <2>1. JsonTakes(g[(i + 2) - 1], g[i + 2], text[i + 2])
    BY <1>2 DEF Parsing
  <2> QED
    BY <1>2, <2>1
<1>5. g[i + 1].out = s /\ g[i + 1].escape = TRUE /\ g[i + 1].closed = FALSE
  BY <1>3 DEF JsonTakes, JsonOut
<1> QED
  BY <1>4, <1>5 DEF JsonTakes, JsonOut

\* A string is a text, with its closing quotation mark too.
LEMMA EscapeJsonText ==
    ASSUME NEW t \in Text
    PROVE  EscapeJson(t) \in Text /\ Append(EscapeJson(t), "quote") \in Text
<1>1. EscapeJson(t) \in Text
  BY JsonEscapes, EscapeJsonIs, EscapedText
<1>2. "quote" \in Chars
  BY CharsAssumption
<1> QED
  BY <1>1, <1>2 DEF Text

\* A string is read as it was written.
LEMMA ParsesBack ==
    ASSUME NEW t \in Text
    PROVE  ParseJson(Append(EscapeJson(t), "quote")) = t
<1> DEFINE e == JsonEscape
           w == Escaped(t, e)
           u == Append(w, "quote")
           N == Len(t)
<1>1. /\ IsEscape(e)
      /\ \A d : d \in {"quote", "backslash", "newline"} =>
             Esc(d, e) = <<"backslash", Coded(d)>> /\ Meant(Coded(d)) = d
      /\ \A d : d \notin {"quote", "backslash", "newline"} => Esc(d, e) = <<d>>
  BY JsonEscapes
<1> HIDE DEF e
<1>2. w \in Text
  BY <1>1, EscapedText
<1>a. EscapeJson(t) = w
  BY EscapeJsonIs DEF e
<1> HIDE DEF w
<1>3. /\ u \in Text /\ Len(u) = Len(w) + 1 /\ Len(w) \in Nat
      /\ u[Len(w) + 1] = "quote" /\ \A i \in 1..Len(w) : u[i] = w[i]
  <2>1. u \in Text
    BY <1>a, EscapeJsonText
  <2> QED
    BY <1>2, <2>1 DEF Text
<1> HIDE DEF u
<1>4. EscapesAt(u, 0, t, e)
  <2> DEFINE o == 0
  <2>1. o \in Nat /\ At(u, o, Escaped(t, e))
    BY <1>3 DEF At, w
  <2> HIDE DEF o
  <2>2. EscapesAt(u, o, t, e)
    BY <1>1, <1>3, <2>1, EscapesThere
  <2> QED
    BY <2>2 DEF o
<1>5. PICK g : Parsing(g, u)
  BY <1>3, ParseJsonRuns
<1>6. N \in Nat
  BY DEF Text
<1>7. /\ UpTo(t, 0) = <<>> /\ UpTo(t, N) = t
      /\ \A k \in 0..N - 1 : /\ UpTo(t, k) \in Text /\ t[k + 1] \in Chars
                             /\ UpTo(t, k + 1) = Append(UpTo(t, k), t[k + 1])
  BY Fronts DEF Text
<1> DEFINE M(k) == Mark(t, e, k)
           F(k) == UpTo(t, k)
           T == {k \in 0..N : M(k) \in Nat /\ JsonOut(g, M(k), F(k))}
<1>8. 0 \in T
  <2>1. M(0) = 0
    BY <1>4 DEF EscapesAt
  <2>2. F(0) = <<>>
    BY <1>7
  <2>3. JsonOut(g, 0, <<>>)
    BY <1>5 DEF Parsing, JsonOut
  <2> HIDE DEF M, F
  <2> QED
    BY <1>6, <2>1, <2>2, <2>3
<1>9. ASSUME NEW k \in 1..N, k - 1 \in T PROVE k \in T
  <2> DEFINE j == k - 1
             d == t[k]
             m == M(j)
  <2>1. j \in 0..N - 1 /\ j + 1 = k /\ k \in 0..N
    BY <1>6
  <2>2. m \in Nat /\ M(k) = m + Len(Esc(d, e)) /\ At(u, m, Esc(d, e))
    <3>1. /\ M(j) \in Nat /\ M(j + 1) = M(j) + Len(Esc(t[j + 1], e))
          /\ At(u, 0 + M(j), Esc(t[j + 1], e))
      BY <1>4, <2>1 DEF EscapesAt
    <3> HIDE DEF M
    <3> QED
      BY <2>1, <3>1
  <2>3. F(k) = Append(F(j), d)
    <3>1. F(j + 1) = Append(F(j), t[j + 1])
      BY <1>7, <2>1
    <3> HIDE DEF F
    <3> QED
      BY <2>1, <3>1
  <2>4. JsonOut(g, m, F(j))
    BY <1>9
  <2> HIDE DEF T, M, F, j, m
  <2>5. CASE d \in {"quote", "backslash", "newline"}
    <3>1. Esc(d, e) = <<"backslash", Coded(d)>> /\ Meant(Coded(d)) = d
      BY <1>1, <2>5
    <3>2. Len(Esc(d, e)) = 2 /\ m + 2 <= Len(u) /\ u[m + 1] = "backslash" /\ u[m + 2] = Coded(d)
      BY <2>2, <3>1 DEF At
    <3>3. JsonOut(g, m + 2, Append(F(j), Meant(u[m + 2])))
      BY <1>3, <1>5, <2>2, <2>4, <3>2, ParsesEscape
    <3>4. M(k) = m + 2 /\ m + 2 \in Nat
      BY <2>2, <3>2
    <3> QED
      BY <2>1, <2>3, <3>1, <3>2, <3>3, <3>4 DEF T
  <2>6. CASE d \notin {"quote", "backslash", "newline"}
    <3>1. Esc(d, e) = <<d>>
      BY <1>1, <2>6
    <3>2. Len(Esc(d, e)) = 1 /\ m + 1 <= Len(u) /\ u[m + 1] = d
      BY <2>2, <3>1 DEF At
    <3>3. JsonOut(g, m + 1, Append(F(j), u[m + 1]))
      BY <1>3, <1>5, <2>2, <2>4, <2>6, <3>2, ParsesPlain
    <3>4. M(k) = m + 1 /\ m + 1 \in Nat
      BY <2>2, <3>2
    <3> QED
      BY <2>1, <2>3, <3>2, <3>3, <3>4 DEF T
  <2> QED
    BY <2>5, <2>6
<1> HIDE DEF T
<1>10. \A k \in 0..N : k \in T
  BY <1>6, <1>8, <1>9, Along
<1>11. JsonOut(g, Len(w), t)
  <2>1. N \in T
    BY <1>6, <1>10
  <2>2. M(N) = Len(w)
    BY <1>4 DEF EscapesAt, w
  <2>3. F(N) = t
    BY <1>7
  <2> HIDE DEF M, F
  <2> QED
    BY <2>1, <2>2, <2>3 DEF T
<1>12. g[Len(u)].out = t
  <2>1. Len(w) + 1 \in 1..Len(u) /\ (Len(w) + 1) - 1 = Len(w)
    BY <1>3
  <2>2. JsonTakes(g[(Len(w) + 1) - 1], g[Len(w) + 1], u[Len(w) + 1])
    BY <1>5, <2>1 DEF Parsing
  <2>3. JsonTakes(g[Len(w)], g[Len(u)], "quote")
    BY <1>3, <2>1, <2>2
  <2> QED
    BY <1>11, <2>3 DEF JsonTakes, JsonOut
<1> QED
  BY <1>5, <1>12, <1>a DEF Parsing, u

-----------------------------------------------------------------------------
(* An account in 1Password's format *)

\* The last character of what the escapes write.
LEMMA EscapeEnds ==
    ASSUME NEW t \in Text, NEW d \in Chars
    PROVE  /\ EscapeJson(Append(t, d)) \in Seq(Chars) /\ EscapeJson(t) \in Seq(Chars)
           /\ Len(EscapeJson(Append(t, d))) > Len(EscapeJson(t))
           /\ d \in {"quote", "backslash", "newline"} =>
                  EscapeJson(Append(t, d)) = EscapeJson(t) \o <<"backslash", Coded(d)>>
           /\ d \notin {"quote", "backslash", "newline"} =>
                  EscapeJson(Append(t, d)) = EscapeJson(t) \o <<d>>
<1> DEFINE e == JsonEscape
           x == EscapeJson(t)
           y == Esc(d, e)
           z == EscapeJson(Append(t, d))
<1>1. IsEscape(e)
  BY JsonEscapes
<1>2. x = Escaped(t, e) /\ z = Escaped(Append(t, d), e)
  BY EscapeJsonIs
<1>3. x \in Seq(Chars) /\ y \in Seq(Chars) /\ z = x \o y
  BY <1>1, <1>2, EscapedAppend DEF Text
<1>4. /\ d \in {"quote", "backslash", "newline"} => y = <<"backslash", Coded(d)>>
      /\ d \notin {"quote", "backslash", "newline"} => y = <<d>>
  BY JsonEscapes
<1> HIDE DEF e, x, y, z
<1>5. Len(y) > 0
  <2>1. Len(<<"backslash", Coded(d)>>) = 2 /\ Len(<<d>>) = 1
    OBVIOUS
  <2> QED
    BY <1>4, <2>1
<1>6. z \in Seq(Chars) /\ Len(z) > Len(x)
  BY <1>3, <1>5
<1> QED
  BY <1>3, <1>4, <1>6 DEF x, z

\* A quotation mark that the escapes write has a backslash before it.
QuotesMarked(w) == \A i \in 1..Len(w) : w[i] = "quote" => i > 1 /\ w[i - 1] = "backslash"

\* So it is in every text.
LEMMA EscapeMarks == ASSUME NEW t \in Text PROVE QuotesMarked(EscapeJson(t))
<1> DEFINE T == {s \in Text : QuotesMarked(EscapeJson(s))}
<1>1. <<>> \in T
  <2>1. EscapeJson(<<>>) = <<>>
    BY EscapedEmpty, EscapeJsonIs
  <2> QED
    BY <2>1 DEF QuotesMarked, Text
<1>2. ASSUME NEW s \in T, NEW d \in Chars PROVE Append(s, d) \in T
  <2> DEFINE x == EscapeJson(s)
             z == EscapeJson(Append(s, d))
             b == Coded(d)
  <2>1. s \in Text /\ QuotesMarked(x) /\ Append(s, d) \in Text
    BY DEF Text
  <2>2. /\ x \in Seq(Chars)
        /\ d \in {"quote", "backslash", "newline"} => z = x \o <<"backslash", b>>
        /\ d \notin {"quote", "backslash", "newline"} => z = x \o <<d>>
    BY <2>1, EscapeEnds
  <2> HIDE DEF x, z, b
  <2>3. CASE d \in {"quote", "backslash", "newline"}
    <3>1. /\ Len(z) = Len(x) + 2 /\ Len(x) \in Nat /\ \A i \in 1..Len(x) : z[i] = x[i]
          /\ z[Len(x) + 1] = "backslash"
      BY <2>2, <2>3
    <3>2. ASSUME NEW i \in 1..Len(z), z[i] = "quote" PROVE i > 1 /\ z[i - 1] = "backslash"
      <4>1. CASE i \in 1..Len(x)
        BY <2>1, <3>1, <3>2, <4>1 DEF QuotesMarked
      <4>2. CASE i = Len(x) + 2
        BY <3>1, <4>2
      <4> QED
        BY <3>1, <3>2, <4>1, <4>2
    <3> QED
      BY <2>1, <3>2 DEF QuotesMarked, z
  <2>4. CASE d \notin {"quote", "backslash", "newline"}
    <3>1. /\ Len(z) = Len(x) + 1 /\ Len(x) \in Nat /\ \A i \in 1..Len(x) : z[i] = x[i]
          /\ z[Len(x) + 1] = d
      BY <2>2, <2>4
    <3>2. ASSUME NEW i \in 1..Len(z), z[i] = "quote" PROVE i > 1 /\ z[i - 1] = "backslash"
      <4>1. i \in 1..Len(x)
        BY <2>4, <3>1, <3>2
      <4> QED
        BY <2>1, <3>1, <3>2, <4>1 DEF QuotesMarked
    <3> QED
      BY <2>1, <3>2 DEF QuotesMarked, z
  <2> QED
    BY <2>3, <2>4
<1> HIDE DEF T
<1>3. T = Seq(Chars)
  <2>1. T \in SUBSET Seq(Chars)
    BY DEF T, Text
  <2> QED
    BY <1>1, <1>2, <2>1, EverySequence
<1> QED
  BY <1>3 DEF T, Text

\* What the escapes write ends with a character that they leave alone, or with a
\* quotation mark, only where the text does.
LEMMA EscapeEndsAs ==
    ASSUME NEW t \in Text, t # <<>>, NEW c, c \notin {"backslash", "newline", "n"},
           EscapeJson(t)[Len(EscapeJson(t))] = c
    PROVE  \E u \in Text : /\ t = Append(u, c)
                           /\ c # "quote" => EscapeJson(t) = EscapeJson(u) \o <<c>>
<1>1. PICK u \in Seq(Chars), d \in Chars : t = Append(u, d)
  BY SequenceEmptyOrAppend DEF Text
<1> DEFINE x == EscapeJson(u)
           z == EscapeJson(t)
           b == Coded(d)
<1>2. u \in Text
  BY DEF Text
<1>3. /\ x \in Seq(Chars)
      /\ d \in {"quote", "backslash", "newline"} => z = x \o <<"backslash", b>>
      /\ d \notin {"quote", "backslash", "newline"} => z = x \o <<d>>
  BY <1>1, <1>2, EscapeEnds
<1>4. z[Len(z)] = c
  OBVIOUS
<1>5. b = IF d = "newline" THEN "n" ELSE d
  BY DEF Coded
<1> HIDE DEF x, z, b
<1>6. CASE d \in {"quote", "backslash", "newline"}
  <2>1. z[Len(z)] = b
    BY <1>3, <1>6
  <2>2. d = c /\ c = "quote"
    BY <1>4, <1>5, <1>6, <2>1
  <2> QED
    BY <1>1, <1>2, <2>2
<1>7. CASE d \notin {"quote", "backslash", "newline"}
  <2>1. z = x \o <<d>> /\ z[Len(z)] = d
    BY <1>3, <1>7
  <2>2. d = c
    BY <1>4, <2>1
  <2> QED
    BY <1>1, <1>2, <2>1, <2>2 DEF x, z
<1> QED
  BY <1>6, <1>7

\* A key is read in what the escapes write of a text, between the quotation marks
\* around it, only at its end.
LEMMA KeyAtEnd ==
    ASSUME NEW t \in Text, NEW c, c \notin {"quote", "backslash", "newline", "n"},
           Occurs(Quoted(<<c>>), <<"quote">> \o Append(EscapeJson(t), "quote"))
    PROVE  t = <<c>> \/ \E v \in Text : t = Append(Append(v, "quote"), c)
<1> DEFINE w == EscapeJson(t)
           F == <<"quote">> \o Append(w, "quote")
           K == Quoted(<<c>>)
           n == Len(w)
<1>1. w \in Seq(Chars) /\ "quote" \in Chars /\ n \in Nat
  <2>1. w \in Seq(Chars)
    BY EscapeJsonText DEF Text
  <2>2. "quote" \in Chars
    BY CharsAssumption
  <2> HIDE DEF w
  <2> QED
    BY <2>1, <2>2
<1>2. QuotesMarked(w)
  BY EscapeMarks
<1> HIDE DEF w
<1>3. Len(F) = n + 2 /\ F[1] = "quote" /\ \A i \in 1..n : F[i + 1] = w[i]
  BY <1>1
<1>4. Len(K) = 3 /\ K[1] = "quote" /\ K[2] = c /\ K[3] = "quote"
  BY DEF Quoted
<1>a. Occurs(K, F)
  BY DEF w
<1> HIDE DEF F, K, n
<1>5. PICK i \in 0..(n - 1) : F[i + 1] = "quote" /\ F[i + 2] = c /\ F[i + 3] = "quote"
  <2>1. PICK i \in 0..(Len(F) - Len(K)) : \A j \in 1..Len(K) : F[i + j] = K[j]
    BY <1>a DEF Occurs
  <2>2. i \in 0..(n - 1)
    BY <1>1, <1>3, <1>4, <2>1
  <2>3. 1 \in 1..Len(K) /\ 2 \in 1..Len(K) /\ 3 \in 1..Len(K)
    BY <1>4
  <2>4. F[i + 1] = "quote" /\ F[i + 2] = c /\ F[i + 3] = "quote"
    BY <1>4, <2>1, <2>3
  <2> QED
    BY <2>2, <2>4
<1>6. i = n - 1
  <2> SUFFICES ASSUME i # n - 1 PROVE FALSE
    OBVIOUS
  <2>1. i + 1 \in 1..n /\ i + 2 \in 1..n /\ (i + 1) + 1 = i + 2 /\ (i + 2) + 1 = i + 3
        /\ (i + 2) - 1 = i + 1
    BY <1>1, <1>5
  <2>2. w[i + 1] = c /\ w[i + 2] = "quote"
    BY <1>3, <1>5, <2>1
  <2>3. w[(i + 2) - 1] = "backslash"
    BY <1>2, <2>1, <2>2 DEF QuotesMarked, n
  <2> QED
    BY <2>1, <2>2, <2>3
<1>7. n > 0 /\ w[n] = c
  <2>1. n \in 1..n /\ n + 1 = i + 2
    BY <1>1, <1>5, <1>6
  <2> QED
    BY <1>3, <1>5, <2>1
<1>8. t # <<>>
  <2>1. EscapeJson(<<>>) = <<>>
    BY EscapedEmpty, EscapeJsonIs
  <2> QED
    BY <1>7, <2>1 DEF n, w
<1>9. PICK u \in Text : t = Append(u, c) /\ w = EscapeJson(u) \o <<c>>
  <2>1. EscapeJson(t)[Len(EscapeJson(t))] = c
    BY <1>7 DEF n, w
  <2> QED
    BY <1>8, <2>1, EscapeEndsAs DEF w
<1> DEFINE x == EscapeJson(u)
<1>10. x \in Seq(Chars)
  BY EscapeJsonText DEF Text
<1>b. w = x \o <<c>>
  BY <1>9
<1> HIDE DEF x
<1>11. n = Len(x) + 1 /\ \A j \in 1..Len(x) : w[j] = x[j]
  BY <1>10, <1>b DEF n
<1>12. CASE u = <<>>
  BY <1>9, <1>12
<1>13. CASE u # <<>>
  <2>1. Len(x) > 0
    <3>1. PICK y \in Seq(Chars), d \in Chars : u = Append(y, d)
      BY <1>13, SequenceEmptyOrAppend DEF Text
    <3>2. y \in Text
      BY DEF Text
    <3>3. EscapeJson(y) \in Seq(Chars) /\ Len(EscapeJson(Append(y, d))) > Len(EscapeJson(y))
      BY <3>2, EscapeEnds, ZenonT(30)
    <3> DEFINE z == EscapeJson(y)
    <3>4. z \in Seq(Chars) /\ Len(x) > Len(z)
      BY <3>1, <3>3 DEF x
    <3> HIDE DEF z
    <3> QED
      BY <1>10, <3>4
  <2>2. x[Len(x)] = "quote"
    <3>1. n - 1 \in 1..n /\ (n - 1) + 1 = i + 1 /\ n - 1 = Len(x) /\ Len(x) \in 1..Len(x)
      BY <1>1, <1>6, <1>10, <1>11, <2>1
    <3>2. F[(n - 1) + 1] = w[n - 1]
      BY <1>3, <3>1
    <3>3. w[n - 1] = "quote"
      BY <1>5, <3>1, <3>2
    <3> QED
      BY <1>11, <3>1, <3>3
  <2>3. PICK v \in Text : u = Append(v, "quote")
    <3>1. EscapeJson(u)[Len(EscapeJson(u))] = "quote"
      BY <2>2 DEF x
    <3> DEFINE q == "quote"
    <3>2. q \notin {"backslash", "newline", "n"} /\ EscapeJson(u)[Len(EscapeJson(u))] = q
      BY <3>1
    <3> HIDE DEF q
    <3>3. \E v \in Text : u = Append(v, q)
      BY <1>13, <3>2, EscapeEndsAs
    <3> QED
      BY <3>3 DEF q
  <2> QED
    BY <1>9, <2>3
<1> QED
  BY <1>12, <1>13

\* A text that is the key of f or ends with a quotation mark and the key spells it.
LEMMA EndsSpell ==
    ASSUME NEW t \in Text, NEW c \in Chars, NEW k, k = <<c>>,
           t = <<c>> \/ \E v \in Text : t = Append(Append(v, "quote"), c)
    PROVE  IsSuffix(<<"quote">> \o k, <<"quote">> \o t)
<1> DEFINE q == <<"quote">> \o k
           s == <<"quote">> \o t
           rq == Reverse(q)
           rs == Reverse(s)
<1>1. "quote" \in Chars /\ t \in Seq(Chars)
  BY CharsAssumption DEF Text
<1>2. Len(q) = 2 /\ q[1] = "quote" /\ q[2] = c
  OBVIOUS
<1>3. s \in Seq(Chars) /\ Len(s) >= 2 /\ s[Len(s)] = c /\ s[Len(s) - 1] = "quote"
  <2>1. CASE t = <<c>>
    BY <1>1, <2>1
  <2>2. CASE \E v \in Text : t = Append(Append(v, "quote"), c)
    <3>1. PICK v \in Text : t = Append(Append(v, "quote"), c)
      BY <2>2
    <3>2. v \in Seq(Chars)
      BY DEF Text
    <3> DEFINE u == Append(v, "quote")
    <3>3. u \in Seq(Chars) /\ Len(u) = Len(v) + 1 /\ u[Len(v) + 1] = "quote" /\ Len(v) \in Nat
      BY <1>1, <3>2
    <3>4. t = Append(u, c)
      BY <3>1
    <3> HIDE DEF u
    <3>5. Len(t) = Len(v) + 2 /\ t[Len(v) + 2] = c /\ t[Len(v) + 1] = "quote"
      BY <3>3, <3>4
    <3>6. s \in Seq(Chars) /\ Len(s) = Len(t) + 1 /\ \A i \in 1..Len(t) : s[i + 1] = t[i]
      BY <1>1
    <3> HIDE DEF s
    <3>7. Len(v) + 2 \in 1..Len(t) /\ Len(v) + 1 \in 1..Len(t)
      BY <3>3, <3>5
    <3>8. s[(Len(v) + 2) + 1] = c /\ s[(Len(v) + 1) + 1] = "quote"
      BY <3>5, <3>6, <3>7
    <3>9. Len(s) = (Len(v) + 2) + 1 /\ Len(s) - 1 = (Len(v) + 1) + 1
      BY <3>3, <3>5, <3>6
    <3> QED
      BY <3>3, <3>6, <3>8, <3>9
  <2> QED
    BY <2>1, <2>2
<1> HIDE DEF q, s
<1>4. rq \in Seq({"quote", c}) /\ Len(rq) = 2 /\ rq[1] = c /\ rq[2] = "quote"
  <2>1. rq = [i \in 1..2 |-> q[2 - i + 1]]
    BY <1>2 DEF Reverse
  <2> QED
    BY <1>2, <2>1
<1>5. rs \in Seq(Chars) /\ Len(rs) >= 2 /\ rs[1] = c /\ rs[2] = "quote"
  <2>1. rs = [i \in 1..Len(s) |-> s[Len(s) - i + 1]] /\ Len(s) \in Nat
    BY <1>3 DEF Reverse
  <2>2. \A i \in 1..Len(s) : s[Len(s) - i + 1] \in Chars
    BY <1>3, <2>1
  <2>3. rs \in Seq(Chars) /\ Len(rs) = Len(s)
    BY <2>1, <2>2
  <2>4. rs[1] = s[Len(s) - 1 + 1] /\ rs[2] = s[Len(s) - 2 + 1]
    BY <1>3, <2>1
  <2>5. Len(s) - 1 + 1 = Len(s) /\ Len(s) - 2 + 1 = Len(s) - 1
    BY <2>1
  <2> QED
    BY <1>3, <2>3, <2>4, <2>5
<1> HIDE DEF rq, rs
<1>6. SubSeq(rq, 1, 2) = SubSeq(rs, 1, 2)
  <2> DEFINE y == SubSeq(rq, 1, 2)
             z == SubSeq(rs, 1, 2)
  <2>1. y = [i \in 1..2 |-> rq[i]]
    BY <1>4
  <2>2. z = [i \in 1..2 |-> rs[i]]
    BY <1>5
  <2>3. \A i \in 1..2 : rq[i] = rs[i]
    <3>1. \A i \in 1..2 : i = 1 \/ i = 2
      OBVIOUS
    <3> QED
      BY <1>4, <1>5, <3>1
  <2> HIDE DEF y, z
  <2>4. y = z
    BY <2>1, <2>2, <2>3
  <2> QED
    BY <2>4 DEF y, z
<1>7. IsPrefix(rq, rs)
  BY <1>4, <1>5, <1>6 DEF IsPrefix
<1> QED
  BY <1>7 DEF IsSuffix, rq, rs, q, s

\* The escapes write and take away only quotation marks, backslashes, line breaks and
\* the "n" of those.
LEMMA EscapeKeeps ==
    ASSUME NEW t \in Text, NEW b, b \notin {"quote", "backslash", "newline", "n"}
    PROVE  Has(Append(EscapeJson(t), "quote"), b) <=> Has(t, b)
<1> DEFINE e == JsonEscape
           w == EscapeJson(t)
           r == Append(w, "quote")
<1>1. /\ IsEscape(e)
      /\ \A d : d \in {"quote", "backslash", "newline"} => Esc(d, e) = <<"backslash", Coded(d)>>
      /\ \A d : d \notin {"quote", "backslash", "newline"} => Esc(d, e) = <<d>>
  BY JsonEscapes
<1>2. w = Escaped(t, e) /\ w \in Text
  BY EscapeJsonIs, EscapeJsonText
<1> HIDE DEF e, w
<1>3. w \in Seq(Chars) /\ t \in Seq(Chars)
  BY <1>2 DEF Text
<1>a. "quote" \in Chars
  BY CharsAssumption
<1>4. r \in Seq(Chars) /\ Len(r) = Len(w) + 1 /\ Len(w) \in Nat
      /\ r[Len(w) + 1] = "quote" /\ \A i \in 1..Len(w) : r[i] = w[i]
  BY <1>3, <1>a
<1> HIDE DEF r
<1>5. ASSUME Lacks(t, b) PROVE Lacks(r, b)
  <2>1. ASSUME NEW d, d # b PROVE Lacks(Esc(d, e), b)
    <3>1. CASE d \in {"quote", "backslash", "newline"}
      <4> DEFINE x == Esc(d, e)
      <4>1. x = <<"backslash", Coded(d)>>
        BY <1>1, <3>1
      <4>2. Coded(d) # b
        BY <2>1 DEF Coded
      <4> HIDE DEF x
      <4>3. Len(x) = 2 /\ x[1] = "backslash" /\ x[2] = Coded(d)
        BY <4>1
      <4>4. \A i \in 1..Len(x) : i = 1 \/ i = 2
        BY <4>3
      <4> QED
        BY <4>2, <4>3, <4>4 DEF x, Lacks
    <3>2. CASE d \notin {"quote", "backslash", "newline"}
      BY <1>1, <2>1, <3>2 DEF Lacks
    <3> QED
      BY <3>1, <3>2
  <2>2. Lacks(Escaped(t, e), b)
    BY <1>1, <1>5, <2>1, EscapedFree
  <2>3. Lacks(w, b)
    BY <1>2, <2>2
  <2> QED
    BY <1>4, <2>3 DEF Lacks
<1>6. ASSUME NEW i \in 1..Len(t), t[i] = b PROVE ~Lacks(r, b)
  <2>1. At(w, 0, Escaped(t, e))
    <3>1. At(w, 0, w)
      BY <1>3 DEF At
    <3> QED
      BY <1>2, <3>1
  <2>2. EscapesAt(w, 0, t, e)
    BY <1>1, <1>2, <2>1, EscapesThere
  <2> DEFINE k == i - 1
             m == Mark(t, e, k)
             x == Esc(b, e)
  <2>3. k \in 0..Len(t) - 1 /\ k + 1 = i
    BY <1>3
  <2> HIDE DEF k
  <2>4. Mark(t, e, k) \in Nat /\ At(w, 0 + Mark(t, e, k), Esc(t[k + 1], e))
    BY <2>2, <2>3 DEF EscapesAt
  <2>5. t[k + 1] = b
    BY <1>6, <2>3
  <2>6. m \in Nat /\ At(w, 0 + m, x)
    BY <2>4, <2>5
  <2>7. x = <<b>>
    BY <1>1
  <2> HIDE DEF m, x
  <2>8. Len(x) = 1 /\ x[1] = b
    BY <2>7
  <2>9. 1 \in 1..Len(x)
    BY <2>8
  <2>10. w[0 + m + 1] = x[1] /\ 0 + m + Len(x) <= Len(w)
    BY <2>6, <2>9 DEF At
  <2>11. m + 1 \in 1..Len(w) /\ w[m + 1] = b
    BY <1>4, <2>6, <2>8, <2>10
  <2>12. r[m + 1] = b /\ m + 1 \in 1..Len(r)
    BY <1>4, <2>11
  <2> QED
    BY <2>12 DEF Lacks
<1>7. Lacks(r, b) <=> Lacks(t, b)
  BY <1>5, <1>6 DEF Lacks
<1> QED
  BY <1>7, FreeIsNotHas DEF r, w

\* They write no brace.
LEMMA NoBrace ==
    ASSUME NEW t \in Text, ~Has(t, "brace")
    PROVE  ~Has(Append(EscapeJson(t), "quote"), "brace")
BY EscapeKeeps

\* What is found under each key of a record.
Found(record, f) == LegacyText(IF f \in {"user", "password"}
                               THEN FindDesignated(record, f) ELSE FindKey(record, f))

\* The account that is made of what is found under the keys of a record.
LEMMA FromPifRecordIs ==
    ASSUME NEW record
    PROVE  FromPifRecord(record) =
              SplitNotes([Empty EXCEPT !.name = Found(record, "name"),
                                       !.user = Found(record, "user"),
                                       !.password = Found(record, "password"),
                                       !.website = Found(record, "website")],
                         Found(record, "notes"))
BY DEF FromPifRecord, Found

\* The account with these texts, without an address and notes.
Filled(r, n, u, p, w) ==
    /\ r \in Record /\ r.name = n /\ r.user = u /\ r.password = p
    /\ r.email = <<>> /\ r.website = w /\ r.notes = <<>>

\* Filling in the texts of an account.
LEMMA FilledIn ==
    ASSUME NEW n \in Text, NEW u \in Text, NEW p \in Text, NEW w \in Text, NEW r,
           r = [Empty EXCEPT !.name = n, !.user = u, !.password = p, !.website = w]
    PROVE  Filled(r, n, u, p, w)
<1> DEFINE z == Empty
<1>1. z \in Record /\ z.email = <<>> /\ z.notes = <<>>
  BY DEF Empty, Record, Text
<1>2. r = [z EXCEPT !.name = n, !.user = u, !.password = p, !.website = w]
  OBVIOUS
<1> HIDE DEF z
<1> QED
  BY <1>1, <1>2 DEF Record, Filled

\* A record has the strings of what is written under its keys.
LEMMA PifRecordIs ==
    ASSUME NEW a \in Record, NEW record, record = PifRecord(a)
    PROVE  /\ DOMAIN record = Present(a) /\ Present(a) \subseteq Kept
           /\ \A f \in Present(a) :
                 record[f] = Append(EscapeJson(Values(a)[f]), "quote") /\ record[f] \in Text
<1> DEFINE v == Values(a)
           P == Present(a)
<1>1. record = [f \in P |-> Append(EscapeJson(v[f]), "quote")]
  BY DEF PifRecord, Values, Present
<1>2. \A f \in Kept : v[f] \in Text
  BY ValuesTexts
<1>3. P \subseteq Kept
  BY DEF Present, Kept
<1> HIDE DEF v, P
<1>4. ASSUME NEW f \in P PROVE Append(EscapeJson(v[f]), "quote") \in Text
  <2>1. v[f] \in Text
    BY <1>2, <1>3
  <2> QED
    BY <2>1, EscapeJsonText
<1> QED
  BY <1>1, <1>3, <1>4 DEF v, P

\* UnescapeXml makes an empty text only of an empty one.
LEMMA UnescapeXmlEmpty ==
    ASSUME NEW t \in Text
    PROVE  UnescapeXml(t) = <<>> <=> t = <<>>
<1>1. "<" \in Chars /\ "&" \in Chars /\ "quote" \in Chars
  BY CharsAssumption
<1> DEFINE u == Collapsed(t, <<"&", "lt;">>, "<")
           v == Collapsed(u, <<"&", "amp;">>, "&")
           w == Collapsed(v, <<"&", "quot;">>, "quote")
<1>2. u \in Text /\ (u = <<>> <=> t = <<>>)
  BY <1>1, CollapsedText, CollapsedEmpty
<1> HIDE DEF u
<1>3. v \in Text /\ (v = <<>> <=> u = <<>>)
  BY <1>1, <1>2, CollapsedText, CollapsedEmpty
<1> HIDE DEF v
<1>4. w = <<>> <=> v = <<>>
  BY <1>1, <1>3, CollapsedEmpty
<1>5. UnescapeXml(t) = w
  BY DEF UnescapeXml, w, v, u
<1> QED
  BY <1>2, <1>3, <1>4, <1>5

\* Whatever is found in a record, or in a part of one, is a text.
LEMMA FoundIsText ==
    ASSUME NEW record, \A f \in DOMAIN record : record[f] \in Text
    PROVE  \A f \in Kept : Found(record, f) \in Text
<1> SUFFICES ASSUME NEW f \in Kept PROVE Found(record, f) \in Text
  OBVIOUS
<1>1. <<>> \in Text
  BY DEF Text
<1>2. f \in DOMAIN record => ParseJson(record[f]) \in Text
  BY ParseJsonText
<1>3. FindKey(record, f) \in Text
  BY <1>1, <1>2 DEF FindKey
<1>4. FindDesignated(record, f) \in Text
  BY <1>1, <1>2 DEF FindDesignated
<1>5. (IF f \in {"user", "password"} THEN FindDesignated(record, f) ELSE FindKey(record, f))
        \in Text
  BY <1>3, <1>4
<1> QED
  BY <1>5, UnescapeXmlText DEF Found, LegacyText

\* The name is neither searched for in the whole record nor by its designation.
LEMMA FoundName ==
    ASSUME NEW a \in Record, NEW record, record = PifRecord(a)
    PROVE  Found(record, "name") = UnescapeXml(a.name)
<1>1. /\ DOMAIN record = Present(a)
      /\ \A f \in Present(a) : record[f] = Append(EscapeJson(Values(a)[f]), "quote")
  BY PifRecordIs
<1>2. "name" \in Present(a)
  BY DEF Present
<1>3. "name" \notin DOMAIN KeyOf
  BY DEF KeyOf
<1>4. FindKey(record, "name") = ParseJson(record["name"])
  BY <1>1, <1>2, <1>3 DEF FindKey
<1>5. record["name"] = Append(EscapeJson(Values(a)["name"]), "quote")
  BY <1>1, <1>2
<1>6. Values(a)["name"] = a.name /\ a.name \in Text
  BY ValuesTexts, RecordTexts
<1>7. ParseJson(record["name"]) = a.name
  BY <1>5, <1>6, ParsesBack
<1>8. Found(record, "name") = UnescapeXml(FindKey(record, "name"))
  BY DEF Found, LegacyText
<1> QED
  BY <1>4, <1>7, <1>8

\* What the format promises of the values.
LEMMA ValuesSpellNothing ==
    ASSUME NEW a \in Record, Carries("1pif", a), NEW f \in Kept
    PROVE  UnescapeXml(Values(a)[f]) = Values(a)[f]
<1> DEFINE v == Values(a)
<1>1. \A g \in DOMAIN a, c \in DOMAIN EntityEnd : ~HasPair(a[g], <<"&", EntityEnd[c]>>)
  BY DEF Carries
<1>2. /\ v \in Record /\ \A g \in Kept : v[g] \in Text
      /\ v["name"] = a.name /\ v["user"] = a.user /\ v["password"] = a.password
      /\ v["website"] = a.website /\ v["notes"] = WithEmail(a)
  BY ValuesTexts
<1> HIDE DEF v
<1>3. ASSUME NEW c \in DOMAIN EntityEnd PROVE ~HasPair(v[f], <<"&", EntityEnd[c]>>)
  <2> DEFINE z == EntityEnd[c]
  <2>1. z # "newline"
    BY DEF EntityEnd
  <2>2. /\ ~HasPair(a.name, <<"&", z>>) /\ ~HasPair(a.user, <<"&", z>>)
        /\ ~HasPair(a.password, <<"&", z>>) /\ ~HasPair(a.website, <<"&", z>>)
        /\ ~HasPair(a.email, <<"&", z>>) /\ ~HasPair(a.notes, <<"&", z>>)
    BY <1>1 DEF Record
  <2> HIDE DEF z
  <2>3. ~HasPair(WithEmail(a), <<"&", z>>)
    BY <2>1, <2>2, NoPairWithEmail
  <2>4. ~HasPair(v[f], <<"&", z>>)
    BY <1>2, <2>2, <2>3 DEF Kept
  <2> QED
    BY <2>4 DEF z
<1>4. v[f] \in Text
  BY <1>2
<1>5. UnescapeXml(v[f]) = v[f]
  BY <1>3, <1>4, NothingToUnescape
<1> QED
  BY <1>5 DEF v

\* A key is hidden only by an account that spells it.
LEMMA HiddenSpells ==
    ASSUME NEW a \in Record, NEW record, record = PifRecord(a),
           NEW f \in DOMAIN KeyOf, Hidden(record, f)
    PROVE  Spells(a, f)
<1> DEFINE v == Values(a)
           c == IF f = "website" THEN "url" ELSE "notesPlain"
<1>1. PICK g \in HiddenBy(f) \cap DOMAIN record :
          Occurs(Quoted(KeyOf[f]), <<"quote">> \o record[g])
  BY DEF Hidden
<1>2. /\ DOMAIN record = Present(a)
      /\ \A h \in Present(a) : record[h] = Append(EscapeJson(v[h]), "quote")
  BY PifRecordIs
<1>3. g \in HiddenBy(f) /\ g \in Present(a) /\ g \in {"name", "user", "password", "website"}
  BY <1>1, <1>2 DEF HiddenBy
<1>4. v[g] = a[g] /\ v[g] \in Text
  BY <1>3, ValuesTexts DEF Kept
<1>5. KeyOf[f] = <<c>> /\ c \notin {"quote", "backslash", "newline", "n"}
  <2>1. f = "website" \/ f = "notes"
    BY DEF KeyOf
  <2> QED
    BY <2>1 DEF KeyOf
<1> HIDE DEF c, v
<1> DEFINE t == v[g]
           k == KeyOf[f]
<1>6. Occurs(Quoted(<<c>>), <<"quote">> \o Append(EscapeJson(t), "quote"))
  BY <1>1, <1>2, <1>3, <1>5
<1>a. t \in Text /\ k = <<c>>
  BY <1>4, <1>5
<1> HIDE DEF t, k
<1>7. t = <<c>> \/ \E w \in Text : t = Append(Append(w, "quote"), c)
  BY <1>5, <1>6, <1>a, KeyAtEnd
<1>8. c \in Chars
  <2>1. CASE t = <<c>>
    <3>1. <<c>> \in Seq(Chars)
      BY <1>a, <2>1 DEF Text
    <3> QED
      BY <3>1
  <2>2. CASE \E w \in Text : t = Append(Append(w, "quote"), c)
    <3>1. PICK w \in Text : t = Append(Append(w, "quote"), c)
      BY <2>2
    <3>2. w \in Seq(Chars) /\ t \in Seq(Chars)
      BY <1>a DEF Text
    <3>3. "quote" \in Chars
      BY CharsAssumption
    <3> DEFINE y == Append(w, "quote")
    <3>a. y \in Seq(Chars)
      BY <3>2, <3>3
    <3>b. t = Append(y, c)
      BY <3>1
    <3> HIDE DEF y
    <3>4. Len(t) \in 1..Len(t) /\ t[Len(t)] = c
      BY <3>a, <3>b
    <3> QED
      BY <3>2, <3>4
  <2> QED
    BY <1>7, <2>1, <2>2
<1>9. IsSuffix(<<"quote">> \o k, <<"quote">> \o t)
  BY <1>7, <1>8, <1>a, EndsSpell
<1>10. t = a[g]
  BY <1>4 DEF t
<1> QED
  BY <1>3, <1>9, <1>10 DEF Spells, k

\* If the record carries the account, what is found under a key is what was
\* written.
LEMMA FoundAsWritten ==
    ASSUME NEW a \in Record, Carries("1pif", a), NEW record, record = PifRecord(a), NEW f \in Kept
    PROVE  Found(record, f) = Values(a)[f]
<1> DEFINE v == Values(a)
<1>1. /\ DOMAIN record = Present(a) /\ Present(a) \subseteq Kept
      /\ \A g \in Present(a) :
            record[g] = Append(EscapeJson(Values(a)[g]), "quote") /\ record[g] \in Text
  BY PifRecordIs
<1>2. \A g \in {"name", "user", "password"} : g \in Present(a)
  BY DEF Present
<1>3. /\ v \in Record /\ \A g \in Kept : v[g] \in Text
      /\ v["name"] = a.name /\ v["user"] = a.user /\ v["password"] = a.password
      /\ v["website"] = a.website /\ v["notes"] = WithEmail(a)
  BY ValuesTexts
<1>4. /\ ~Has(a.user, "brace") /\ ~Has(a.password, "brace")
      /\ ~Spells(a, "website") /\ ~Spells(a, "notes")
  BY DEF Carries
<1>5. UnescapeXml(v[f]) = v[f]
  BY ValuesSpellNothing
<1>6. f \in Present(a) => ParseJson(record[f]) = v[f]
  <2>1. SUFFICES ASSUME f \in Present(a) PROVE ParseJson(record[f]) = v[f]
    OBVIOUS
  <2>2. record[f] = Append(EscapeJson(v[f]), "quote") /\ v[f] \in Text
    BY <1>1, <1>3, <2>1
  <2> HIDE DEF v
  <2> QED
    BY <2>2, ParsesBack
<1>7. f \notin Present(a) => v[f] = <<>>
  BY DEF Present, Kept
<1>8. CASE f \in {"user", "password"}
  <2>1. f \in Present(a)
    BY <1>2, <1>8
  <2>2. ~Has(v[f], "brace") /\ v[f] \in Text
    BY <1>3, <1>4, <1>8
  <2>3. record[f] = Append(EscapeJson(v[f]), "quote")
    BY <1>1, <2>1
  <2> HIDE DEF v
  <2>4. ~Has(record[f], "brace")
    BY <2>2, <2>3, NoBrace
  <2>5. FindDesignated(record, f) = v[f]
    BY <1>1, <1>6, <2>1, <2>4 DEF FindDesignated
  <2>6. Found(record, f) = UnescapeXml(v[f])
    BY <1>8, <2>5 DEF Found, LegacyText
  <2> QED
    BY <1>5, <2>6 DEF v
<1>9. CASE f \notin {"user", "password"}
  <2>1. Found(record, f) = UnescapeXml(FindKey(record, f))
    BY <1>9 DEF Found, LegacyText
  <2>2. FindKey(record, f) = v[f]
    <3>1. CASE f \notin Present(a)
      BY <1>1, <1>7, <3>1 DEF FindKey
    <3>2. CASE f \in Present(a)
      <4>1. ~(f \in DOMAIN KeyOf /\ Hidden(record, f))
        <5> SUFFICES ASSUME f \in DOMAIN KeyOf, Hidden(record, f) PROVE FALSE
          OBVIOUS
        <5>1. f \in {"website", "notes"}
          BY DEF KeyOf
        <5>2. Spells(a, f)
          BY HiddenSpells
        <5> QED
          BY <1>4, <5>1, <5>2
      <4> QED
        BY <1>1, <1>6, <3>2, <4>1 DEF FindKey
    <3> QED
      BY <3>1, <3>2
  <2> QED
    BY <1>5, <2>1, <2>2
<1> QED
  BY <1>8, <1>9

\* Of whatever part of a record an account is made.
LEMMA PifMakes ==
    ASSUME NEW record, \A f \in DOMAIN record : record[f] \in Text
    PROVE  FromPifRecord(record) \in Record /\ FromPifRecord(record).name = Found(record, "name")
<1> DEFINE n == Found(record, "name")
           u == Found(record, "user")
           p == Found(record, "password")
           w == Found(record, "website")
           m == Found(record, "notes")
           r == [Empty EXCEPT !.name = n, !.user = u, !.password = p, !.website = w]
           b == FromPifRecord(record)
<1>1. b = SplitNotes(r, m)
  BY FromPifRecordIs
<1>2. n \in Text /\ u \in Text /\ p \in Text /\ w \in Text /\ m \in Text
  BY FoundIsText DEF Kept
<1> HIDE DEF n, u, p, w, m, b
<1>3. Filled(r, n, u, p, w)
  <2>1. r = [Empty EXCEPT !.name = n, !.user = u, !.password = p, !.website = w]
    OBVIOUS
  <2> HIDE DEF r
  <2> QED
    BY <1>2, <2>1, FilledIn
<1> HIDE DEF r
<1>4. /\ r \in Record /\ r.name = n /\ r.email = <<>> /\ r.notes = <<>>
  BY <1>3 DEF Filled
<1>5. b \in Record /\ b.name = n
  BY <1>1, <1>2, <1>4, SplitNotesText
<1> QED
  BY <1>5 DEF b, n

\* An account that a record carries comes back from it, and a name is never lost.
LEMMA PifReadsBack ==
    ASSUME NEW a \in Record, NEW b, b = FromPifRecord(PifRecord(a))
    PROVE  /\ b \in Record /\ (b.name = <<>> <=> a.name = <<>>)
           /\ Carries("1pif", a) => b = a
<1> DEFINE record == PifRecord(a)
           R(f) == Found(record, f)
           r == [Empty EXCEPT !.name = R("name"), !.user = R("user"),
                              !.password = R("password"), !.website = R("website")]
<1>0. \A f \in DOMAIN record : record[f] \in Text
  BY PifRecordIs
<1>1. b = SplitNotes(r, R("notes"))
  BY FromPifRecordIs
<1>2. R("name") = UnescapeXml(a.name)
  BY FoundName
<1>a. Carries("1pif", a) => \A f \in Kept : R(f) = Values(a)[f]
  BY FoundAsWritten
<1>b. b \in Record /\ b.name = R("name")
  BY <1>0, PifMakes
<1>c. \A f \in Kept : R(f) \in Text
  BY <1>0, FoundIsText
<1> HIDE DEF R, record
<1>3. b.name = <<>> <=> a.name = <<>>
  <2>1. a.name \in Text
    BY RecordTexts
  <2> QED
    BY <1>2, <1>b, <2>1, UnescapeXmlEmpty
<1>4. ASSUME Carries("1pif", a) PROVE b = a
  <2>1. NotesAreNotes(a)
    BY <1>4 DEF Carries
  <2>2. /\ R("name") = Values(a)["name"] /\ R("user") = Values(a)["user"]
        /\ R("password") = Values(a)["password"] /\ R("website") = Values(a)["website"]
        /\ R("notes") = Values(a)["notes"]
    BY <1>4, <1>a DEF Kept
  <2>3. /\ R("name") = a.name /\ R("user") = a.user /\ R("password") = a.password
        /\ R("website") = a.website /\ R("notes") = WithEmail(a)
    BY <2>2, ValuesTexts
  <2>4. Filled(r, R("name"), R("user"), R("password"), R("website"))
    <3> DEFINE n == R("name")
               u == R("user")
               p == R("password")
               w == R("website")
    <3>1. r = [Empty EXCEPT !.name = n, !.user = u, !.password = p, !.website = w]
      OBVIOUS
    <3>2. n \in Text /\ u \in Text /\ p \in Text /\ w \in Text
      BY <1>c DEF Kept
    <3> HIDE DEF n, u, p, w, r
    <3>3. Filled(r, n, u, p, w)
      BY <3>1, <3>2, FilledIn
    <3> QED
      BY <3>3 DEF n, u, p, w
  <2> HIDE DEF r
  <2>5. /\ r \in Record /\ r.name = R("name") /\ r.user = R("user") /\ r.password = R("password")
        /\ r.email = <<>> /\ r.website = R("website") /\ r.notes = <<>>
    BY <2>4 DEF Filled
  <2>6. SplitNotes(r, R("notes")) = a
    BY <2>1, <2>3, <2>5, SplitsNotes
  <2> QED
    BY <1>1, <2>6
<1> QED
  BY <1>3, <1>4, <1>b

-----------------------------------------------------------------------------
(* Texts that are joined *)

\* How far the first k sequences go in the joined one.
Off(ss, k) == Len(FlattenSeq(UpTo(ss, k)))

\* Each is there after those before it.
JoinedAt(ss) ==
    /\ Off(ss, 0) = 0 /\ Off(ss, Len(ss)) = Len(FlattenSeq(ss))
    /\ \A k \in 0..Len(ss) - 1 :
        /\ Off(ss, k) \in Nat /\ Off(ss, k + 1) = Off(ss, k) + Len(ss[k + 1])
        /\ At(FlattenSeq(ss), Off(ss, k), ss[k + 1])

\* Texts are joined to a text.
LEMMA FlattenText ==
    ASSUME NEW ss \in Seq(Text)
    PROVE  FlattenSeq(ss) \in Text
<1>1. ss \in Seq(Seq(Chars)) /\ <<>> \in Seq(Chars)
  BY DEF Text
<1>2. FlattenSeq(ss) \in Seq(Chars)
  <2> DEFINE t == <<>>
  <2>1. t \in Seq(Chars)
    BY <1>1
  <2> HIDE DEF t
  <2> QED
    BY <1>1, <2>1, FlattenAppend
<1> QED
  BY <1>2 DEF Text

\* It is so for all texts.
LEMMA JoinedTexts == ASSUME NEW ss \in Seq(Text) PROVE JoinedAt(ss)
<1> DEFINE F(k) == FlattenSeq(UpTo(ss, k))
           N == Len(ss)
           u == FlattenSeq(ss)
<1>1. /\ UpTo(ss, 0) = <<>> /\ UpTo(ss, N) = ss
      /\ \A k \in 0..N - 1 : /\ UpTo(ss, k) \in Seq(Text) /\ ss[k + 1] \in Text
                             /\ UpTo(ss, k + 1) = Append(UpTo(ss, k), ss[k + 1])
  BY Fronts
<1>2. N \in Nat /\ u \in Seq(Chars)
  BY FlattenText DEF Text
<1>3. F(0) = <<>> /\ F(N) = u
  BY <1>1, FlattenEmpty
<1>4. ASSUME NEW k \in 0..N - 1
      PROVE  F(k) \in Seq(Chars) /\ ss[k + 1] \in Seq(Chars) /\ F(k + 1) = F(k) \o ss[k + 1]
  <2> DEFINE f == UpTo(ss, k)
             t == ss[k + 1]
  <2>1. f \in Seq(Seq(Chars)) /\ t \in Seq(Chars) /\ UpTo(ss, k + 1) = Append(f, t)
    BY <1>1 DEF Text
  <2> HIDE DEF f, t
  <2>2. FlattenSeq(f) \in Seq(Chars) /\ FlattenSeq(Append(f, t)) = FlattenSeq(f) \o t
    BY <2>1, FlattenAppend
  <2> QED
    BY <2>1, <2>2 DEF f, t
<1> HIDE DEF F, u
\* Down from the whole, as in EscapesThere.
<1> DEFINE o == 0
           T == {n \in Nat : n <= N => At(u, o, F(N - n))}
<1>5. 0 \in T
  <2>1. At(u, o, u)
    BY <1>2 DEF At
  <2> QED
    BY <1>2, <1>3, <2>1
<1> HIDE DEF o
<1>6. ASSUME NEW i \in 1..N, i - 1 \in T PROVE i \in T
  <2> DEFINE k == N - i
  <2>1. k \in 0..N - 1 /\ k + 1 = N - (i - 1) /\ i - 1 <= N
    BY <1>2
  <2>2. At(u, o, F(k + 1))
    BY <1>6, <2>1
  <2> HIDE DEF k
  <2>3. At(u, o, F(k) \o ss[k + 1]) /\ o \in Nat
    BY <1>4, <2>1, <2>2 DEF o
  <2>4. F(k) \in Seq(Chars) /\ ss[k + 1] \in Seq(Chars)
    BY <1>4, <2>1
  <2>5. At(u, o, F(k))
    BY <1>2, <2>3, <2>4, AtConcat
  <2> QED
    BY <2>5 DEF k
<1> HIDE DEF T
<1>7. \A i \in 0..N : i \in T
  BY <1>2, <1>5, <1>6, Along
<1>8. ASSUME NEW k \in 0..N - 1 PROVE At(u, Len(F(k)), ss[k + 1])
  <2> DEFINE n == N - (k + 1)
  <2>1. n \in 0..N /\ N - n = k + 1
    BY <1>2
  <2>2. At(u, o, F(k + 1))
    <3>1. n \in T
      BY <1>7, <2>1
    <3>2. At(u, o, F(N - n))
      BY <2>1, <3>1 DEF T
    <3> HIDE DEF n
    <3> QED
      BY <2>1, <3>2
  <2>3. At(u, o, F(k) \o ss[k + 1]) /\ o \in Nat
    BY <1>4, <2>2 DEF o
  <2>4. F(k) \in Seq(Chars) /\ ss[k + 1] \in Seq(Chars)
    BY <1>4
  <2>5. At(u, o + Len(F(k)), ss[k + 1])
    BY <1>2, <2>3, <2>4, AtConcat
  <2>6. o + Len(F(k)) = Len(F(k))
    BY <2>4 DEF o
  <2> QED
    BY <2>5, <2>6
<1>9. ASSUME NEW k \in 0..N - 1
      PROVE  Len(F(k)) \in Nat /\ Len(F(k + 1)) = Len(F(k)) + Len(ss[k + 1])
  BY <1>4
<1>10. Len(F(0)) = 0 /\ Len(F(N)) = Len(u)
  BY <1>3
<1> QED
  BY <1>8, <1>9, <1>10 DEF JoinedAt, Off, F, u

\* What occurs in none of them does not occur.
LEMMA FlattenFree ==
    ASSUME NEW ss \in Seq(Text), NEW b, \A k \in 1..Len(ss) : Lacks(ss[k], b)
    PROVE  Lacks(FlattenSeq(ss), b)
<1> DEFINE F(k) == FlattenSeq(UpTo(ss, k))
           N == Len(ss)
           T == {k \in 0..N : Lacks(F(k), b)}
<1>1. /\ UpTo(ss, 0) = <<>> /\ UpTo(ss, N) = ss
      /\ \A k \in 0..N - 1 : /\ UpTo(ss, k) \in Seq(Text) /\ ss[k + 1] \in Text
                             /\ UpTo(ss, k + 1) = Append(UpTo(ss, k), ss[k + 1])
  BY Fronts
<1>2. N \in Nat
  OBVIOUS
<1>3. 0 \in T
  BY <1>1, <1>2, FlattenEmpty DEF Lacks
<1>4. ASSUME NEW i \in 1..N, i - 1 \in T PROVE i \in T
  <2> DEFINE f == UpTo(ss, i - 1)
             t == ss[i]
             x == FlattenSeq(f)
  <2>1. i - 1 \in 0..N - 1 /\ (i - 1) + 1 = i /\ i \in 0..N
    BY <1>2
  <2>2. f \in Seq(Seq(Chars)) /\ t \in Seq(Chars) /\ UpTo(ss, i) = Append(f, t)
    BY <1>1, <2>1 DEF Text
  <2>3. Lacks(x, b) /\ Lacks(t, b)
    BY <1>4
  <2> HIDE DEF f, t
  <2>4. x \in Seq(Chars) /\ FlattenSeq(Append(f, t)) = x \o t
    BY <2>2, FlattenAppend
  <2> HIDE DEF x
  <2>5. Lacks(x \o t, b)
    BY <2>2, <2>3, <2>4 DEF Lacks
  <2> QED
    BY <2>1, <2>2, <2>4, <2>5
<1> HIDE DEF T
<1>5. \A k \in 0..N : k \in T
  BY <1>2, <1>3, <1>4, Along
<1>6. Lacks(F(N), b)
  BY <1>2, <1>5 DEF T
<1> QED
  BY <1>1, <1>6

-----------------------------------------------------------------------------
(* The fields of a CSV line *)

\* UnescapeCsv makes a text of every text.
LEMMA UnescapeCsvText == ASSUME NEW t \in Text PROVE UnescapeCsv(t) \in Text
<1> DEFINE u == SubSeq(t, 2, Len(t) - 1)
           pair == <<"quote", "quote">>
           q == "quote"
<1>1. q \in Chars
  BY CharsAssumption
<1>2. t # <<>> => u \in Text
  <2>1. t \in Seq(Chars) /\ Len(t) \in Nat /\ (t # <<>> => Len(t) # 0)
    BY EmptySeq DEF Text
  <2>2. ASSUME t # <<>> PROVE u \in Seq(Chars)
    <3>1. \A i \in 2..Len(t) - 1 : t[i] \in Chars
      BY <2>1
    <3> QED
      BY <2>1, <2>2, <3>1, SubSeqProperties
  <2> QED
    BY <2>2 DEF Text
<1>3. UnescapeCsv(t) = Collapsed(u, pair, q) \/ UnescapeCsv(t) = t
  BY DEF UnescapeCsv
<1>4. UnescapeCsv(t) # t => t # <<>> /\ UnescapeCsv(t) = Collapsed(u, pair, q)
  BY DEF UnescapeCsv
<1> HIDE DEF u, pair, q
<1>5. u \in Text => Collapsed(u, pair, q) \in Text
  BY <1>1, CollapsedText
<1> QED
  BY <1>2, <1>4, <1>5

\* Two quotation marks follow one another at i.
Doubled(line, i) == PairAt(line, i, <<"quote", "quote">>)

\* The state of CsvFields' loop, its step and its run.
CsvState == [fields : Seq(Text), current : Text, quoted : BOOLEAN, skip : BOOLEAN]
CsvStep(s, line, i) ==
    IF s.skip THEN [s EXCEPT !.skip = FALSE]
    ELSE IF line[i] = "quote" /\ s.quoted /\ Doubled(line, i)
    THEN [s EXCEPT !.current = Append(@, "quote"), !.skip = TRUE]
    ELSE IF line[i] = "comma" /\ ~s.quoted
    THEN [s EXCEPT !.fields = Append(@, UnescapeCsv(s.current)), !.current = <<>>]
    ELSE [s EXCEPT !.current = Append(@, line[i]),
                   !.quoted = IF line[i] = "quote" THEN ~@ ELSE @]

CsvLoop(g, line) ==
    g = [i \in 0..Len(line) |->
            IF i = 0 THEN [fields |-> <<>>, current |-> <<>>, quoted |-> FALSE, skip |-> FALSE]
            ELSE CsvStep(g[i - 1], line, i)]

\* What step i makes of s.
CsvTakes(s, t, line, i) ==
    /\ s.skip =>
          /\ t.fields = s.fields /\ t.current = s.current
          /\ (t.quoted <=> s.quoted) /\ ~t.skip
    /\ ~s.skip /\ line[i] = "quote" /\ s.quoted /\ Doubled(line, i) =>
          /\ t.fields = s.fields /\ t.current = Append(s.current, "quote")
          /\ t.quoted /\ t.skip
    /\ ~s.skip /\ line[i] = "quote" /\ ~(s.quoted /\ Doubled(line, i)) =>
          /\ t.fields = s.fields /\ t.current = Append(s.current, "quote")
          /\ (t.quoted <=> ~s.quoted) /\ ~t.skip
    /\ ~s.skip /\ line[i] = "comma" /\ ~s.quoted =>
          /\ t.fields = Append(s.fields, UnescapeCsv(s.current)) /\ t.current = <<>>
          /\ ~t.quoted /\ ~t.skip
    /\ ~s.skip /\ line[i] # "quote" /\ ~(line[i] = "comma" /\ ~s.quoted) =>
          /\ t.fields = s.fields /\ t.current = Append(s.current, line[i])
          /\ (t.quoted <=> s.quoted) /\ ~t.skip

\* The states of the loop, and what CsvFields makes of the last one.
Scanning(g, line) ==
    /\ \A i \in 0..Len(line) : g[i].fields \in Seq(Text) /\ g[i].current \in Text
    /\ g[0].fields = <<>> /\ g[0].current = <<>> /\ ~g[0].quoted /\ ~g[0].skip
    /\ \A i \in 1..Len(line) : CsvTakes(g[i - 1], g[i], line, i)
    /\ CsvFields(line) = Append(g[Len(line)].fields, UnescapeCsv(g[Len(line)].current))

\* A step is what is said of it.
LEMMA CsvSteps ==
    ASSUME NEW line \in Text, NEW i \in 1..Len(line),
           NEW s \in CsvState, NEW t, t = CsvStep(s, line, i)
    PROVE  t \in CsvState /\ CsvTakes(s, t, line, i)
<1> DEFINE c == line[i]
           q == "quote"
           w == Append(s.current, c)
           f == Append(s.fields, UnescapeCsv(s.current))
           b == IF c = "quote" THEN ~s.quoted ELSE s.quoted
           e == <<>>
<1>1. /\ s.fields \in Seq(Text) /\ s.current \in Text
      /\ s.quoted \in BOOLEAN /\ s.skip \in BOOLEAN /\ c \in Chars
  BY DEF CsvState, Text
<1>2. w \in Text /\ Append(s.current, q) \in Text /\ e \in Text
  <2>1. q \in Chars
    BY CharsAssumption
  <2> QED
    BY <1>1, <2>1 DEF Text
<1>3. f \in Seq(Text)
  <2>1. UnescapeCsv(s.current) \in Text
    BY <1>1, UnescapeCsvText
  <2> QED
    BY <1>1, <2>1
<1>b. t = IF s.skip THEN [s EXCEPT !.skip = FALSE]
          ELSE IF c = "quote" /\ s.quoted /\ Doubled(line, i)
          THEN [s EXCEPT !.current = Append(s.current, q), !.skip = TRUE]
          ELSE IF c = "comma" /\ ~s.quoted
          THEN [s EXCEPT !.fields = f, !.current = e]
          ELSE [s EXCEPT !.current = w, !.quoted = b]
  BY DEF CsvStep
<1>c. b \in BOOLEAN /\ (c = "quote" => (b <=> ~s.quoted)) /\ (c # "quote" => (b <=> s.quoted))
  BY <1>1
<1> HIDE DEF c, w, f, b, e, q
<1>4. CASE s.skip
  <2>1. t = [s EXCEPT !.skip = FALSE]
    BY <1>b, <1>4
  <2>2. /\ t \in CsvState /\ t.fields = s.fields /\ t.current = s.current
        /\ t.quoted = s.quoted /\ t.skip = FALSE
    BY <2>1 DEF CsvState
  <2> QED
    BY <1>1, <1>4, <2>2 DEF CsvTakes
<1>5. CASE ~s.skip /\ c = "quote" /\ s.quoted /\ Doubled(line, i)
  <2>1. t = [s EXCEPT !.current = Append(s.current, q), !.skip = TRUE]
    BY <1>b, <1>5
  <2>2. /\ t \in CsvState /\ t.fields = s.fields /\ t.current = Append(s.current, q)
        /\ t.quoted = s.quoted /\ t.skip = TRUE
    BY <1>2, <2>1 DEF CsvState
  <2> QED
    BY <1>1, <1>5, <2>2 DEF CsvTakes, c, q
<1>6. CASE ~s.skip /\ c = "comma" /\ ~s.quoted
  <2>1. t = [s EXCEPT !.fields = f, !.current = e]
    BY <1>b, <1>6
  <2>2. /\ t \in CsvState /\ t.fields = f /\ t.current = e
        /\ t.quoted = s.quoted /\ t.skip = s.skip
    BY <1>2, <1>3, <2>1 DEF CsvState
  <2> QED
    BY <1>1, <1>6, <2>2 DEF CsvTakes, c, f, e
<1>7. CASE ~s.skip /\ ~(c = "quote" /\ s.quoted /\ Doubled(line, i)) /\ ~(c = "comma" /\ ~s.quoted)
  <2>1. t = [s EXCEPT !.current = w, !.quoted = b]
    BY <1>b, <1>7
  <2>2. /\ t \in CsvState /\ t.fields = s.fields /\ t.current = w
        /\ t.quoted = b /\ t.skip = s.skip
    BY <1>2, <1>c, <2>1 DEF CsvState
  <2>3. CASE c = "quote"
    BY <1>1, <1>7, <1>c, <2>2, <2>3 DEF CsvTakes, c, w
  <2>4. CASE c # "quote"
    BY <1>1, <1>7, <1>c, <2>2, <2>4 DEF CsvTakes, c, w
  <2> QED
    BY <2>3, <2>4
<1> QED
  BY <1>4, <1>5, <1>6, <1>7

\* The loop has a run.
LEMMA CsvLoops == ASSUME NEW line \in Text PROVE \E g : CsvLoop(g, line)
<1> DEFINE N == Len(line)
           z == [fields |-> <<>>, current |-> <<>>, quoted |-> FALSE, skip |-> FALSE]
           Q == CsvState
           G == [i \in 1..N |-> [s \in Q |-> CsvStep(s, line, i)]]
<1>1. z \in Q /\ N \in Nat
  BY DEF CsvState, Text
<1> HIDE DEF z, Q
<1>2. G \in [1..N -> [Q -> Q]]
  <2>1. \A i \in 1..N, s \in Q : CsvStep(s, line, i) \in Q
    BY CsvSteps DEF Q
  <2> QED
    BY <2>1
<1>3. \A i \in 1..N, s \in Q : G[i][s] = CsvStep(s, line, i)
  OBVIOUS
<1> HIDE DEF G, N
<1>4. PICK f : RunOf(f, Q, z, N, G)
  BY <1>1, <1>2, Runs
<1>5. f \in [0..N -> Q] /\ f[0] = z /\ \A i \in 1..N : f[i] = G[i][f[i - 1]]
  BY <1>4 DEF RunOf
<1>6. ASSUME NEW i \in 0..N PROVE f[i] = IF i = 0 THEN z ELSE CsvStep(f[i - 1], line, i)
  <2>1. CASE i = 0
    BY <1>5, <2>1
  <2>2. CASE i # 0
    <3>1. i \in 1..N /\ f[i - 1] \in Q
      BY <1>1, <1>5, <2>2
    <3> QED
      BY <1>3, <1>5, <2>2, <3>1
  <2> QED
    BY <2>1, <2>2
<1>7. f = [i \in 0..N |-> IF i = 0 THEN z ELSE CsvStep(f[i - 1], line, i)]
  BY <1>5, <1>6
<1> QED
  BY <1>7 DEF CsvLoop, N, z

\* CsvFields is where its loop ends, with the last field.
LEMMA CsvFieldsIs ==
    ASSUME NEW line
    PROVE  CsvFields(line) = LET g == (CHOOSE h : CsvLoop(h, line))[Len(line)]
                             IN Append(g.fields, UnescapeCsv(g.current))
BY DEF CsvFields, CsvLoop, CsvStep, Doubled

\* There is a run of states of which all this can be said.
LEMMA CsvFieldsRuns == ASSUME NEW line \in Text PROVE \E g : Scanning(g, line)
<1> DEFINE g == CHOOSE h : CsvLoop(h, line)
           N == Len(line)
           z == [fields |-> <<>>, current |-> <<>>, quoted |-> FALSE, skip |-> FALSE]
<1>1. CsvLoop(g, line)
  BY CsvLoops
<1>2. CsvFields(line) = Append(g[N].fields, UnescapeCsv(g[N].current))
  BY CsvFieldsIs
<1>3. N \in Nat
  BY DEF Text
<1> HIDE DEF g
<1>4. \A i \in 0..N : g[i] = IF i = 0 THEN z ELSE CsvStep(g[i - 1], line, i)
  <2> DEFINE V(i) == IF i = 0 THEN z ELSE CsvStep(g[i - 1], line, i)
  <2>1. g = [i \in 0..N |-> V(i)]
    BY <1>1 DEF CsvLoop
  <2> HIDE DEF V
  <2>2. \A i \in 0..N : g[i] = V(i)
    BY <2>1
  <2> QED
    BY <2>2 DEF V
<1>5. \A i \in 1..N : g[i] = CsvStep(g[i - 1], line, i)
  <2> HIDE DEF z
  <2> QED
    BY <1>3, <1>4
<1>6. g[0] = z
  BY <1>3, <1>4
<1> DEFINE T == {i \in 0..N : g[i] \in CsvState}
<1>7. 0 \in T
  <2>1. z \in CsvState
    BY DEF CsvState, Text
  <2> HIDE DEF z
  <2> QED
    BY <1>3, <1>6, <2>1
<1>8. ASSUME NEW i \in 1..N, i - 1 \in T PROVE i \in T
  <2>1. g[i - 1] \in CsvState
    BY <1>8
  <2>2. g[i] \in CsvState
    BY <1>5, <2>1, CsvSteps
  <2> QED
    BY <2>2
<1> HIDE DEF T
<1>9. \A i \in 0..N : i \in T
  BY <1>3, <1>7, <1>8, Along
<1>10. \A i \in 0..N : g[i] \in CsvState
  BY <1>9 DEF T
<1>11. ASSUME NEW i \in 1..N PROVE CsvTakes(g[i - 1], g[i], line, i)
  <2>1. g[i - 1] \in CsvState
    BY <1>3, <1>10
  <2> QED
    BY <1>5, <2>1, CsvSteps
<1>12. \A i \in 0..N : g[i].fields \in Seq(Text) /\ g[i].current \in Text
  BY <1>10 DEF CsvState
<1>13. g[0].fields = <<>> /\ g[0].current = <<>> /\ ~g[0].quoted /\ ~g[0].skip
  BY <1>6
<1> QED
  BY <1>2, <1>11, <1>12, <1>13 DEF Scanning

\* The fields of a text are texts.
LEMMA CsvFieldsTexts == ASSUME NEW line \in Text PROVE CsvFields(line) \in Seq(Text)
<1>1. PICK g : Scanning(g, line)
  BY CsvFieldsRuns
<1> DEFINE e == g[Len(line)]
<1>2. Len(line) \in 0..Len(line)
  BY DEF Text
<1>3. e.fields \in Seq(Text) /\ e.current \in Text
  BY <1>1, <1>2 DEF Scanning
<1>4. CsvFields(line) = Append(e.fields, UnescapeCsv(e.current))
  BY <1>1 DEF Scanning
<1> HIDE DEF e
<1>5. UnescapeCsv(e.current) \in Text
  BY <1>3, UnescapeCsvText
<1> QED
  BY <1>3, <1>4, <1>5

\* After i characters there are the fields fs, and c of the next one.
CsvAt(g, i, fs, c, q) ==
    g[i].fields = fs /\ g[i].current = c /\ (g[i].quoted <=> q) /\ ~g[i].skip

\* One step of the run.
LEMMA CsvOne ==
    ASSUME NEW line \in Text, NEW g, Scanning(g, line), NEW i \in Nat, i + 1 <= Len(line)
    PROVE  CsvTakes(g[i], g[i + 1], line, i + 1)
<1>1. Len(line) \in Nat
  BY DEF Text
<1>2. i + 1 \in 1..Len(line) /\ (i + 1) - 1 = i
  BY <1>1
<1>3. CsvTakes(g[(i + 1) - 1], g[i + 1], line, i + 1)
  BY <1>2 DEF Scanning
<1> QED
  BY <1>2, <1>3

\* A character that is neither a quotation mark nor an open comma joins the field.
LEMMA CsvPlain ==
    ASSUME NEW line \in Text, NEW g, Scanning(g, line), NEW i \in Nat, i + 1 <= Len(line),
           NEW fs, NEW c, NEW q \in BOOLEAN, CsvAt(g, i, fs, c, q),
           line[i + 1] # "quote", q \/ line[i + 1] # "comma"
    PROVE  CsvAt(g, i + 1, fs, Append(c, line[i + 1]), q)
<1>1. CsvTakes(g[i], g[i + 1], line, i + 1)
  BY CsvOne
<1> QED
  BY <1>1 DEF CsvTakes, CsvAt

\* A comma outside quotation marks ends the field.
LEMMA CsvComma ==
    ASSUME NEW line \in Text, NEW g, Scanning(g, line), NEW i \in Nat, i + 1 <= Len(line),
           NEW fs, NEW c, CsvAt(g, i, fs, c, FALSE), line[i + 1] = "comma"
    PROVE  CsvAt(g, i + 1, Append(fs, UnescapeCsv(c)), <<>>, FALSE)
<1>1. CsvTakes(g[i], g[i + 1], line, i + 1)
  BY CsvOne
<1> QED
  BY <1>1 DEF CsvTakes, CsvAt

\* A quotation mark outside of others opens them.
LEMMA CsvOpens ==
    ASSUME NEW line \in Text, NEW g, Scanning(g, line), NEW i \in Nat, i + 1 <= Len(line),
           NEW fs, NEW c, CsvAt(g, i, fs, c, FALSE), line[i + 1] = "quote"
    PROVE  CsvAt(g, i + 1, fs, Append(c, "quote"), TRUE)
<1>1. CsvTakes(g[i], g[i + 1], line, i + 1)
  BY CsvOne
<1> QED
  BY <1>1 DEF CsvTakes, CsvAt

\* One inside closes them, unless another follows.
LEMMA CsvCloses ==
    ASSUME NEW line \in Text, NEW g, Scanning(g, line), NEW i \in Nat, i + 1 <= Len(line),
           NEW fs, NEW c, CsvAt(g, i, fs, c, TRUE), line[i + 1] = "quote",
           i + 1 = Len(line) \/ line[i + 2] # "quote"
    PROVE  CsvAt(g, i + 1, fs, Append(c, "quote"), FALSE)
<1>1. CsvTakes(g[i], g[i + 1], line, i + 1)
  BY CsvOne
<1>2. ~Doubled(line, i + 1)
  <2>1. (i + 1) + 1 = i + 2 /\ Len(line) \in Nat
    BY DEF Text
  <2>2. <<line[i + 1], line[i + 2]>> = <<"quote", "quote">> => line[i + 2] = "quote"
    OBVIOUS
  <2> QED
    BY <2>1, <2>2 DEF Doubled, PairAt
<1> QED
  BY <1>1, <1>2 DEF CsvTakes, CsvAt

\* Two inside are read as one.
LEMMA CsvDoubles ==
    ASSUME NEW line \in Text, NEW g, Scanning(g, line), NEW i \in Nat, i + 2 <= Len(line),
           NEW fs, NEW c, CsvAt(g, i, fs, c, TRUE),
           line[i + 1] = "quote", line[i + 2] = "quote"
    PROVE  CsvAt(g, i + 2, fs, Append(c, "quote"), TRUE)
<1>0. (i + 1) + 1 = i + 2 /\ Len(line) \in Nat /\ i + 1 \in Nat /\ i + 1 <= Len(line)
  BY DEF Text
<1>1. CsvTakes(g[i], g[i + 1], line, i + 1)
  BY <1>0, CsvOne
<1>2. Doubled(line, i + 1)
  BY <1>0 DEF Doubled, PairAt
<1>3. CsvTakes(g[i + 1], g[i + 2], line, i + 2)
  <2> DEFINE k == i + 1
  <2>1. k \in Nat /\ k + 1 <= Len(line) /\ k + 1 = i + 2
    BY <1>0
  <2> HIDE DEF k
  <2>2. CsvTakes(g[k], g[k + 1], line, k + 1)
    BY <2>1, CsvOne
  <2> QED
    BY <2>1, <2>2 DEF k
<1>4. /\ g[i + 1].fields = fs /\ g[i + 1].current = Append(c, "quote")
      /\ g[i + 1].quoted /\ g[i + 1].skip
  BY <1>1, <1>2 DEF CsvTakes, CsvAt
<1> QED
  BY <1>3, <1>4 DEF CsvTakes, CsvAt

\* A field that is written between quotation marks, and what is read of it before
\* UnescapeCsv and after.
Special(t) == \E c \in {"comma", "quote", "newline"} : Has(t, c)
Raw(t) == IF Special(t) THEN Append(<<"quote">> \o t, "quote") ELSE t
Value(t) == IF Special(t) THEN Collapsed(t, <<"quote", "quote">>, "quote") ELSE t

\* Quotation marks are doubled.
QuoteEscape == [quote |-> <<"quote", "quote">>]

\* What doubling quotation marks makes of each character.
LEMMA QuoteEscapes ==
    /\ IsEscape(QuoteEscape)
    /\ Esc("quote", QuoteEscape) = <<"quote", "quote">>
    /\ \A c : c # "quote" => Esc(c, QuoteEscape) = <<c>>
<1>1. DOMAIN QuoteEscape = {"quote"} /\ QuoteEscape["quote"] = <<"quote", "quote">>
  BY DEF QuoteEscape
<1>2. <<"quote", "quote">> \in Text
  <2>1. "quote" \in Chars
    BY CharsAssumption
  <2> QED
    BY <2>1 DEF Text
<1>3. IsEscape(QuoteEscape)
  BY <1>1, <1>2 DEF IsEscape
<1>4. \A c : c # "quote" => Esc(c, QuoteEscape) = <<c>>
  BY <1>1 DEF Esc
<1> QED
  BY <1>1, <1>3, <1>4 DEF Esc

\* CsvField is that, between quotation marks, of a text that needs it.
LEMMA CsvFieldIs ==
    ASSUME NEW t
    PROVE  CsvField(t) = IF Special(t) THEN <<"quote">> \o Escaped(t, QuoteEscape) \o <<"quote">>
                         ELSE t
BY DEF CsvField, Special, QuoteEscape

\* A field is a text.
LEMMA CsvFieldText == ASSUME NEW t \in Text PROVE CsvField(t) \in Text
<1>1. Escaped(t, QuoteEscape) \in Text
  BY QuoteEscapes, EscapedText
<1>2. "quote" \in Chars
  BY CharsAssumption
<1>3. <<"quote">> \o Escaped(t, QuoteEscape) \o <<"quote">> \in Text
  BY <1>1, <1>2 DEF Text
<1> QED
  BY <1>3, CsvFieldIs

\* A text of one line is a field of one line.
LEMMA CsvFieldFree ==
    ASSUME NEW t \in Text, ~Has(t, "newline")
    PROVE  Lacks(CsvField(t), "newline")
<1> DEFINE w == Escaped(t, QuoteEscape)
           e == QuoteEscape
           b == "newline"
<1>1. Lacks(t, b)
  BY FreeIsNotHas
<1>2. Lacks(w, b) /\ w \in Seq(Chars)
  <2>1. IsEscape(e)
    BY QuoteEscapes
  <2>2. ASSUME NEW d, d # b PROVE Lacks(Esc(d, e), b)
    <3>1. Esc(d, e) = <<"quote", "quote">> \/ Esc(d, e) = <<d>>
      BY QuoteEscapes
    <3> QED
      BY <2>2, <3>1 DEF Lacks
  <2>3. Escaped(t, e) \in Text
    BY <2>1, EscapedText
  <2> HIDE DEF e, b
  <2>4. Lacks(Escaped(t, e), b)
    BY <1>1, <2>1, <2>2, EscapedFree
  <2> QED
    BY <2>3, <2>4 DEF e, Text
<1> HIDE DEF w
<1>3. "quote" \in Chars
  BY CharsAssumption
<1>4. Lacks(<<"quote">> \o w \o <<"quote">>, b)
  BY <1>2, <1>3 DEF Lacks
<1> QED
  BY <1>1, <1>4, CsvFieldIs DEF w

\* What is left of a field, and when it is the text itself.
LEMMA ValueText ==
    ASSUME NEW t \in Text
    PROVE  /\ Value(t) \in Text /\ (Value(t) = <<>> <=> t = <<>>)
           /\ ~HasPair(t, <<"quote", "quote">>) => Value(t) = t
<1> DEFINE q == "quote"
           pair == <<"quote", "quote">>
<1>1. q \in Chars
  BY CharsAssumption
<1>2. Value(t) = t \/ Value(t) = Collapsed(t, pair, q)
  BY DEF Value
<1> HIDE DEF q, pair
<1>3. /\ Collapsed(t, pair, q) \in Text /\ (Collapsed(t, pair, q) = <<>> <=> t = <<>>)
      /\ ~HasPair(t, pair) => Collapsed(t, pair, q) = t
  BY <1>1, CollapsedText, CollapsedEmpty, CollapsedSame
<1> QED
  BY <1>2, <1>3 DEF pair

\* UnescapeCsv of the raw field is the value.
LEMMA UnescapesRaw == ASSUME NEW t \in Text PROVE UnescapeCsv(Raw(t)) = Value(t)
<1>0. "quote" \in Chars
  BY CharsAssumption
<1>1. t \in Seq(Chars) /\ Len(t) \in Nat /\ "quote" \in Chars
  BY <1>0 DEF Text
<1>2. CASE Special(t)
  <2> DEFINE r == Append(<<"quote">> \o t, "quote")
             u == SubSeq(r, 2, Len(r) - 1)
  <2>1. /\ r \in Seq(Chars) /\ Len(r) = Len(t) + 2 /\ r[1] = "quote" /\ r[Len(t) + 2] = "quote"
        /\ \A i \in 1..Len(t) : r[i + 1] = t[i]
    BY <1>1
  <2> HIDE DEF r
  <2>2. r # <<>> /\ Head(r) = "quote" /\ Last(r) = "quote"
    <3>1. Len(r) # 0 /\ 1 \in 1..Len(r)
      BY <1>1, <2>1
    <3>2. r # <<>>
      BY <2>1, <3>1, EmptySeq
    <3> QED
      BY <2>1, <3>1, <3>2 DEF Last
  <2>3. u \in Seq(Chars) /\ Len(u) = Len(t) /\ \A i \in 1..Len(t) : u[i] = r[i + 1]
    <3>1. \A i \in 2..Len(r) - 1 : r[i] \in Chars
      BY <2>1
    <3>2. 2 \in Nat /\ 2 \in Int /\ Len(r) - 1 = Len(t) + 1 /\ Len(r) \in Nat
      BY <1>1, <2>1
    <3>3. /\ u \in Seq(Chars) /\ Len(u) = Len(t)
          /\ \A i \in 1..Len(t) : u[i] = r[2 + i - 1]
      BY <1>1, <3>1, <3>2, SubSeqProperties
    <3>4. \A i \in 1..Len(t) : 2 + i - 1 = i + 1
      BY <1>1
    <3> QED
      BY <3>3, <3>4
  <2> HIDE DEF u
  <2>4. \A i \in 1..Len(t) : u[i] = t[i]
    BY <2>1, <2>3
  <2>5. u = t
    BY <1>1, <2>3, <2>4, SeqEqual
  <2>6. UnescapeCsv(r) = Collapsed(u, <<"quote", "quote">>, "quote")
    BY <2>2 DEF UnescapeCsv, u
  <2>7. Raw(t) = r
    BY <1>2 DEF Raw, r
  <2> QED
    BY <1>2, <2>5, <2>6, <2>7 DEF Value
<1>3. CASE ~Special(t)
  <2>1. Raw(t) = t /\ Value(t) = t
    BY <1>3 DEF Raw, Value
  <2>2. t # <<>> => Head(t) # "quote"
    <3>1. ~Has(t, "quote")
      BY <1>3 DEF Special
    <3>2. Lacks(t, "quote")
      BY <3>1, FreeIsNotHas
    <3>3. t # <<>> => 1 \in 1..Len(t) /\ Head(t) = t[1]
      BY <1>1, EmptySeq
    <3> QED
      BY <3>2, <3>3 DEF Lacks
  <2>3. UnescapeCsv(t) = t
    BY <2>2 DEF UnescapeCsv
  <2> QED
    BY <2>1, <2>3
<1> QED
  BY <1>2, <1>3

\* At the end of the line or before a comma.
Ends(line, p) == p = Len(line) \/ line[p + 1] = "comma"

\* A field that needs no quotation marks is read as it is.
LEMMA ScansBare ==
    ASSUME NEW line \in Text, NEW g, Scanning(g, line), NEW p \in Nat, NEW t \in Text,
           ~Special(t), At(line, p, t), NEW fs, CsvAt(g, p, fs, <<>>, FALSE)
    PROVE  CsvAt(g, p + Len(t), fs, t, FALSE)
<1> DEFINE N == Len(t)
           F(k) == UpTo(t, k)
           q == FALSE
           T == {k \in 0..N : CsvAt(g, p + k, fs, F(k), q)}
<1>1. N \in Nat /\ Len(line) \in Nat
  BY DEF Text
<1>2. /\ UpTo(t, 0) = <<>> /\ UpTo(t, N) = t
      /\ \A k \in 0..N - 1 : /\ UpTo(t, k) \in Text /\ t[k + 1] \in Chars
                             /\ UpTo(t, k + 1) = Append(UpTo(t, k), t[k + 1])
  BY Fronts DEF Text
<1>3. Lacks(t, "quote") /\ Lacks(t, "comma")
  BY FreeIsNotHas DEF Special
<1>4. 0 \in T
  <2>a. F(0) = <<>> /\ p + 0 = p
    BY <1>2
  <2> HIDE DEF F
  <2>1. p + 0 = p /\ CsvAt(g, p, fs, F(0), q)
    BY <2>a
  <2> HIDE DEF q
  <2> QED
    BY <1>1, <2>1
<1>5. q \in BOOLEAN /\ ~q
  OBVIOUS
<1> HIDE DEF q
<1>6. ASSUME NEW k \in 1..N, k - 1 \in T PROVE k \in T
  <2> DEFINE i == p + (k - 1)
             c == F(k - 1)
  <2>1. /\ i \in Nat /\ i + 1 = p + k /\ i + 1 <= Len(line) /\ k \in 0..N
        /\ k - 1 \in 0..N - 1 /\ (k - 1) + 1 = k
    BY <1>1 DEF At
  <2>2. line[i + 1] = t[k] /\ line[i + 1] # "quote" /\ line[i + 1] # "comma"
    <3>1. line[p + k] = t[k]
      BY DEF At
    <3> HIDE DEF i
    <3> QED
      BY <1>3, <2>1, <3>1 DEF Lacks
  <2>3. F(k) = Append(c, t[k])
    BY <1>2, <2>1
  <2>4. CsvAt(g, i, fs, c, q)
    BY <1>6
  <2> HIDE DEF i, c, F, T
  <2>5. CsvAt(g, i + 1, fs, Append(c, line[i + 1]), q)
    BY <1>5, <2>1, <2>2, <2>4, CsvPlain
  <2>6. CsvAt(g, p + k, fs, F(k), q)
    BY <2>1, <2>2, <2>3, <2>5
  <2> QED
    BY <2>1, <2>6 DEF T
<1> HIDE DEF T
<1>7. \A k \in 0..N : k \in T
  BY <1>1, <1>4, <1>6, Along
<1>8. CsvAt(g, p + N, fs, F(N), q)
  BY <1>1, <1>7 DEF T
<1> QED
  BY <1>2, <1>8 DEF q

\* Inside quotation marks the text with doubled ones is read as the text.
LEMMA ScansQuoted ==
    ASSUME NEW line \in Text, NEW g, Scanning(g, line), NEW p \in Nat, NEW t \in Text,
           At(line, p, Escaped(t, QuoteEscape)), NEW fs, CsvAt(g, p, fs, <<"quote">>, TRUE)
    PROVE  CsvAt(g, p + Len(Escaped(t, QuoteEscape)), fs, <<"quote">> \o t, TRUE)
<1> DEFINE N == Len(t)
           e == QuoteEscape
           w == Escaped(t, e)
           M(k) == Mark(t, e, k)
           F(k) == <<"quote">> \o UpTo(t, k)
           q == TRUE
           T == {k \in 0..N : M(k) \in Nat /\ CsvAt(g, p + M(k), fs, F(k), q)}
<1>0. "quote" \in Chars
  BY CharsAssumption
<1>1. N \in Nat /\ Len(line) \in Nat /\ "quote" \in Chars
  BY <1>0 DEF Text
<1>2. /\ IsEscape(e) /\ Esc("quote", e) = <<"quote", "quote">>
      /\ \A c : c # "quote" => Esc(c, e) = <<c>>
  BY QuoteEscapes
<1>a. At(line, p, w)
  OBVIOUS
<1> HIDE DEF e
<1>3. EscapesAt(line, p, t, e)
  BY <1>2, <1>a, EscapesThere
<1>4. /\ UpTo(t, 0) = <<>> /\ UpTo(t, N) = t
      /\ \A k \in 0..N - 1 : /\ UpTo(t, k) \in Text /\ t[k + 1] \in Chars
                             /\ UpTo(t, k + 1) = Append(UpTo(t, k), t[k + 1])
  BY Fronts DEF Text
<1>5. /\ F(0) = <<"quote">> /\ F(N) = <<"quote">> \o t
      /\ \A k \in 0..N - 1 : F(k + 1) = Append(F(k), t[k + 1])
  <2>1. F(0) = <<"quote">> /\ F(N) = <<"quote">> \o t
    <3>1. <<"quote">> \in Seq(Chars)
      BY <1>1
    <3>2. <<"quote">> \o <<>> = <<"quote">>
      <4> DEFINE a == <<"quote">>
      <4>1. a \in Seq(Chars)
        BY <3>1
      <4> HIDE DEF a
      <4>2. a \o <<>> = a
        BY <4>1, ConcatEmptySeq
      <4> QED
        BY <4>2 DEF a
    <3> QED
      BY <1>4, <3>2
  <2>2. ASSUME NEW k \in 0..N - 1 PROVE F(k + 1) = Append(F(k), t[k + 1])
    <3> DEFINE u == UpTo(t, k)
               c == t[k + 1]
    <3>1. u \in Seq(Chars) /\ c \in Chars /\ UpTo(t, k + 1) = Append(u, c)
      BY <1>4 DEF Text
    <3> HIDE DEF u, c
    <3>2. <<"quote">> \o Append(u, c) = Append(<<"quote">> \o u, c)
      BY <1>1, <3>1
    <3> QED
      BY <3>1, <3>2 DEF u, c
  <2> QED
    BY <2>1, <2>2
<1>6. q \in BOOLEAN /\ q
  OBVIOUS
<1>7. 0 \in T
  <2>1. M(0) = 0 /\ p + 0 = p
    BY <1>3 DEF EscapesAt
  <2> HIDE DEF M
  <2>a. F(0) = <<"quote">>
    BY <1>5
  <2> HIDE DEF F
  <2>2. CsvAt(g, p + M(0), fs, F(0), q)
    BY <2>1, <2>a
  <2> HIDE DEF q
  <2> QED
    BY <1>1, <2>1, <2>2
<1> HIDE DEF F
<1>8. ASSUME NEW k \in 1..N, k - 1 \in T PROVE k \in T
  <2> DEFINE j == k - 1
             d == t[k]
             m == M(j)
             i == p + m
             c == F(j)
  <2>1. j \in 0..N - 1 /\ j + 1 = k /\ k \in 0..N
    BY <1>1
  <2>2. m \in Nat /\ M(k) = m + Len(Esc(d, e)) /\ At(line, i, Esc(d, e))
    <3>1. /\ M(j) \in Nat /\ M(j + 1) = M(j) + Len(Esc(t[j + 1], e))
          /\ At(line, p + M(j), Esc(t[j + 1], e))
      BY <1>3, <2>1 DEF EscapesAt
    <3> HIDE DEF M
    <3> QED
      BY <2>1, <3>1
  <2>3. F(k) = Append(c, d)
    <3>1. F(j + 1) = Append(F(j), t[j + 1])
      BY <1>5, <2>1
    <3> QED
      BY <2>1, <3>1
  <2>4. CsvAt(g, i, fs, c, q)
    BY <1>8
  <2>5. i \in Nat /\ p + m = i
    BY <2>2
  <2> HIDE DEF T, M, j, m, i, c, q
  <2>6. CASE d = "quote"
    <3>1. Esc(d, e) = <<"quote", "quote">>
      BY <1>2, <2>6
    <3>2. Len(Esc(d, e)) = 2 /\ i + 2 <= Len(line) /\ line[i + 1] = "quote" /\ line[i + 2] = "quote"
      BY <2>2, <3>1 DEF At
    <3>3. CsvAt(g, i + 2, fs, Append(c, d), q)
      <4>1. q = TRUE
        BY DEF q
      <4> QED
        BY <2>4, <2>5, <2>6, <3>2, <4>1, CsvDoubles
    <3>4. M(k) = m + 2 /\ m + 2 \in Nat /\ p + (m + 2) = i + 2
      BY <2>2, <2>5, <3>2
    <3> QED
      BY <2>1, <2>3, <3>3, <3>4 DEF T
  <2>7. CASE d # "quote"
    <3>1. Esc(d, e) = <<d>>
      BY <1>2, <2>7
    <3>2. Len(Esc(d, e)) = 1 /\ i + 1 <= Len(line) /\ line[i + 1] = d
      BY <2>2, <3>1 DEF At
    <3>3. CsvAt(g, i + 1, fs, Append(c, line[i + 1]), q)
      BY <1>6, <2>4, <2>5, <2>7, <3>2, CsvPlain
    <3>4. M(k) = m + 1 /\ m + 1 \in Nat /\ p + (m + 1) = i + 1
      BY <2>2, <2>5, <3>2
    <3> QED
      BY <2>1, <2>3, <3>2, <3>3, <3>4 DEF T
  <2> QED
    BY <2>6, <2>7
<1> HIDE DEF T
<1>9. \A k \in 0..N : k \in T
  BY <1>1, <1>7, <1>8, Along
<1>10. N \in T
  BY <1>1, <1>9
<1>11. M(N) = Len(w)
  BY <1>3 DEF EscapesAt
<1> HIDE DEF M
<1>12. CsvAt(g, p + Len(w), fs, F(N), q)
  BY <1>10, <1>11 DEF T
<1> QED
  BY <1>5, <1>12 DEF e

\* A field is read as far as it was written.
LEMMA ScansField ==
    ASSUME NEW line \in Text, NEW g, Scanning(g, line), NEW p \in Nat, NEW t \in Text,
           At(line, p, CsvField(t)), Ends(line, p + Len(CsvField(t))),
           NEW fs, CsvAt(g, p, fs, <<>>, FALSE)
    PROVE  CsvAt(g, p + Len(CsvField(t)), fs, Raw(t), FALSE)
<1>1. CASE ~Special(t)
  <2>1. CsvField(t) = t /\ Raw(t) = t
    BY <1>1, CsvFieldIs DEF Raw
  <2> QED
    BY <1>1, <2>1, ScansBare
<1>2. CASE Special(t)
  <2> DEFINE w == Escaped(t, QuoteEscape)
             a == <<"quote">>
             n == Len(w)
  <2>1. w \in Seq(Chars) /\ a \in Seq(Chars) /\ n \in Nat /\ line \in Seq(Chars)
    <3>1. "quote" \in Chars /\ w \in Text
      BY CharsAssumption, QuoteEscapes, EscapedText
    <3> QED
      BY <3>1 DEF Text
  <2>2. CsvField(t) = a \o w \o a /\ Raw(t) = Append(a \o t, "quote")
    BY <1>2, CsvFieldIs DEF Raw
  <2>3. Len(a) = 1 /\ a[1] = "quote"
    OBVIOUS
  <2> HIDE DEF w, a, n
  <2>4. a \o w \in Seq(Chars) /\ Len(a \o w) = n + 1 /\ Len(a \o w \o a) = n + 2
    <3>1. a \o w \in Seq(Chars) /\ Len(a \o w) = Len(a) + Len(w)
      BY <2>1
    <3>2. Len((a \o w) \o a) = Len(a \o w) + Len(a)
      BY <2>1, <3>1
    <3>3. Len(w) = n
      BY DEF n
    <3> QED
      BY <2>1, <2>3, <3>1, <3>2, <3>3
  <2>5. At(line, p, a \o w) /\ At(line, p + (n + 1), a)
    <3>1. At(line, p, (a \o w) \o a)
      BY <2>2
    <3>2. At(line, p, a \o w) /\ At(line, p + Len(a \o w), a)
      BY <2>1, <2>4, <3>1, AtConcat
    <3> QED
      BY <2>4, <3>2
  <2>6. At(line, p, a) /\ At(line, p + 1, w)
    BY <2>1, <2>3, <2>5, AtConcat
  <2>7. CsvAt(g, p + 1, fs, a, TRUE)
    <3> DEFINE c == <<>>
    <3>1. Append(c, "quote") = a
      BY DEF a
    <3>2. p + 1 <= Len(line) /\ line[p + 1] = "quote" /\ CsvAt(g, p, fs, c, FALSE)
      <4>1. 1 \in 1..Len(a)
        BY <2>3
      <4>2. p + Len(a) <= Len(line) /\ line[p + 1] = a[1]
        BY <2>6, <4>1 DEF At
      <4> QED
        BY <2>3, <4>2
    <3> HIDE DEF c
    <3>3. CsvAt(g, p + 1, fs, Append(c, "quote"), TRUE)
      BY <3>2, CsvOpens
    <3> QED
      BY <3>1, <3>3
  <2>8. CsvAt(g, p + 1 + n, fs, a \o t, TRUE)
    <3>1. p + 1 \in Nat
      OBVIOUS
    <3> DEFINE k == p + 1
    <3>2. k \in Nat /\ At(line, k, w) /\ CsvAt(g, k, fs, a, TRUE)
      BY <2>6, <2>7, <3>1
    <3> HIDE DEF k
    <3>3. CsvAt(g, k + Len(Escaped(t, QuoteEscape)), fs, <<"quote">> \o t, TRUE)
      BY <3>2, ScansQuoted DEF w, a
    <3> QED
      BY <3>3 DEF k, w, a, n
  <2>9. CsvAt(g, p + (n + 2), fs, Append(a \o t, "quote"), FALSE)
    <3> DEFINE i == p + 1 + n
               c == a \o t
    <3>1. i \in Nat /\ i = p + (n + 1) /\ i + 1 = p + (n + 2) /\ i + 2 = p + (n + 2) + 1
      BY <2>1
    <3>2. i + 1 <= Len(line) /\ line[i + 1] = "quote"
      <4> HIDE DEF i
      <4> QED
        BY <2>3, <2>5, <3>1 DEF At
    <3>3. i + 1 = Len(line) \/ line[i + 2] # "quote"
      <4>1. p + (n + 2) = Len(line) \/ line[p + (n + 2) + 1] = "comma"
        BY <2>2, <2>4 DEF Ends
      <4> HIDE DEF i
      <4> QED
        BY <3>1, <4>1
    <3>4. CsvAt(g, i, fs, c, TRUE)
      BY <2>8
    <3> HIDE DEF i, c
    <3>5. CsvAt(g, i + 1, fs, Append(c, "quote"), FALSE)
      BY <3>1, <3>2, <3>3, <3>4, CsvCloses
    <3> QED
      BY <3>1, <3>5 DEF c
  <2> QED
    BY <2>2, <2>4, <2>9
<1> QED
  BY <1>1, <1>2

-----------------------------------------------------------------------------
(* An account in CSV *)

\* The text in column k, the fields of an account's line, the last one without the
\* line break, and the line without it.
Cell(a, k) == a[Columns[k]]
RowStart(a) == [k \in 1..5 |-> CsvField(Cell(a, k)) \o <<"comma">>]
RowItems(a) == Append(RowStart(a), CsvField(Cell(a, 6)))
RowText(a) == FlattenSeq(RowItems(a))

\* What Append makes.
Longer(t, s, e) == /\ Len(t) = Len(s) + 1 /\ t[Len(s) + 1] = e
                   /\ \A i \in 1..Len(s) : t[i] = s[i]

\* Append makes a sequence that is longer by the element.
LEMMA Appended ==
    ASSUME NEW S, NEW s \in Seq(S), NEW e \in S
    PROVE  Append(s, e) \in Seq(S) /\ Longer(Append(s, e), s, e)
<1> DEFINE t == Append(s, e)
<1>1. /\ t \in Seq(S) /\ Len(t) = Len(s) + 1 /\ t[Len(s) + 1] = e
      /\ \A i \in 1..Len(s) : t[i] = s[i]
  OBVIOUS
<1> QED
  BY <1>1 DEF Longer

\* The columns by their numbers.
LEMMA ColumnsAre ==
    /\ Len(Columns) = 6 /\ DOMAIN Columns = 1..6
    /\ Columns[1] = "name" /\ Columns[2] = "user" /\ Columns[3] = "password"
    /\ Columns[4] = "email" /\ Columns[5] = "website" /\ Columns[6] = "notes"
BY DEF Columns

\* The cells of an account are its texts.
LEMMA CellsAre ==
    ASSUME NEW a \in Record
    PROVE  /\ Cell(a, 1) = a.name /\ Cell(a, 2) = a.user /\ Cell(a, 3) = a.password
           /\ Cell(a, 4) = a.email /\ Cell(a, 5) = a.website /\ Cell(a, 6) = a.notes
           /\ \A k \in 1..6 : Cell(a, k) \in Text /\ CsvField(Cell(a, k)) \in Text
<1>1. /\ Cell(a, 1) = a.name /\ Cell(a, 2) = a.user /\ Cell(a, 3) = a.password
      /\ Cell(a, 4) = a.email /\ Cell(a, 5) = a.website /\ Cell(a, 6) = a.notes
  BY ColumnsAre DEF Cell
<1>2. ASSUME NEW k \in 1..6 PROVE Cell(a, k) \in Text
  <2>1. k = 1 \/ k = 2 \/ k = 3 \/ k = 4 \/ k = 5 \/ k = 6
    OBVIOUS
  <2> QED
    BY <1>1, <2>1, RecordTexts
<1>3. \A k \in 1..6 : CsvField(Cell(a, k)) \in Text
  BY <1>2, CsvFieldText
<1> QED
  BY <1>1, <1>2, <1>3

\* The fields of the line as texts.
RowOf(a, ss) ==
    /\ ss \in Seq(Text) /\ Len(ss) = 6
    /\ \A k \in 1..5 : ss[k] = CsvField(Cell(a, k)) \o <<"comma">>
    /\ ss[6] = CsvField(Cell(a, 6))

\* The items of a line are texts, and which.
LEMMA RowItemsAre ==
    ASSUME NEW a \in Record
    PROVE  /\ RowStart(a) \in Seq(Text) /\ Len(RowStart(a)) = 5
           /\ RowOf(a, RowItems(a)) /\ RowText(a) \in Text
<1> DEFINE f == RowStart(a)
           l == CsvField(Cell(a, 6))
           r == Append(f, l)
<1>1. \A k \in 1..5 : CsvField(Cell(a, k)) \o <<"comma">> \in Text
  <2>1. "comma" \in Chars
    BY CharsAssumption
  <2>2. ASSUME NEW k \in 1..5 PROVE CsvField(Cell(a, k)) \o <<"comma">> \in Seq(Chars)
    <3> DEFINE u == CsvField(Cell(a, k))
    <3>1. k \in 1..6
      OBVIOUS
    <3>2. u \in Seq(Chars)
      BY <3>1, CellsAre DEF Text
    <3> HIDE DEF u
    <3>3. u \o <<"comma">> \in Seq(Chars)
      BY <2>1, <3>2
    <3> QED
      BY <3>3 DEF u
  <2> QED
    BY <2>2 DEF Text
<1>2. f \in Seq(Text) /\ Len(f) = 5 /\ \A k \in 1..5 : f[k] = CsvField(Cell(a, k)) \o <<"comma">>
  <2> DEFINE V(k) == CsvField(Cell(a, k)) \o <<"comma">>
  <2>1. f = [k \in 1..5 |-> V(k)] /\ \A k \in 1..5 : V(k) \in Text
    BY <1>1 DEF RowStart
  <2> HIDE DEF f, V
  <2>2. f \in Seq(Text) /\ Len(f) = 5 /\ \A k \in 1..5 : f[k] = V(k)
    BY <2>1
  <2> QED
    BY <2>2 DEF V
<1>3. l \in Text
  BY CellsAre
<1> HIDE DEF f, l
<1>4. r \in Seq(Text) /\ Len(r) = 6 /\ r[6] = l /\ \A k \in 1..5 : r[k] = f[k]
  <2>1. r \in Seq(Text) /\ Longer(r, f, l)
    BY <1>2, <1>3, Appended
  <2> HIDE DEF r
  <2> QED
    BY <1>2, <2>1 DEF Longer
<1> HIDE DEF r
<1>5. RowOf(a, r)
  BY <1>2, <1>4 DEF RowOf, l
<1>6. FlattenSeq(r) \in Text
  BY <1>4, FlattenText
<1> QED
  BY <1>2, <1>5, <1>6 DEF RowItems, RowText, f, l, r

\* An account's line is its fields and the line break.
LEMMA CsvLineIs ==
    ASSUME NEW a \in Record
    PROVE  CsvLine(a) = Append(RowText(a), "newline")
<1> DEFINE f == RowStart(a)
           l == CsvField(Cell(a, 6))
           n == <<"newline">>
           ss == [i \in DOMAIN Columns |->
                    CsvField(a[Columns[i]]) \o (IF i < Len(Columns) THEN <<"comma">> ELSE n)]
           tt == Append(f, l \o n)
<1>1. f \in Seq(Seq(Chars)) /\ Len(f) = 5
  BY RowItemsAre DEF Text
<1>2. l \in Seq(Chars) /\ n \in Seq(Chars)
  <2>1. "newline" \in Chars
    BY CharsAssumption
  <2>2. l \in Text
    BY CellsAre
  <2> QED
    BY <2>1, <2>2 DEF Text
<1>3. \A i \in 1..5 : f[i] = CsvField(Cell(a, i)) \o <<"comma">>
  BY DEF RowStart
<1>4. ss = [i \in 1..6 |-> CsvField(Cell(a, i)) \o (IF i < 6 THEN <<"comma">> ELSE n)]
  BY ColumnsAre DEF Cell
<1>5. ss[6] = l \o n /\ \A i \in 1..5 : ss[i] = CsvField(Cell(a, i)) \o <<"comma">>
  <2> DEFINE V(i) == CsvField(Cell(a, i)) \o (IF i < 6 THEN <<"comma">> ELSE n)
  <2>1. ss = [i \in 1..6 |-> V(i)]
    BY <1>4
  <2> HIDE DEF ss, V
  <2>2. ss[6] = V(6) /\ \A i \in 1..5 : ss[i] = V(i)
    BY <2>1
  <2>3. V(6) = l \o n
    BY DEF V
  <2>4. \A i \in 1..5 : V(i) = CsvField(Cell(a, i)) \o <<"comma">>
    BY DEF V
  <2> QED
    BY <2>2, <2>3, <2>4
<1>a. CsvLine(a) = FlattenSeq(ss)
  BY DEF CsvLine
<1>b. ss = [i \in 1..6 |-> ss[i]]
  BY <1>4
<1> HIDE DEF f, l, n, ss
<1>6. l \o n \in Seq(Chars)
  BY <1>2
<1>7. tt \in Seq(Seq(Chars)) /\ Len(tt) = 6 /\ tt[6] = l \o n /\ \A i \in 1..5 : tt[i] = f[i]
  <2> DEFINE m == l \o n
  <2>0. m \in Seq(Chars)
    BY <1>6
  <2> HIDE DEF m
  <2> DEFINE t == Append(f, m)
  <2>1. t \in Seq(Seq(Chars)) /\ Longer(t, f, m)
    BY <1>1, <2>0, Appended
  <2>2. t = tt
    BY DEF m
  <2> HIDE DEF t, tt
  <2> QED
    BY <1>1, <2>1, <2>2 DEF m, Longer
<1> HIDE DEF tt
<1>8. \A i \in 1..6 : ss[i] = tt[i]
  <2>1. ASSUME NEW i \in 1..6 PROVE ss[i] = tt[i]
    <3>1. i = 6 \/ i \in 1..5
      OBVIOUS
    <3> QED
      BY <1>3, <1>5, <1>7, <3>1
  <2> QED
    BY <2>1
<1>9. ss = tt
  <2>1. tt = [i \in 1..6 |-> tt[i]]
    BY <1>7
  <2> QED
    BY <1>8, <1>b, <2>1
<1>10. FlattenSeq(tt) = FlattenSeq(f) \o (l \o n) /\ FlattenSeq(f) \in Seq(Chars)
  BY <1>1, <1>6, FlattenAppend DEF tt
<1>11. RowText(a) = FlattenSeq(f) \o l
  <2>1. RowText(a) = FlattenSeq(Append(f, l))
    BY DEF RowText, RowItems, f, l
  <2>2. FlattenSeq(Append(f, l)) = FlattenSeq(f) \o l
    BY <1>1, <1>2, FlattenAppend
  <2> QED
    BY <2>1, <2>2
<1>12. FlattenSeq(f) \o (l \o n) = Append(FlattenSeq(f) \o l, "newline")
  <2> DEFINE x == FlattenSeq(f)
  <2>1. x \in Seq(Chars)
    BY <1>10
  <2> HIDE DEF x
  <2>2. x \o (l \o n) = (x \o l) \o n
    BY <1>2, <2>1, ConcatAssociative
  <2>3. x \o l \in Seq(Chars)
    BY <1>2, <2>1
  <2> DEFINE y == x \o l
  <2>4. y \in Seq(Chars)
    BY <2>3
  <2> HIDE DEF y
  <2>5. y \o <<"newline">> = Append(y, "newline")
    BY <2>4
  <2> QED
    BY <2>2, <2>5 DEF x, y, n
<1> QED
  BY <1>a, <1>9, <1>10, <1>11, <1>12

\* No account with texts of one line each makes two lines.
OneLined(a) == \A f \in DOMAIN Empty : ~Has(a[f], "newline")

\* The fields of an account.
LEMMA EmptyHas ==
    DOMAIN Empty = {"name", "user", "password", "email", "website", "notes"}
BY DEF Empty

\* An account with texts of one line makes one line.
LEMMA RowFree ==
    ASSUME NEW a \in Record, OneLined(a)
    PROVE  Lacks(RowText(a), "newline")
<1> DEFINE ss == RowItems(a)
           b == "newline"
<1>1. RowOf(a, ss)
  BY RowItemsAre
<1> HIDE DEF ss
<1>2. \A k \in 1..6 : ~Has(Cell(a, k), b)
  <2>1. ASSUME NEW k \in 1..6 PROVE Columns[k] \in DOMAIN Empty
    <3>1. k = 1 \/ k = 2 \/ k = 3 \/ k = 4 \/ k = 5 \/ k = 6
      OBVIOUS
    <3> QED
      BY <3>1, ColumnsAre, EmptyHas
  <2> QED
    BY <2>1 DEF OneLined, Cell
<1>3. \A k \in 1..6 : Lacks(CsvField(Cell(a, k)), b) /\ CsvField(Cell(a, k)) \in Text
  BY <1>2, CellsAre, CsvFieldFree
<1> HIDE DEF b
<1>4. ASSUME NEW k \in 1..6 PROVE Lacks(ss[k], b)
  <2> DEFINE u == CsvField(Cell(a, k))
  <2>1. Lacks(u, b) /\ u \in Seq(Chars)
    BY <1>3 DEF Text
  <2>2. k = 6 \/ k \in 1..5
    OBVIOUS
  <2>3. ss[k] = u \/ ss[k] = u \o <<"comma">>
    BY <1>1, <2>2 DEF RowOf
  <2> HIDE DEF u
  <2>4. Lacks(u \o <<"comma">>, b)
    <3>1. "comma" \in Chars
      BY CharsAssumption
    <3>2. "comma" # b
      BY DEF b
    <3>3. Len(u \o <<"comma">>) = Len(u) + 1 /\ Len(u) \in Nat /\ (u \o <<"comma">>)[Len(u) + 1] = "comma"
          /\ \A i \in 1..Len(u) : (u \o <<"comma">>)[i] = u[i]
      BY <2>1, <3>1
    <3> QED
      BY <2>1, <3>2, <3>3 DEF Lacks
  <2> QED
    BY <2>1, <2>3, <2>4
<1>5. ss \in Seq(Text) /\ \A k \in 1..Len(ss) : Lacks(ss[k], b)
  BY <1>1, <1>4 DEF RowOf
<1>6. Lacks(FlattenSeq(ss), b)
  BY <1>5, FlattenFree
<1> QED
  BY <1>6 DEF RowText, ss, b

\* What is read of the first k fields.
ReadOf(a, k) == [i \in 1..k |-> Value(Cell(a, i))]

\* Reading one field more.
LEMMA ReadOfAppend ==
    ASSUME NEW a, NEW k \in 1..6
    PROVE  ReadOf(a, k) = Append(ReadOf(a, k - 1), Value(Cell(a, k)))
<1> DEFINE V(i) == Value(Cell(a, i))
           s == [i \in 1..k - 1 |-> V(i)]
           t == [i \in 1..k |-> V(i)]
           S == {V(i) : i \in 1..6}
           w == Append(s, V(k))
<1>1. \A i \in 1..6 : V(i) \in S
  OBVIOUS
<1>2. s = ReadOf(a, k - 1) /\ t = ReadOf(a, k) /\ V(k) = Value(Cell(a, k))
  BY DEF ReadOf
<1> HIDE DEF V, S
<1>3. s \in Seq(S) /\ Len(s) = k - 1 /\ \A i \in 1..k - 1 : s[i] = V(i)
  <2>1. k - 1 \in Nat /\ \A i \in 1..k - 1 : V(i) \in S
    BY <1>1
  <2> QED
    BY <2>1
<1>4. t \in Seq(S) /\ Len(t) = k /\ \A i \in 1..k : t[i] = V(i)
  <2>1. k \in Nat /\ \A i \in 1..k : V(i) \in S
    BY <1>1
  <2> QED
    BY <2>1
<1> HIDE DEF s, t
<1>5. w \in Seq(S) /\ Longer(w, s, V(k))
  BY <1>1, <1>3, Appended
<1> HIDE DEF w
<1>6. Len(w) = k /\ w[k] = V(k) /\ \A i \in 1..k - 1 : w[i] = V(i)
  BY <1>3, <1>5 DEF Longer
<1>7. \A i \in 1..k : w[i] = t[i]
  <2>1. \A i \in 1..k : i = k \/ i \in 1..k - 1
    OBVIOUS
  <2> QED
    BY <1>4, <1>6, <2>1
<1>8. w = t
  BY <1>4, <1>5, <1>6, <1>7, SeqEqual
<1> QED
  BY <1>2, <1>8 DEF w

\* The line of an account is read field by field.
LEMMA ScansRow ==
    ASSUME NEW a \in Record
    PROVE  CsvFields(RowText(a)) = ReadOf(a, 6)
<1> DEFINE ss == RowItems(a)
           line == RowText(a)
           O(k) == Off(ss, k)
           F(k) == ReadOf(a, k)
           q == FALSE
           c == <<>>
<1>1. RowOf(a, ss) /\ line \in Text /\ line = FlattenSeq(ss)
  BY RowItemsAre DEF RowText
<1>2. /\ \A k \in 1..6 : Cell(a, k) \in Text /\ CsvField(Cell(a, k)) \in Text
      /\ "comma" \in Chars
  BY CellsAre, CharsAssumption
<1> HIDE DEF ss, line
<1>3. ss \in Seq(Text) /\ Len(ss) = 6
  BY <1>1 DEF RowOf
<1>4. /\ O(0) = 0 /\ O(6) = Len(line)
      /\ \A k \in 0..5 : /\ O(k) \in Nat /\ O(k + 1) = O(k) + Len(ss[k + 1])
                         /\ At(line, O(k), ss[k + 1])
  <2>1. JoinedAt(ss)
    BY <1>3, JoinedTexts
  <2> QED
    BY <1>1, <1>3, <2>1 DEF JoinedAt
<1>5. PICK g : Scanning(g, line)
  BY <1>1, CsvFieldsRuns
<1> HIDE DEF O, F
<1> DEFINE T == {k \in 0..5 : CsvAt(g, O(k), F(k), c, q)}
<1>6. 0 \in T
  <2>1. F(0) = <<>>
    BY DEF F, ReadOf
  <2>2. CsvAt(g, 0, <<>>, <<>>, FALSE)
    BY <1>5 DEF Scanning, CsvAt
  <2>3. CsvAt(g, O(0), F(0), c, q)
    <3>1. c = <<>> /\ q = FALSE
      OBVIOUS
    <3> HIDE DEF c, q
    <3> QED
      BY <1>4, <2>1, <2>2, <3>1
  <2> HIDE DEF c, q
  <2> QED
    BY <2>3
<1>7. ASSUME NEW k \in 1..5, k - 1 \in T PROVE k \in T
  <2> DEFINE j == k - 1
             t == Cell(a, k)
             u == CsvField(t)
             m == <<"comma">>
             p == O(j)
  <2>1. j \in 0..5 /\ j + 1 = k /\ k \in 1..6 /\ k \in 0..5 /\ p \in Nat
    <3>1. j \in 0..5 /\ j + 1 = k /\ k \in 1..6 /\ k \in 0..5
      OBVIOUS
    <3> HIDE DEF j
    <3> QED
      BY <1>4, <3>1
  <2>2. t \in Text /\ u \in Seq(Chars) /\ m \in Seq(Chars) /\ line \in Seq(Chars)
    <3>1. t \in Text
      BY <1>2, <2>1
    <3>2. u \in Text
      BY <1>2, <2>1
    <3>3. line \in Text
      BY <1>1
    <3>4. "comma" \in Chars
      BY CharsAssumption
    <3> HIDE DEF t, u, j, O, F, T
    <3>5. m \in Text
      BY <3>4 DEF Text
    <3> HIDE DEF m
    <3> QED
      BY <3>1, <3>2, <3>3, <3>5 DEF Text
  <2>3. ss[k] = u \o m
    BY <1>1 DEF RowOf
  <2>4. O(k) = p + Len(ss[k]) /\ At(line, p, ss[k])
    <3>1. O(j + 1) = O(j) + Len(ss[j + 1]) /\ At(line, O(j), ss[j + 1])
      BY <1>4, <2>1
    <3> QED
      BY <2>1, <3>1
  <2>5. CsvAt(g, p, F(j), c, q)
    BY <1>7
  <2>6. Len(m) = 1 /\ m[1] = "comma"
    OBVIOUS
  <2>7. F(k) = Append(F(j), Value(t))
    BY <2>1, ReadOfAppend DEF F
  <2>8. u = CsvField(t)
    OBVIOUS
  <2> HIDE DEF j, t, u, m, p, T
  <2>9. At(line, p, u) /\ At(line, p + Len(u), m)
    BY <2>1, <2>2, <2>3, <2>4, AtConcat
  <2>10. Len(u) \in Nat /\ O(k) = p + Len(u) + 1
    <3>1. Len(u \o m) = Len(u) + Len(m) /\ Len(u) \in Nat
      BY <2>2
    <3> QED
      BY <2>1, <2>3, <2>4, <2>6, <3>1
  <2>11. line[p + Len(u) + 1] = "comma" /\ p + Len(u) + 1 <= Len(line)
    <3>1. 1 \in 1..Len(m)
      BY <2>6
    <3>2. line[p + Len(u) + 1] = m[1] /\ p + Len(u) + Len(m) <= Len(line)
      BY <2>9, <3>1 DEF At
    <3> QED
      BY <2>6, <3>2
  <2>12. CsvAt(g, p + Len(u), F(j), Raw(t), FALSE)
    <3>1. Ends(line, p + Len(u))
      BY <2>11 DEF Ends
    <3>2. CsvAt(g, p, F(j), <<>>, FALSE)
      BY <2>5
    <3> QED
      BY <1>1, <1>5, <2>1, <2>2, <2>8, <2>9, <3>1, <3>2, ScansField
  <2>13. CsvAt(g, O(k), F(k), <<>>, FALSE)
    <3> DEFINE i == p + Len(u)
    <3>1. i \in Nat /\ i + 1 = O(k)
      BY <2>1, <2>10
    <3>2. i + 1 <= Len(line) /\ line[i + 1] = "comma" /\ CsvAt(g, i, F(j), Raw(t), FALSE)
      BY <2>11, <2>12
    <3> HIDE DEF i
    <3>3. CsvAt(g, i + 1, Append(F(j), UnescapeCsv(Raw(t))), <<>>, FALSE)
      BY <1>1, <1>5, <3>1, <3>2, CsvComma
    <3>4. UnescapeCsv(Raw(t)) = Value(t)
      BY <2>2, UnescapesRaw
    <3> QED
      BY <2>7, <3>1, <3>3, <3>4
  <2> QED
    BY <2>1, <2>13 DEF T
<1> HIDE DEF T
<1>8. 5 \in T
  <2> DEFINE n == 5
  <2>1. n \in Nat /\ \A k \in 1..n : k - 1 \in T => k \in T
    BY <1>7
  <2> HIDE DEF n
  <2>2. \A k \in 0..n : k \in T
    BY <1>6, <2>1, Along
  <2> QED
    BY <2>2 DEF n
<1>9. CsvAt(g, O(5), F(5), <<>>, FALSE)
  BY <1>8 DEF T
<1>10. CsvAt(g, Len(line), F(5), Raw(Cell(a, 6)), FALSE)
  <2> DEFINE t == Cell(a, 6)
             p == O(5)
  <2>1. p \in Nat /\ At(line, p, CsvField(t)) /\ p + Len(CsvField(t)) = Len(line)
    <3> DEFINE z == 5
    <3>1. z \in 0..5 /\ z + 1 = 6
      OBVIOUS
    <3> HIDE DEF z
    <3>2. O(z) \in Nat /\ O(z + 1) = O(z) + Len(ss[z + 1]) /\ At(line, O(z), ss[z + 1])
      BY <1>4, <3>1
    <3>3. ss[6] = CsvField(t)
      BY <1>1 DEF RowOf
    <3>4. p = O(z)
      BY DEF z
    <3> HIDE DEF p, t
    <3> QED
      BY <1>4, <3>1, <3>2, <3>3, <3>4
  <2>2. t \in Text
    BY <1>2
  <2>3. CsvAt(g, p, F(5), <<>>, FALSE)
    BY <1>9
  <2> HIDE DEF p, t
  <2>4. CsvAt(g, p + Len(CsvField(t)), F(5), Raw(t), FALSE)
    BY <1>1, <1>5, <2>1, <2>2, <2>3, ScansField DEF Ends
  <2> QED
    BY <2>1, <2>4 DEF t
<1>11. CsvFields(line) = Append(F(5), UnescapeCsv(Raw(Cell(a, 6))))
  <2>1. CsvFields(line) = Append(g[Len(line)].fields, UnescapeCsv(g[Len(line)].current))
    BY <1>5 DEF Scanning
  <2> QED
    BY <1>10, <2>1 DEF CsvAt
<1>12. UnescapeCsv(Raw(Cell(a, 6))) = Value(Cell(a, 6))
  BY <1>2, UnescapesRaw
<1>13. ReadOf(a, 6) = Append(F(5), Value(Cell(a, 6)))
  <2> DEFINE z == 6
  <2>1. z \in 1..6 /\ z - 1 = 5
    OBVIOUS
  <2> HIDE DEF z
  <2>2. ReadOf(a, z) = Append(ReadOf(a, z - 1), Value(Cell(a, z)))
    BY <2>1, ReadOfAppend
  <2>3. ReadOf(a, z) = Append(ReadOf(a, 5), Value(Cell(a, z)))
    BY <2>1, <2>2
  <2> QED
    BY <2>3 DEF z, F
<1> QED
  BY <1>11, <1>12, <1>13 DEF line

\* The account that is made of any fields, and of six.
CsvMade(b, fields) ==
    /\ b \in Record
    /\ Len(fields) = 6 => /\ b.name = fields[1] /\ b.user = fields[2] /\ b.password = fields[3]
                          /\ b.email = fields[4] /\ b.website = fields[5] /\ b.notes = fields[6]

\* CsvAccount makes that account.
LEMMA CsvAccountIs ==
    ASSUME NEW fields \in Seq(Text)
    PROVE  CsvMade(CsvAccount(fields), fields)
<1> DEFINE at(f) == CHOOSE k \in DOMAIN Columns : Columns[k] = f
           V(f) == IF at(f) <= Len(fields) THEN fields[at(f)] ELSE <<>>
           D == {"name", "user", "password", "email", "website", "notes"}
           b == [f \in D |-> V(f)]
<1>1. CsvAccount(fields) = b
  BY EmptyHas DEF CsvAccount
<1>2. ASSUME NEW k \in 1..6 PROVE at(Columns[k]) = k
  <2>1. \A j \in DOMAIN Columns : Columns[j] = Columns[k] => j = k
    <3>1. ASSUME NEW j \in 1..6, Columns[j] = Columns[k] PROVE j = k
      <4>1. k = 1 \/ k = 2 \/ k = 3 \/ k = 4 \/ k = 5 \/ k = 6
        OBVIOUS
      <4>2. j = 1 \/ j = 2 \/ j = 3 \/ j = 4 \/ j = 5 \/ j = 6
        OBVIOUS
      <4> QED
        BY <3>1, <4>1, <4>2, ColumnsAre
    <3> QED
      BY <3>1, ColumnsAre
  <2>2. k \in DOMAIN Columns
    BY ColumnsAre
  <2> QED
    BY <2>1, <2>2
<1>3. /\ at("name") = 1 /\ at("user") = 2 /\ at("password") = 3
      /\ at("email") = 4 /\ at("website") = 5 /\ at("notes") = 6
  <2>1. \A k \in 1..6 : at(Columns[k]) = k
    BY <1>2
  <2>2. /\ at(Columns[1]) = 1 /\ at(Columns[2]) = 2 /\ at(Columns[3]) = 3
        /\ at(Columns[4]) = 4 /\ at(Columns[5]) = 5 /\ at(Columns[6]) = 6
    <3> HIDE DEF at
    <3> QED
      BY <2>1
  <2> HIDE DEF at
  <2> QED
    BY <2>2, ColumnsAre
<1> HIDE DEF at
<1>4. ASSUME NEW f \in D PROVE V(f) \in Text
  <2>1. at(f) \in 1..6
    BY <1>3
  <2>2. <<>> \in Text
    BY DEF Text
  <2>3. CASE at(f) <= Len(fields)
    <3>1. at(f) \in 1..Len(fields)
      BY <2>1, <2>3
    <3> QED
      BY <2>3, <3>1
  <2> QED
    BY <2>2, <2>3
<1>5. /\ b.name = V("name") /\ b.user = V("user") /\ b.password = V("password")
      /\ b.email = V("email") /\ b.website = V("website") /\ b.notes = V("notes")
  OBVIOUS
<1>6. b \in Record
  <2> HIDE DEF V
  <2>1. \A f \in D : V(f) \in Text
    BY <1>4
  <2> QED
    BY <2>1 DEF Record
<1>7. Len(fields) = 6 =>
         /\ V("name") = fields[1] /\ V("user") = fields[2] /\ V("password") = fields[3]
         /\ V("email") = fields[4] /\ V("website") = fields[5] /\ V("notes") = fields[6]
  BY <1>3
<1> HIDE DEF V, b
<1> QED
  BY <1>1, <1>5, <1>6, <1>7 DEF CsvMade

\* What an account's line is read as, and when it counts.
Usable(fields) == Len(fields) >= 3 /\ fields[1] # <<>> /\ fields[3] # <<>>

\* An account that CSV carries comes back from its line; the line counts if the
\* account has a name and a password.
LEMMA RowReadsBack ==
    ASSUME NEW a \in Record, NEW fields, fields = CsvFields(RowText(a))
    PROVE  /\ fields \in Seq(Text) /\ Len(fields) = 6
           /\ Usable(fields) <=> a.name # <<>> /\ a.password # <<>>
           /\ Carries("csv", a) => CsvAccount(fields) = a
<1> DEFINE V(k) == Value(Cell(a, k))
<1>1. fields = [k \in 1..6 |-> V(k)]
  BY ScansRow DEF ReadOf
<1>2. /\ \A k \in 1..6 : /\ V(k) \in Text /\ (V(k) = <<>> <=> Cell(a, k) = <<>>)
                         /\ ~HasPair(Cell(a, k), <<"quote", "quote">>) => V(k) = Cell(a, k)
  BY CellsAre, ValueText
<1> HIDE DEF V
<1>3. fields \in Seq(Text) /\ Len(fields) = 6 /\ \A k \in 1..6 : fields[k] = V(k)
  BY <1>1, <1>2
<1>4. Usable(fields) <=> a.name # <<>> /\ a.password # <<>>
  <2>1. fields[1] = V(1) /\ fields[3] = V(3)
    BY <1>3
  <2>2. (V(1) = <<>> <=> Cell(a, 1) = <<>>) /\ (V(3) = <<>> <=> Cell(a, 3) = <<>>)
    BY <1>2
  <2>3. Cell(a, 1) = a.name /\ Cell(a, 3) = a.password
    BY CellsAre
  <2> QED
    BY <1>3, <2>1, <2>2, <2>3 DEF Usable
<1>5. ASSUME Carries("csv", a) PROVE CsvAccount(fields) = a
  <2> DEFINE b == CsvAccount(fields)
  <2>1. CsvMade(b, fields)
    BY <1>3, CsvAccountIs
  <2> HIDE DEF b
  <2>2. \A f \in DOMAIN a : ~HasPair(a[f], <<"quote", "quote">>)
    BY <1>5 DEF Carries
  <2>3. ASSUME NEW k \in 1..6 PROVE V(k) = Cell(a, k)
    <3>1. Columns[k] \in DOMAIN a
      <4>1. k = 1 \/ k = 2 \/ k = 3 \/ k = 4 \/ k = 5 \/ k = 6
        OBVIOUS
      <4>2. DOMAIN a = {"name", "user", "password", "email", "website", "notes"}
        BY DEF Record
      <4> QED
        BY <4>1, <4>2, ColumnsAre
    <3>2. ~HasPair(Cell(a, k), <<"quote", "quote">>)
      BY <2>2, <3>1 DEF Cell
    <3> QED
      BY <1>2, <3>2
  <2>4. \A k \in 1..6 : fields[k] = Cell(a, k)
    BY <1>3, <2>3
  <2>5. /\ fields[1] = a.name /\ fields[2] = a.user /\ fields[3] = a.password
        /\ fields[4] = a.email /\ fields[5] = a.website /\ fields[6] = a.notes
    BY <2>4, CellsAre
  <2>6. b = a
    BY <1>3, <2>1, <2>5, RecordEqual DEF CsvMade
  <2> QED
    BY <2>6 DEF b
<1> QED
  BY <1>3, <1>4, <1>5

-----------------------------------------------------------------------------
(* The lines of a CSV file *)

\* The state of Lines' loop, its step and its run.
LinesState == [lines : Seq(Text), line : Text]
LinesStep(s, text, i) ==
    IF text[i] = "newline" THEN [lines |-> Append(s.lines, s.line), line |-> <<>>]
    ELSE [s EXCEPT !.line = Append(@, text[i])]

LinesLoop(g, text) ==
    g = [i \in 0..Len(text) |->
            IF i = 0 THEN [lines |-> <<>>, line |-> <<>>] ELSE LinesStep(g[i - 1], text, i)]

\* The lines at the end of the text: the one that is begun is the last.
LinesAfter(s) == IF s.line = <<>> THEN s.lines ELSE Append(s.lines, s.line)

\* What a step makes of s with the character c.
LinesTakes(s, t, c) ==
    /\ c = "newline" => t.lines = Append(s.lines, s.line) /\ t.line = <<>>
    /\ c # "newline" => t.lines = s.lines /\ t.line = Append(s.line, c)

\* The states of the loop, and what Lines makes of the last one.
Splitting(g, text) ==
    /\ \A i \in 0..Len(text) : g[i].lines \in Seq(Text) /\ g[i].line \in Text
    /\ g[0].lines = <<>> /\ g[0].line = <<>>
    /\ \A i \in 1..Len(text) : LinesTakes(g[i - 1], g[i], text[i])
    /\ Lines(text) = LinesAfter(g[Len(text)])

\* A step is what is said of it.
LEMMA LinesSteps ==
    ASSUME NEW text \in Text, NEW i \in 1..Len(text),
           NEW s \in LinesState, NEW t, t = LinesStep(s, text, i)
    PROVE  t \in LinesState /\ LinesTakes(s, t, text[i])
<1> DEFINE c == text[i]
<1>1. s.lines \in Seq(Text) /\ s.line \in Text /\ c \in Chars
  BY DEF LinesState, Text
<1>b. t = IF c = "newline" THEN [lines |-> Append(s.lines, s.line), line |-> <<>>]
          ELSE [s EXCEPT !.line = Append(s.line, c)]
  BY DEF LinesStep
<1> HIDE DEF c
<1>2. Append(s.line, c) \in Text /\ <<>> \in Text
  BY <1>1 DEF Text
<1>3. Append(s.lines, s.line) \in Seq(Text)
  BY <1>1
<1>4. CASE c = "newline"
  <2>1. t = [lines |-> Append(s.lines, s.line), line |-> <<>>]
    BY <1>b, <1>4
  <2>2. t \in LinesState /\ t.lines = Append(s.lines, s.line) /\ t.line = <<>>
    BY <1>2, <1>3, <2>1 DEF LinesState
  <2> QED
    BY <1>4, <2>2 DEF LinesTakes, c
<1>5. CASE c # "newline"
  <2>1. t = [s EXCEPT !.line = Append(s.line, c)]
    BY <1>b, <1>5
  <2>2. t \in LinesState /\ t.lines = s.lines /\ t.line = Append(s.line, c)
    BY <1>2, <2>1 DEF LinesState
  <2> QED
    BY <1>5, <2>2 DEF LinesTakes, c
<1> QED
  BY <1>4, <1>5

\* The loop has a run.
LEMMA LinesLoops == ASSUME NEW text \in Text PROVE \E g : LinesLoop(g, text)
<1> DEFINE N == Len(text)
           z == [lines |-> <<>>, line |-> <<>>]
           Q == LinesState
           G == [i \in 1..N |-> [s \in Q |-> LinesStep(s, text, i)]]
<1>1. z \in Q /\ N \in Nat
  BY DEF LinesState, Text
<1> HIDE DEF z, Q
<1>2. G \in [1..N -> [Q -> Q]]
  <2>1. \A i \in 1..N, s \in Q : LinesStep(s, text, i) \in Q
    BY LinesSteps DEF Q
  <2> QED
    BY <2>1
<1>3. \A i \in 1..N, s \in Q : G[i][s] = LinesStep(s, text, i)
  OBVIOUS
<1> HIDE DEF G, N
<1>4. PICK f : RunOf(f, Q, z, N, G)
  BY <1>1, <1>2, Runs
<1>5. f \in [0..N -> Q] /\ f[0] = z /\ \A i \in 1..N : f[i] = G[i][f[i - 1]]
  BY <1>4 DEF RunOf
<1>6. ASSUME NEW i \in 0..N PROVE f[i] = IF i = 0 THEN z ELSE LinesStep(f[i - 1], text, i)
  <2>1. CASE i = 0
    BY <1>5, <2>1
  <2>2. CASE i # 0
    <3>1. i \in 1..N /\ f[i - 1] \in Q
      BY <1>1, <1>5, <2>2
    <3> QED
      BY <1>3, <1>5, <2>2, <3>1
  <2> QED
    BY <2>1, <2>2
<1>7. f = [i \in 0..N |-> IF i = 0 THEN z ELSE LinesStep(f[i - 1], text, i)]
  BY <1>5, <1>6
<1> QED
  BY <1>7 DEF LinesLoop, N, z

\* Lines is where its loop ends.
LEMMA LinesIs ==
    ASSUME NEW text
    PROVE  Lines(text) = LinesAfter((CHOOSE g : LinesLoop(g, text))[Len(text)])
BY DEF Lines, LinesLoop, LinesStep, LinesAfter

\* There is a run of states of which all this can be said.
LEMMA LinesRuns == ASSUME NEW text \in Text PROVE \E g : Splitting(g, text)
<1> DEFINE g == CHOOSE h : LinesLoop(h, text)
           N == Len(text)
           z == [lines |-> <<>>, line |-> <<>>]
<1>1. LinesLoop(g, text)
  BY LinesLoops
<1>2. Lines(text) = LinesAfter(g[N])
  BY LinesIs
<1>3. N \in Nat
  BY DEF Text
<1> HIDE DEF g
<1>4. \A i \in 0..N : g[i] = IF i = 0 THEN z ELSE LinesStep(g[i - 1], text, i)
  <2> DEFINE V(i) == IF i = 0 THEN z ELSE LinesStep(g[i - 1], text, i)
  <2>1. g = [i \in 0..N |-> V(i)]
    BY <1>1 DEF LinesLoop
  <2> HIDE DEF V
  <2>2. \A i \in 0..N : g[i] = V(i)
    BY <2>1
  <2> QED
    BY <2>2 DEF V
<1>5. \A i \in 1..N : g[i] = LinesStep(g[i - 1], text, i)
  <2> HIDE DEF z
  <2> QED
    BY <1>3, <1>4
<1>6. g[0] = z
  BY <1>3, <1>4
<1> DEFINE T == {i \in 0..N : g[i] \in LinesState}
<1>7. 0 \in T
  <2>1. z \in LinesState
    BY DEF LinesState, Text
  <2> HIDE DEF z
  <2> QED
    BY <1>3, <1>6, <2>1
<1>8. ASSUME NEW i \in 1..N, i - 1 \in T PROVE i \in T
  <2>1. g[i - 1] \in LinesState
    BY <1>8
  <2>2. g[i] \in LinesState
    BY <1>5, <2>1, LinesSteps
  <2> QED
    BY <2>2
<1> HIDE DEF T
<1>9. \A i \in 0..N : i \in T
  BY <1>3, <1>7, <1>8, Along
<1>10. \A i \in 0..N : g[i] \in LinesState
  BY <1>9 DEF T
<1>11. ASSUME NEW i \in 1..N PROVE LinesTakes(g[i - 1], g[i], text[i])
  <2>1. g[i - 1] \in LinesState
    BY <1>3, <1>10
  <2> QED
    BY <1>5, <2>1, LinesSteps
<1>12. \A i \in 0..N : g[i].lines \in Seq(Text) /\ g[i].line \in Text
  BY <1>10 DEF LinesState
<1>13. g[0].lines = <<>> /\ g[0].line = <<>>
  BY <1>6
<1> QED
  BY <1>2, <1>11, <1>12, <1>13 DEF Splitting

\* The lines of a text are texts.
LEMMA LinesTexts == ASSUME NEW text \in Text PROVE Lines(text) \in Seq(Text)
<1>1. PICK g : Splitting(g, text)
  BY LinesRuns
<1>2. Len(text) \in 0..Len(text)
  BY DEF Text
<1> DEFINE s == g[Len(text)]
<1>3. s.lines \in Seq(Text) /\ s.line \in Text /\ Lines(text) = LinesAfter(s)
  BY <1>1, <1>2 DEF Splitting
<1> HIDE DEF s
<1>4. Append(s.lines, s.line) \in Seq(Text)
  BY <1>3
<1> QED
  BY <1>3, <1>4 DEF LinesAfter

\* After p characters there are the lines ls, and u of the next one.
LinesAt(g, p, ls, u) == g[p].lines = ls /\ g[p].line = u

\* One step of the run.
LEMMA LinesOne ==
    ASSUME NEW text \in Text, NEW g, Splitting(g, text), NEW p \in Nat, p + 1 <= Len(text)
    PROVE  LinesTakes(g[p], g[p + 1], text[p + 1])
<1>1. Len(text) \in Nat
  BY DEF Text
<1>2. p + 1 \in 1..Len(text) /\ (p + 1) - 1 = p
  BY <1>1
<1>3. LinesTakes(g[(p + 1) - 1], g[p + 1], text[p + 1])
  BY <1>2 DEF Splitting
<1> QED
  BY <1>2, <1>3

\* A text without a line break is put to the line.
LEMMA LinesThrough ==
    ASSUME NEW text \in Text, NEW g, Splitting(g, text), NEW p \in Nat, NEW t \in Text,
           At(text, p, t), Lacks(t, "newline"), NEW ls, LinesAt(g, p, ls, <<>>)
    PROVE  LinesAt(g, p + Len(t), ls, t)
<1> DEFINE N == Len(t)
           F(k) == UpTo(t, k)
           T == {k \in 0..N : LinesAt(g, p + k, ls, F(k))}
<1>1. N \in Nat /\ Len(text) \in Nat
  BY DEF Text
<1>2. /\ UpTo(t, 0) = <<>> /\ UpTo(t, N) = t
      /\ \A k \in 0..N - 1 : /\ UpTo(t, k) \in Text /\ t[k + 1] \in Chars
                             /\ UpTo(t, k + 1) = Append(UpTo(t, k), t[k + 1])
  BY Fronts DEF Text
<1>3. 0 \in T
  <2>1. F(0) = <<>> /\ p + 0 = p
    BY <1>2
  <2> HIDE DEF F
  <2>2. LinesAt(g, p + 0, ls, F(0))
    BY <2>1
  <2> QED
    BY <1>1, <2>2
<1>4. ASSUME NEW k \in 1..N, k - 1 \in T PROVE k \in T
  <2> DEFINE i == p + (k - 1)
             c == F(k - 1)
  <2>1. /\ i \in Nat /\ i + 1 = p + k /\ i + 1 <= Len(text) /\ k \in 0..N
        /\ k - 1 \in 0..N - 1 /\ (k - 1) + 1 = k
    BY <1>1 DEF At
  <2>2. text[i + 1] = t[k] /\ text[i + 1] # "newline"
    <3>1. text[p + k] = t[k]
      BY DEF At
    <3> HIDE DEF i
    <3> QED
      BY <2>1, <3>1 DEF Lacks
  <2>3. F(k) = Append(c, t[k])
    BY <1>2, <2>1
  <2>4. LinesAt(g, i, ls, c)
    BY <1>4
  <2> HIDE DEF i, c, F, T
  <2>5. LinesTakes(g[i], g[i + 1], text[i + 1])
    BY <2>1, LinesOne
  <2>6. LinesAt(g, i + 1, ls, Append(c, t[k]))
    BY <2>2, <2>4, <2>5 DEF LinesTakes, LinesAt
  <2>7. LinesAt(g, p + k, ls, F(k))
    BY <2>1, <2>3, <2>6
  <2> QED
    BY <2>1, <2>7 DEF T
<1> HIDE DEF T
<1>5. \A k \in 0..N : k \in T
  BY <1>1, <1>3, <1>4, Along
<1>6. LinesAt(g, p + N, ls, F(N))
  BY <1>1, <1>5 DEF T
<1> QED
  BY <1>2, <1>6

\* A line that is read stays.
AmongLines(r, ls) == \E n \in 1..Len(ls) : ls[n] = r

\* A line that was read at some position is one of the lines.
LEMMA LinesStay ==
    ASSUME NEW text \in Text, NEW g, Splitting(g, text), NEW p \in 0..Len(text),
           NEW r, AmongLines(r, g[p].lines)
    PROVE  AmongLines(r, Lines(text))
<1> DEFINE N == Len(text)
           T == {i \in 0..N : i >= p => AmongLines(r, g[i].lines)}
<1>1. N \in Nat
  BY DEF Text
<1>2. 0 \in T
  <2>1. 0 >= p => p = 0
    OBVIOUS
  <2> QED
    BY <1>1, <2>1
<1>3. ASSUME NEW i \in 1..N, i - 1 \in T PROVE i \in T
  <2>1. CASE i = p
    BY <1>1, <2>1
  <2>2. CASE i # p /\ i >= p
    <3> DEFINE s == g[i - 1].lines
               l == g[i - 1].line
               t == g[i].lines
    <3>1. i - 1 >= p /\ i - 1 \in 0..N /\ i \in 0..N
      BY <1>1, <2>2
    <3>2. AmongLines(r, s) /\ s \in Seq(Text) /\ l \in Text
      BY <1>3, <3>1 DEF Splitting
    <3>3. t = s \/ t = Append(s, l)
      BY DEF Splitting, LinesTakes
    <3> HIDE DEF s, l, t
    <3>4. AmongLines(r, Append(s, l))
      <4>1. Longer(Append(s, l), s, l) /\ Len(s) \in Nat
        BY <3>2, Appended
      <4> QED
        BY <3>2, <4>1 DEF AmongLines, Longer
    <3>5. AmongLines(r, t)
      BY <3>2, <3>3, <3>4
    <3> QED
      BY <3>1, <3>5 DEF t
  <2>3. CASE ~(i >= p)
    BY <1>1, <2>3
  <2> QED
    BY <1>1, <2>1, <2>2, <2>3
<1> HIDE DEF T
<1>4. \A i \in 0..N : i \in T
  BY <1>1, <1>2, <1>3, Along
<1>5. AmongLines(r, g[N].lines)
  BY <1>1, <1>4 DEF T
<1> DEFINE s == g[N].lines
           l == g[N].line
<1>6. AmongLines(r, s) /\ s \in Seq(Text) /\ l \in Text /\ (Lines(text) = s \/ Lines(text) = Append(s, l))
  BY <1>1, <1>5 DEF Splitting, LinesAfter
<1> HIDE DEF s, l
<1>7. AmongLines(r, Append(s, l))
  <2>1. Longer(Append(s, l), s, l) /\ Len(s) \in Nat
    BY <1>6, Appended
  <2> QED
    BY <1>6, <2>1 DEF AmongLines, Longer
<1> QED
  BY <1>6, <1>7

\* The accounts' lines in the file, and where each begins.
RowsOf(s) == Mapped(CsvLine, s)
RowAt(s, k) == Off(RowsOf(s), k)

\* The file is the joined lines of the accounts.
LEMMA RowsAre ==
    ASSUME NEW s \in Seq(Record)
    PROVE  /\ RowsOf(s) \in Seq(Text) /\ Len(RowsOf(s)) = Len(s)
           /\ \A k \in 1..Len(s) : RowsOf(s)[k] = Append(RowText(s[k]), "newline")
           /\ Written("csv", s) = FlattenSeq(RowsOf(s)) /\ Written("csv", s) \in Text
<1> DEFINE V(k) == CsvLine(s[k])
           ss == RowsOf(s)
<1>1. s \in Seq(Record) /\ DOMAIN s = 1..Len(s) /\ Len(s) \in Nat
  OBVIOUS
<1>2. ss = [k \in 1..Len(s) |-> V(k)]
  BY <1>1 DEF RowsOf, Mapped
<1>3. ASSUME NEW k \in 1..Len(s)
      PROVE  V(k) = Append(RowText(s[k]), "newline") /\ V(k) \in Text
  <2>1. s[k] \in Record
    OBVIOUS
  <2>2. V(k) = Append(RowText(s[k]), "newline")
    BY <2>1, CsvLineIs
  <2>3. RowText(s[k]) \in Text
    BY <2>1, RowItemsAre
  <2>4. "newline" \in Chars
    BY CharsAssumption
  <2> DEFINE u == RowText(s[k])
  <2>5. Append(u, "newline") \in Text
    <3> HIDE DEF u
    <3>1. u \in Text => Append(u, "newline") \in Text
      BY <2>4 DEF Text
    <3> QED
      BY <2>3, <3>1 DEF u
  <2> QED
    BY <2>2, <2>5
<1> HIDE DEF V, ss
<1>4. ss \in Seq(Text) /\ Len(ss) = Len(s) /\ \A k \in 1..Len(s) : ss[k] = V(k)
  BY <1>1, <1>2, <1>3
<1>5. Written("csv", s) = FlattenSeq(ss)
  BY DEF Written, ss, RowsOf
<1>6. FlattenSeq(ss) \in Text
  BY <1>4, FlattenText
<1> QED
  BY <1>3, <1>4, <1>5, <1>6 DEF ss

\* Where account k's line is, and how the next one follows.
RowThere(text, s, k) ==
    /\ RowText(s[k]) \in Text /\ At(text, RowAt(s, k - 1), RowText(s[k]))
    /\ RowAt(s, k - 1) \in Nat /\ RowAt(s, k) = RowAt(s, k - 1) + Len(RowText(s[k])) + 1
    /\ RowAt(s, k) <= Len(text) /\ text[RowAt(s, k)] = "newline"

\* Each account's line is there, after those before it.
LEMMA RowsThere ==
    ASSUME NEW s \in Seq(Record), NEW text, text = Written("csv", s)
    PROVE  /\ RowAt(s, 0) = 0 /\ RowAt(s, Len(s)) = Len(text)
           /\ \A k \in 1..Len(s) : RowThere(text, s, k)
<1> DEFINE ss == RowsOf(s)
           O(k) == RowAt(s, k)
<1>1. /\ ss \in Seq(Text) /\ Len(ss) = Len(s) /\ text = FlattenSeq(ss) /\ text \in Text
      /\ \A k \in 1..Len(s) : ss[k] = Append(RowText(s[k]), "newline")
  BY RowsAre
<1> HIDE DEF ss
<1>3. JoinedAt(ss)
  BY <1>1, JoinedTexts
<1>4. /\ O(0) = 0 /\ O(Len(s)) = Len(text)
      /\ \A k \in 0..Len(s) - 1 : /\ O(k) \in Nat /\ O(k + 1) = O(k) + Len(ss[k + 1])
                                  /\ At(text, O(k), ss[k + 1])
  BY <1>1, <1>3 DEF JoinedAt, RowAt, ss
<1>5. ASSUME NEW k \in 1..Len(s) PROVE RowThere(text, s, k)
  <2> DEFINE j == k - 1
             u == RowText(s[k])
             m == <<"newline">>
             p == O(j)
  <2>1. j \in 0..Len(s) - 1 /\ j + 1 = k
    BY <1>1
  <2> HIDE DEF j
  <2>2. p \in Nat /\ O(k) = p + Len(ss[k]) /\ At(text, p, ss[k])
    BY <1>4, <2>1
  <2>3. u \in Text
    <3>1. s[k] \in Record
      OBVIOUS
    <3> QED
      BY <3>1, RowItemsAre
  <2>4. "newline" \in Chars
    BY CharsAssumption
  <2>5. ss[k] = Append(u, "newline")
    BY <1>1
  <2> HIDE DEF u, p, O
  <2>6. u \in Seq(Chars) /\ m \in Seq(Chars) /\ text \in Seq(Chars) /\ Append(u, "newline") = u \o m
    BY <1>1, <2>3, <2>4 DEF Text
  <2>7. Len(u) \in Nat /\ Len(u \o m) = Len(u) + 1
    BY <2>6
  <2>8. m[1] = "newline" /\ Len(m) = 1
    OBVIOUS
  <2> HIDE DEF m
  <2>9. At(text, p, u) /\ At(text, p + Len(u), m)
    BY <2>2, <2>5, <2>6, AtConcat
  <2>10. text[p + Len(u) + 1] = "newline" /\ p + Len(u) + 1 <= Len(text)
    <3>1. 1 \in 1..Len(m)
      BY <2>8
    <3>2. text[p + Len(u) + 1] = m[1] /\ p + Len(u) + Len(m) <= Len(text)
      BY <2>9, <3>1 DEF At
    <3> QED
      BY <2>8, <3>2
  <2>11. O(k) = p + Len(u) + 1
    BY <2>2, <2>5, <2>6, <2>7
  <2> QED
    BY <2>2, <2>3, <2>9, <2>10, <2>11 DEF RowThere, u, p, O, j
<1> QED
  BY <1>4, <1>5

\* At the end of an account's line a line of the file begins; an account of one line
\* has added its text to the lines before it.
LEMMA LinesByRow ==
    ASSUME NEW s \in Seq(Record), NEW text, text = Written("csv", s), NEW g, Splitting(g, text),
           NEW k \in 1..Len(s), g[RowAt(s, k - 1)].line = <<>>
    PROVE  /\ g[RowAt(s, k)].line = <<>> /\ RowAt(s, k) \in 1..Len(text)
           /\ OneLined(s[k]) =>
                 g[RowAt(s, k)].lines = Append(g[RowAt(s, k - 1)].lines, RowText(s[k]))
<1> DEFINE o == RowAt(s, k - 1)
           p == RowAt(s, k)
           u == RowText(s[k])
<1>1. RowThere(text, s, k) /\ text \in Text
  BY RowsThere, RowsAre
<1>2. /\ u \in Text /\ At(text, o, u) /\ o \in Nat /\ p = o + Len(u) + 1
      /\ p <= Len(text) /\ text[p] = "newline"
  BY <1>1 DEF RowThere
<1>3. Len(u) \in Nat /\ Len(text) \in Nat
  BY <1>1, <1>2 DEF Text
<1>a. g[o].line = <<>> /\ s[k] \in Record
  OBVIOUS
<1>b. OneLined(s[k]) => Lacks(u, "newline")
  BY <1>a, RowFree
<1> HIDE DEF o, p, u
<1>4. p \in 1..Len(text) /\ p - 1 = o + Len(u) /\ p - 1 \in Nat /\ (p - 1) + 1 = p
  BY <1>2, <1>3
<1>5. LinesTakes(g[p - 1], g[p], text[p])
  BY <1>4 DEF Splitting
<1>6. g[p].lines = Append(g[p - 1].lines, g[p - 1].line) /\ g[p].line = <<>>
  BY <1>2, <1>5 DEF LinesTakes
<1>7. ASSUME OneLined(s[k]) PROVE g[p].lines = Append(g[o].lines, u)
  <2> DEFINE ls == g[o].lines
  <2>1. LinesAt(g, o, ls, <<>>)
    BY <1>a DEF LinesAt
  <2>2. Lacks(u, "newline")
    BY <1>7, <1>b
  <2> HIDE DEF ls
  <2>3. LinesAt(g, o + Len(u), ls, u)
    BY <1>1, <1>2, <2>1, <2>2, LinesThrough
  <2> QED
    BY <1>4, <1>6, <2>3 DEF LinesAt, ls
<1> QED
  BY <1>4, <1>6, <1>7 DEF o, p, u

\* Where an account's line begins, the import begins a line.
LEMMA LinesStart ==
    ASSUME NEW s \in Seq(Record), NEW text, text = Written("csv", s), NEW g, Splitting(g, text)
    PROVE  \A k \in 0..Len(s) : g[RowAt(s, k)].line = <<>> /\ RowAt(s, k) \in 0..Len(text)
<1> DEFINE T == {k \in 0..Len(s) : g[RowAt(s, k)].line = <<>> /\ RowAt(s, k) \in 0..Len(text)}
<1>1. Len(s) \in Nat /\ Len(text) \in Nat
  <2>1. text \in Text
    BY RowsAre
  <2> QED
    BY <2>1 DEF Text
<1>2. 0 \in T
  <2>1. RowAt(s, 0) = 0
    BY RowsThere
  <2>2. g[0].line = <<>>
    BY DEF Splitting
  <2> QED
    BY <1>1, <2>1, <2>2
<1>3. ASSUME NEW k \in 1..Len(s), k - 1 \in T PROVE k \in T
  <2>1. g[RowAt(s, k - 1)].line = <<>>
    BY <1>3
  <2>2. g[RowAt(s, k)].line = <<>> /\ RowAt(s, k) \in 1..Len(text)
    BY <2>1, LinesByRow
  <2> QED
    BY <1>1, <2>2
<1> HIDE DEF T
<1>4. \A k \in 0..Len(s) : k \in T
  BY <1>1, <1>2, <1>3, Along
<1> QED
  BY <1>4 DEF T

\* The line of an account of one line is one of the file's, in whatever company.
LEMMA LinesHave ==
    ASSUME NEW s \in Seq(Record), NEW k \in 1..Len(s), OneLined(s[k])
    PROVE  AmongLines(RowText(s[k]), Lines(Written("csv", s)))
<1> DEFINE text == Written("csv", s)
           r == RowText(s[k])
<1>1. text \in Text /\ r \in Text
  <2>1. s[k] \in Record
    OBVIOUS
  <2> QED
    BY <2>1, RowsAre, RowItemsAre
<1>2. PICK g : Splitting(g, text)
  BY <1>1, LinesRuns
<1>3. k - 1 \in 0..Len(s) /\ k \in 0..Len(s)
  OBVIOUS
<1> DEFINE o == RowAt(s, k - 1)
           p == RowAt(s, k)
           l == g[o].lines
<1>4. g[o].line = <<>> /\ o \in 0..Len(text) /\ p \in 0..Len(text)
  BY <1>2, <1>3, LinesStart
<1>5. g[p].lines = Append(l, r)
  BY <1>2, <1>4, LinesByRow
<1>6. l \in Seq(Text)
  BY <1>2, <1>4 DEF Splitting
<1> HIDE DEF text, r, o, p, l
<1>7. AmongLines(r, Append(l, r))
  <2>1. Longer(Append(l, r), l, r) /\ Len(l) \in Nat
    BY <1>1, <1>6, Appended
  <2>2. Len(l) + 1 \in 1..Len(Append(l, r)) /\ Append(l, r)[Len(l) + 1] = r
    BY <2>1 DEF Longer
  <2> QED
    BY <2>2 DEF AmongLines
<1>8. AmongLines(r, g[p].lines)
  BY <1>5, <1>7
<1>9. AmongLines(r, Lines(text))
  BY <1>1, <1>2, <1>4, <1>8, LinesStay
<1> QED
  BY <1>9 DEF text, r

\* The lines of accounts of one line each are theirs.
RowTexts(s) == [k \in 1..Len(s) |-> RowText(s[k])]

\* If every account makes one line, the lines are those of the accounts.
LEMMA LinesAreRows ==
    ASSUME NEW s \in Seq(Record), \A k \in 1..Len(s) : OneLined(s[k])
    PROVE  Lines(Written("csv", s)) = RowTexts(s)
<1> DEFINE text == Written("csv", s)
           N == Len(s)
           F(k) == [i \in 1..k |-> RowText(s[i])]
<1>1. text \in Text /\ N \in Nat
  BY RowsAre
<1>a. \A k \in 1..N : RowText(s[k]) \in Text
  <2>1. \A k \in 1..N : s[k] \in Record
    OBVIOUS
  <2> QED
    BY <2>1, RowItemsAre
<1>2. PICK g : Splitting(g, text)
  BY <1>1, LinesRuns
<1>3. ASSUME NEW k \in 1..N PROVE F(k) = Append(F(k - 1), RowText(s[k]))
  <2> DEFINE V(i) == RowText(s[i])
             x == [i \in 1..k - 1 |-> V(i)]
             y == [i \in 1..k |-> V(i)]
             w == Append(x, V(k))
  <2>1. \A i \in 1..N : V(i) \in Text
    BY <1>a
  <2> HIDE DEF V, text
  <2>2. x \in Seq(Text) /\ Len(x) = k - 1 /\ \A i \in 1..k - 1 : x[i] = V(i)
    <3>1. k - 1 \in Nat /\ \A i \in 1..k - 1 : V(i) \in Text
      BY <1>1, <2>1
    <3> QED
      BY <3>1
  <2>3. y \in Seq(Text) /\ Len(y) = k /\ \A i \in 1..k : y[i] = V(i)
    <3>1. k \in Nat /\ \A i \in 1..k : V(i) \in Text
      BY <1>1, <2>1
    <3> QED
      BY <3>1
  <2> HIDE DEF x, y
  <2>4. w \in Seq(Text) /\ Longer(w, x, V(k))
    BY <2>1, <2>2, Appended
  <2> HIDE DEF w
  <2>5. Len(w) = k /\ w[k] = V(k) /\ \A i \in 1..k - 1 : w[i] = V(i)
    BY <2>2, <2>4 DEF Longer
  <2>6. \A i \in 1..k : w[i] = y[i]
    <3>1. \A i \in 1..k : i = k \/ i \in 1..k - 1
      BY <1>1
    <3> QED
      BY <2>3, <2>5, <3>1
  <2>7. w = y
    BY <2>3, <2>4, <2>5, <2>6, SeqEqual
  <2> QED
    BY <2>7 DEF w, x, y, V
<1> DEFINE T == {k \in 0..N : g[RowAt(s, k)].lines = F(k)}
<1>4. 0 \in T
  <2>1. RowAt(s, 0) = 0
    BY RowsThere
  <2>2. g[0].lines = <<>>
    BY <1>2 DEF Splitting
  <2>3. F(0) = <<>>
    OBVIOUS
  <2> HIDE DEF F
  <2> QED
    BY <1>1, <2>1, <2>2, <2>3
<1>5. ASSUME NEW k \in 1..N, k - 1 \in T PROVE k \in T
  <2>1. g[RowAt(s, k - 1)].lines = F(k - 1)
    BY <1>5
  <2>2. k - 1 \in 0..N /\ k \in 0..N
    BY <1>1
  <2>3. g[RowAt(s, k - 1)].line = <<>>
    BY <1>2, <2>2, LinesStart
  <2>4. g[RowAt(s, k)].lines = Append(g[RowAt(s, k - 1)].lines, RowText(s[k]))
    BY <1>2, <2>3, LinesByRow
  <2>5. F(k) = Append(F(k - 1), RowText(s[k]))
    BY <1>3
  <2> HIDE DEF F
  <2> QED
    BY <2>1, <2>2, <2>4, <2>5
<1> HIDE DEF T
<1>6. \A k \in 0..N : k \in T
  BY <1>1, <1>4, <1>5, Along
<1>7. g[RowAt(s, N)].lines = F(N)
  BY <1>1, <1>6 DEF T
<1>8. RowAt(s, N) = Len(text)
  BY RowsThere
<1>9. Lines(text) = g[Len(text)].lines
  <2>1. g[RowAt(s, N)].line = <<>> /\ N \in 0..Len(s)
    BY <1>1, <1>2, LinesStart
  <2> QED
    BY <1>2, <1>8, <2>1 DEF Splitting, LinesAfter
<1> QED
  BY <1>7, <1>8, <1>9 DEF RowTexts

\* A text after which a line begins, as it does after an account.
Ended(u) == \E g : Splitting(g, u) /\ g[Len(u)].line = <<>>

\* The file of an export is one.
LEMMA ExportEnds == ASSUME NEW s \in Seq(Record) PROVE Ended(Written("csv", s))
<1> DEFINE text == Written("csv", s)
<1>1. text \in Text
  BY RowsAre
<1>2. PICK g : Splitting(g, text)
  BY <1>1, LinesRuns
<1>3. Len(s) \in 0..Len(s) /\ RowAt(s, Len(s)) = Len(text)
  BY RowsThere
<1>4. g[RowAt(s, Len(s))].line = <<>>
  BY <1>2, <1>3, LinesStart
<1> QED
  BY <1>2, <1>3, <1>4 DEF Ended

\* Where g is after i characters of v, h is after as many of u \o v, with the lines of
\* u before them.
Follows(g, h, m, ls, i) ==
    h[m + i].line = g[i].line /\ h[m + i].lines = ls \o g[i].lines

\* What is put behind such a text makes the lines that it makes alone.
LEMMA LinesConcat ==
    ASSUME NEW u \in Text, Ended(u), NEW v \in Text
    PROVE  u \o v \in Text /\ Lines(u \o v) = Lines(u) \o Lines(v)
<1> DEFINE w == u \o v
           M == Len(u)
           N == Len(v)
<1>1. /\ w \in Text /\ Len(w) = M + N /\ M \in Nat /\ N \in Nat
      /\ \A i \in 1..M : w[i] = u[i]
      /\ \A i \in 1..N : w[M + i] = v[i]
  BY DEF Text
<1>2. PICK f : Splitting(f, u) /\ f[M].line = <<>>
  BY DEF Ended
<1>3. PICK g : Splitting(g, v)
  BY LinesRuns
<1> HIDE DEF w
<1>4. PICK h : Splitting(h, w)
  BY <1>1, LinesRuns
<1> DEFINE ls == f[M].lines
<1>5. ls \in Seq(Text) /\ Lines(u) = ls
  <2>1. M \in 0..M
    BY <1>1
  <2> QED
    BY <1>2, <2>1 DEF Splitting, LinesAfter
<1>6. h[M].lines = ls /\ h[M].line = <<>>
  <2> DEFINE T == {i \in 0..M : h[i].lines = f[i].lines /\ h[i].line = f[i].line}
  <2>1. 0 \in T
    <3>1. h[0].lines = <<>> /\ h[0].line = <<>> /\ f[0].lines = <<>> /\ f[0].line = <<>>
      BY <1>2, <1>4 DEF Splitting
    <3> QED
      BY <1>1, <3>1
  <2>2. ASSUME NEW i \in 1..M, i - 1 \in T PROVE i \in T
    <3>1. LinesTakes(f[i - 1], f[i], u[i]) /\ i \in 0..M
      BY <1>1, <1>2 DEF Splitting
    <3>2. LinesTakes(h[i - 1], h[i], u[i])
      <4>1. i \in 1..Len(w) /\ w[i] = u[i]
        BY <1>1
      <4>2. LinesTakes(h[i - 1], h[i], w[i])
        BY <1>4, <4>1 DEF Splitting
      <4> QED
        BY <4>1, <4>2
    <3>3. h[i - 1].lines = f[i - 1].lines /\ h[i - 1].line = f[i - 1].line
      BY <2>2
    <3> QED
      BY <3>1, <3>2, <3>3 DEF LinesTakes
  <2> HIDE DEF T
  <2>3. \A i \in 0..M : i \in T
    BY <1>1, <2>1, <2>2, Along
  <2>4. M \in T
    BY <1>1, <2>3
  <2> QED
    BY <1>2, <2>4 DEF T
<1> HIDE DEF ls
<1>7. Follows(g, h, M, ls, N)
  <2> DEFINE T == {i \in 0..N : Follows(g, h, M, ls, i)}
  <2>1. 0 \in T
    <3>1. g[0].lines = <<>> /\ g[0].line = <<>> /\ M + 0 = M
      BY <1>1, <1>3 DEF Splitting
    <3>2. ls \o <<>> = ls
      BY <1>5
    <3> DEFINE a == h[M]
               b == g[0]
    <3>3. a.line = b.line /\ a.lines = ls \o b.lines
      BY <1>6, <3>1, <3>2
    <3> HIDE DEF a, b
    <3>4. a = h[M + 0] /\ b = g[0]
      BY <3>1 DEF a, b
    <3>5. Follows(g, h, M, ls, 0)
      BY <3>3, <3>4 DEF Follows
    <3> QED
      BY <1>1, <3>5
  <2>2. ASSUME NEW i \in 1..N, i - 1 \in T PROVE i \in T
    <3> DEFINE p == g[i - 1]
               q == g[i]
               x == h[M + (i - 1)]
               y == h[M + i]
               c == v[i]
    <3>1. LinesTakes(p, q, c) /\ i \in 0..N
      BY <1>1, <1>3 DEF Splitting
    <3>2. LinesTakes(x, y, c)
      <4>1. M + i \in 1..Len(w) /\ w[M + i] = c /\ (M + i) - 1 = M + (i - 1)
        BY <1>1
      <4>2. LinesTakes(h[(M + i) - 1], h[M + i], w[M + i])
        BY <1>4, <4>1 DEF Splitting
      <4> QED
        BY <4>1, <4>2
    <3>3. x.line = p.line /\ x.lines = ls \o p.lines
      BY <2>2 DEF Follows
    <3>4. p.lines \in Seq(Text) /\ p.line \in Text
      <4>1. i - 1 \in 0..N
        BY <1>1
      <4> QED
        BY <1>3, <4>1 DEF Splitting
    <3> HIDE DEF p, q, x, y, c, T
    <3> DEFINE s == p.lines
               l == p.line
    <3>5. Append(ls \o s, l) = ls \o Append(s, l)
      <4>1. s \in Seq(Text) /\ l \in Text
        BY <3>4
      <4> HIDE DEF s, l
      <4>2. /\ Append(s, l) = s \o <<l>> /\ <<l>> \in Seq(Text) /\ ls \o s \in Seq(Text)
        BY <1>5, <4>1
      <4>3. Append(ls \o s, l) = (ls \o s) \o <<l>>
        BY <4>1, <4>2, AppendIsConcat
      <4> DEFINE m == <<l>>
      <4>4. m \in Seq(Text)
        BY <4>2
      <4> HIDE DEF m
      <4>5. (ls \o s) \o m = ls \o (s \o m)
        BY <1>5, <4>1, <4>4, ConcatAssociative
      <4> QED
        BY <4>2, <4>3, <4>5 DEF m
    <3>6. y.line = q.line /\ y.lines = ls \o q.lines
      BY <3>1, <3>2, <3>3, <3>5 DEF LinesTakes
    <3> QED
      BY <3>1, <3>6 DEF Follows, T, y, q
  <2> HIDE DEF T
  <2>3. \A i \in 0..N : i \in T
    BY <1>1, <2>1, <2>2, Along
  <2> QED
    BY <1>1, <2>3 DEF T
<1>8. Lines(w) = ls \o Lines(v)
  <2> DEFINE p == g[N]
             y == h[M + N]
             s == p.lines
             l == p.line
  <2>1. Lines(v) = LinesAfter(p) /\ s \in Seq(Text) /\ l \in Text
    <3>1. N \in 0..N
      BY <1>1
    <3> QED
      BY <1>3, <3>1 DEF Splitting
  <2>2. Lines(w) = LinesAfter(y)
    BY <1>1, <1>4 DEF Splitting
  <2>3. y.line = l /\ y.lines = ls \o s
    BY <1>7 DEF Follows
  <2>4. Lines(v) = IF l = <<>> THEN s ELSE Append(s, l)
    BY <2>1 DEF LinesAfter
  <2>5. Lines(w) = IF l = <<>> THEN ls \o s ELSE Append(ls \o s, l)
    BY <2>2, <2>3 DEF LinesAfter
  <2> HIDE DEF s, l
  <2>6. Append(ls \o s, l) = ls \o Append(s, l)
    <3>1. ls \o s \in Seq(Text)
      BY <1>5, <2>1
    <3>2. Append(ls \o s, l) = (ls \o s) \o <<l>> /\ Append(s, l) = s \o <<l>>
      BY <2>1, <3>1, AppendIsConcat
    <3> DEFINE m == <<l>>
    <3>3. m \in Seq(Text)
      BY <2>1
    <3> HIDE DEF m
    <3>4. (ls \o s) \o m = ls \o (s \o m)
      BY <1>5, <2>1, <3>3, ConcatAssociative
    <3> QED
      BY <3>2, <3>4 DEF m
  <2> QED
    BY <2>4, <2>5, <2>6
<1> QED
  BY <1>1, <1>5, <1>8 DEF w

\* A piece of a line makes at most one.
LEMMA LinesOfPiece ==
    ASSUME NEW p \in Text, Lacks(p, "newline")
    PROVE  Len(Lines(p)) \in {0, 1}
<1>1. PICK g : Splitting(g, p)
  BY LinesRuns
<1>2. At(p, 0, p) /\ Len(p) \in Nat
  <2>1. p \in Seq(Chars)
    BY DEF Text
  <2> QED
    BY <2>1 DEF At
<1>3. LinesAt(g, 0, <<>>, <<>>)
  BY <1>1 DEF LinesAt, Splitting
<1>4. LinesAt(g, 0 + Len(p), <<>>, p)
  BY <1>1, <1>2, <1>3, LinesThrough
<1>5. g[Len(p)].lines = <<>> /\ g[Len(p)].line = p
  BY <1>2, <1>4 DEF LinesAt
<1>6. Lines(p) = LinesAfter(g[Len(p)])
  BY <1>1 DEF Splitting
<1>7. Lines(p) = <<>> \/ Lines(p) = Append(<<>>, p)
  BY <1>5, <1>6 DEF LinesAfter
<1> QED
  BY <1>7

\* The same positions leave as many elements of sequences of the same length.
LEMMA SameLength ==
    ASSUME NEW S, NEW s \in Seq(S), NEW R, NEW t \in Seq(R), Len(s) = Len(t), NEW P
    PROVE  Len(AtPositions(s, P)) = Len(AtPositions(t, P))
<1> DEFINE g == Nth(s, P)
           h == Nth(t, P)
           N == Len(s)
           T == {n \in 0..N : g[n] \in Seq(S) /\ h[n] \in Seq(R) /\ Len(g[n]) = Len(h[n])}
<1>1. N \in Nat
  OBVIOUS
<1>2. (\A n \in 0..N : g[n] = Body(g, s, P, n)) /\ \A n \in 0..N : h[n] = Body(h, t, P, n)
  BY NthExists
<1> HIDE DEF g, h
<1>3. 0 \in T
  <2>1. g[0] = <<>> /\ h[0] = <<>>
    BY <1>1, <1>2 DEF Body
  <2>2. <<>> \in Seq(S) /\ <<>> \in Seq(R) /\ 0 \in 0..N
    BY <1>1
  <2> QED
    BY <2>1, <2>2
<1>4. ASSUME NEW n \in 1..N, n - 1 \in T PROVE n \in T
  <2> DEFINE x == g[n - 1]
             y == h[n - 1]
             e == s[n]
             d == t[n]
  <2>1. x \in Seq(S) /\ y \in Seq(R) /\ Len(x) = Len(y) /\ e \in S /\ d \in R /\ n \in 0..N /\ n # 0
    BY <1>4
  <2>2. g[n] = Body(g, s, P, n) /\ h[n] = Body(h, t, P, n)
    BY <1>2, <2>1
  <2>3. /\ n \in P => g[n] = Append(x, e) /\ h[n] = Append(y, d)
        /\ n \notin P => g[n] = x /\ h[n] = y
    BY <2>1, <2>2 DEF Body
  <2> HIDE DEF x, y, e, d
  <2>4. /\ Append(x, e) \in Seq(S) /\ Append(y, d) \in Seq(R)
        /\ Len(Append(x, e)) = Len(Append(y, d))
    BY <2>1
  <2> QED
    BY <2>1, <2>3, <2>4
<1> HIDE DEF T
<1>5. \A n \in 0..N : n \in T
  BY <1>1, <1>3, <1>4, Along
<1>6. Len(g[N]) = Len(h[N])
  BY <1>1, <1>5 DEF T
<1> QED
  BY <1>6, AtPositionsIsNth DEF g, h

\* The rows that are used, and what is made of them.
RowsIn(text) == Mapped(CsvFields, Lines(text))
UsedRows(text) == AtPositions(RowsIn(text), {i \in DOMAIN RowsIn(text) : Usable(RowsIn(text)[i])})

\* The import makes an account of each row that is used.
LEMMA FromCsvIs ==
    ASSUME NEW text
    PROVE  FromCsv(text) = [k \in DOMAIN UsedRows(text) |-> CsvAccount(UsedRows(text)[k])]
BY DEF FromCsv, UsedRows, RowsIn, Usable

\* As many accounts as used rows, each made of one.
LEMMA FromCsvMakes ==
    ASSUME NEW text \in Text
    PROVE  /\ RowsIn(text) \in Seq(Seq(Text)) /\ Len(RowsIn(text)) = Len(Lines(text))
           /\ \A i \in 1..Len(Lines(text)) : RowsIn(text)[i] = CsvFields(Lines(text)[i])
           /\ UsedRows(text) \in Seq(Seq(Text))
           /\ FromCsv(text) \in Seq(Record) /\ Len(FromCsv(text)) = Len(UsedRows(text))
           /\ \A k \in 1..Len(UsedRows(text)) : FromCsv(text)[k] = CsvAccount(UsedRows(text)[k])
<1> DEFINE L == Lines(text)
           R == RowsIn(text)
           U == UsedRows(text)
           V(i) == CsvFields(L[i])
           W(k) == CsvAccount(U[k])
           Q == Seq(Text)
<1>1. L \in Seq(Text)
  BY LinesTexts
<1>2. R = [i \in 1..Len(L) |-> V(i)]
  <2>1. DOMAIN L = 1..Len(L)
    BY <1>1
  <2> HIDE DEF L
  <2> QED
    BY <2>1 DEF RowsIn, Mapped, L
<1> HIDE DEF L
<1>3. \A i \in 1..Len(L) : V(i) \in Q
  <2>1. \A i \in 1..Len(L) : L[i] \in Text
    BY <1>1
  <2> QED
    BY <2>1, CsvFieldsTexts
<1>a. U = AtPositions(R, {i \in DOMAIN R : Usable(R[i])})
  BY DEF UsedRows
<1>b. FromCsv(text) = [k \in DOMAIN U |-> W(k)]
  BY FromCsvIs
<1> HIDE DEF R, V, Q
<1>4. R \in Seq(Q) /\ Len(R) = Len(L) /\ \A i \in 1..Len(L) : R[i] = V(i)
  <2>1. Len(L) \in Nat
    BY <1>1
  <2> QED
    BY <1>2, <1>3, <2>1
<1>5. U \in Seq(Q)
  <2> DEFINE P == {i \in DOMAIN R : Usable(R[i])}
  <2>1. U = AtPositions(R, P)
    BY <1>a
  <2> HIDE DEF P, U
  <2> QED
    BY <1>4, <2>1, Selected
<1> HIDE DEF U, W
<1>6. \A k \in 1..Len(U) : W(k) \in Record
  <2>1. ASSUME NEW k \in 1..Len(U) PROVE W(k) \in Record
    <3>1. U[k] \in Seq(Text)
      BY <1>5 DEF Q
    <3>2. CsvMade(CsvAccount(U[k]), U[k])
      BY <3>1, CsvAccountIs
    <3> QED
      BY <3>2 DEF W, CsvMade
  <2> QED
    BY <2>1
<1>7. DOMAIN U = 1..Len(U) /\ Len(U) \in Nat
  BY <1>5
<1>8. FromCsv(text) = [k \in 1..Len(U) |-> W(k)]
  BY <1>b, <1>7
<1> DEFINE X == [k \in 1..Len(U) |-> W(k)]
<1>9. X \in Seq(Record) /\ Len(X) = Len(U) /\ \A k \in 1..Len(U) : X[k] = W(k)
  BY <1>6, <1>7
<1> HIDE DEF X
<1>10. FromCsv(text) = X
  BY <1>8 DEF X
<1> QED
  BY <1>4, <1>5, <1>9, <1>10 DEF L, R, U, V, W, Q

\* A text of one line in every field is what CSV asks of an account.
LEMMA CsvCarries ==
    ASSUME NEW a \in Record, Carries("csv", a)
    PROVE  OneLined(a) /\ a.name # <<>> /\ a.password # <<>>
<1>1. DOMAIN a = DOMAIN Empty
  BY EmptyHas DEF Record
<1> QED
  BY <1>1 DEF Carries, OneLined

\* An account that CSV can carry is among those that are read.
LEMMA CsvAmong ==
    ASSUME NEW s \in Seq(Record), NEW i \in 1..Len(s), Carries("csv", s[i])
    PROVE  Contains(FromCsv(Written("csv", s)), s[i])
<1> DEFINE text == Written("csv", s)
           a == s[i]
           L == Lines(text)
           R == RowsIn(text)
           U == UsedRows(text)
           f == CsvFields(RowText(a))
<1>1. a \in Record /\ Carries("csv", a) /\ text \in Text
  BY RowsAre
<1>2. /\ R \in Seq(Seq(Text)) /\ Len(R) = Len(L)
      /\ \A n \in 1..Len(L) : R[n] = CsvFields(L[n])
      /\ FromCsv(text) \in Seq(Record) /\ Len(FromCsv(text)) = Len(U)
      /\ \A k \in 1..Len(U) : FromCsv(text)[k] = CsvAccount(U[k])
  BY <1>1, FromCsvMakes
<1>3. AmongLines(RowText(a), L)
  <2>1. OneLined(s[i])
    BY <1>1, CsvCarries
  <2> QED
    BY <2>1, LinesHave
<1>4. /\ Usable(f) /\ CsvAccount(f) = a
  BY <1>1, CsvCarries, RowReadsBack
<1>5. PICK n \in 1..Len(L) : L[n] = RowText(a)
  BY <1>3 DEF AmongLines
<1>6. R[n] = f
  BY <1>2, <1>5
<1> HIDE DEF a, text, R, L, U, f
<1>7. PICK k \in 1..Len(U) : U[k] = f
  <2> DEFINE P == {m \in DOMAIN R : Usable(R[m])}
  <2>1. U = AtPositions(R, P)
    BY DEF U, UsedRows, R
  <2>2. n \in (1..Len(R)) \cap P
    <3>1. DOMAIN R = 1..Len(R)
      BY <1>2
    <3> QED
      BY <1>2, <1>4, <1>6, <3>1
  <2> HIDE DEF P
  <2>3. Covers(U, R, P)
    BY <1>2, <2>1, Selected
  <2> QED
    BY <1>6, <2>2, <2>3 DEF Covers
<1>8. FromCsv(text)[k] = a /\ k \in 1..Len(FromCsv(text))
  BY <1>2, <1>4, <1>7
<1>9. Contains(FromCsv(text), a)
  BY <1>8 DEF Contains
<1> QED
  BY <1>9 DEF text, a

\* Where every account has texts of one line, the rows are the accounts', each read
\* on its own.
LEMMA CsvRows ==
    ASSUME NEW s \in Seq(Record), \A k \in 1..Len(s) : OneLined(s[k]),
           NEW text, text = Written("csv", s)
    PROVE  /\ Len(RowsIn(text)) = Len(s)
           /\ \A k \in 1..Len(s) : RowsIn(text)[k] = CsvFields(RowText(s[k]))
           /\ \A k \in 1..Len(s) :
                 Usable(RowsIn(text)[k]) <=> s[k].name # <<>> /\ s[k].password # <<>>
<1> DEFINE L == Lines(text)
           R == RowsIn(text)
<1>1. text \in Text /\ Len(s) \in Nat
  BY RowsAre
<1>2. Len(R) = Len(L) /\ \A k \in 1..Len(L) : R[k] = CsvFields(L[k])
  BY <1>1, FromCsvMakes
<1>3. L = RowTexts(s)
  BY LinesAreRows
<1> HIDE DEF R, L
<1>4. Len(L) = Len(s) /\ \A k \in 1..Len(s) : L[k] = RowText(s[k])
  <2> DEFINE V(k) == RowText(s[k])
  <2>1. L = [k \in 1..Len(s) |-> V(k)]
    BY <1>3 DEF RowTexts
  <2> HIDE DEF V
  <2>2. Len(L) = Len(s) /\ \A k \in 1..Len(s) : L[k] = V(k)
    BY <1>1, <2>1
  <2> QED
    BY <2>2 DEF V
<1>5. Len(R) = Len(s) /\ \A k \in 1..Len(s) : R[k] = CsvFields(RowText(s[k]))
  BY <1>2, <1>4
<1>6. ASSUME NEW k \in 1..Len(s)
      PROVE  Usable(R[k]) <=> s[k].name # <<>> /\ s[k].password # <<>>
  <2>1. s[k] \in Record /\ R[k] = CsvFields(RowText(s[k]))
    BY <1>5
  <2> QED
    BY <2>1, RowReadsBack
<1> QED
  BY <1>5, <1>6 DEF R

\* Where CSV can carry every account, what is read is what was written.
LEMMA CsvWhole ==
    ASSUME NEW s \in Seq(Record), \A k \in 1..Len(s) : Carries("csv", s[k])
    PROVE  FromCsv(Written("csv", s)) = s
<1> DEFINE text == Written("csv", s)
           R == RowsIn(text)
           U == UsedRows(text)
           N == Len(s)
<1>1. /\ text \in Text /\ N \in Nat
      /\ \A k \in 1..N : /\ s[k] \in Record /\ OneLined(s[k])
                         /\ s[k].name # <<>> /\ s[k].password # <<>>
  <2>1. \A k \in 1..N : s[k] \in Record
    OBVIOUS
  <2>2. \A k \in 1..N : OneLined(s[k]) /\ s[k].name # <<>> /\ s[k].password # <<>>
    BY <2>1, CsvCarries
  <2>3. N \in Nat
    OBVIOUS
  <2>4. text \in Text
    BY RowsAre
  <2> QED
    BY <2>1, <2>2, <2>3, <2>4
<1>2. /\ R \in Seq(Seq(Text)) /\ FromCsv(text) \in Seq(Record) /\ Len(FromCsv(text)) = Len(U)
      /\ \A k \in 1..Len(U) : FromCsv(text)[k] = CsvAccount(U[k])
  BY <1>1, FromCsvMakes
<1>3. /\ Len(R) = N
      /\ \A k \in 1..N : R[k] = CsvFields(RowText(s[k])) /\ Usable(R[k])
  BY <1>1, CsvRows
<1> HIDE DEF R, U, text
<1>4. First(U, R, N)
  <2> DEFINE P == {m \in DOMAIN R : Usable(R[m])}
  <2>1. U = AtPositions(R, P)
    BY DEF U, UsedRows, R
  <2>2. (1..Len(R)) \cap P = 1..N
    <3>1. DOMAIN R = 1..N
      BY <1>2, <1>3
    <3> QED
      BY <1>3, <3>1
  <2> HIDE DEF P
  <2> QED
    BY <1>1, <1>2, <2>1, <2>2, SelectedFirst
<1>5. Len(U) = N /\ \A k \in 1..N : U[k] = R[k]
  BY <1>4 DEF First
<1>6. ASSUME NEW k \in 1..N PROVE FromCsv(text)[k] = s[k]
  <2>1. FromCsv(text)[k] = CsvAccount(CsvFields(RowText(s[k])))
    BY <1>2, <1>3, <1>5
  <2> QED
    BY <1>1, <2>1, RowReadsBack
<1>7. FromCsv(text) = s
  BY <1>2, <1>5, <1>6, SeqEqual
<1> QED
  BY <1>7 DEF text

\* Where every account has texts of one line, as many are read as are counted.
LEMMA CsvCounts ==
    ASSUME NEW s \in Seq(Record), \A k \in 1..Len(s) : OneLined(s[k])
    PROVE  Len(FromCsv(Written("csv", s)))
              = Len(AtPositions(s, {i \in DOMAIN s : Counted("csv", s[i])}))
<1> DEFINE text == Written("csv", s)
           R == RowsIn(text)
           N == Len(s)
           P == {i \in DOMAIN s : Counted("csv", s[i])}
<1>1. text \in Text /\ DOMAIN s = 1..N
  BY RowsAre
<1>2. R \in Seq(Seq(Text)) /\ Len(FromCsv(text)) = Len(UsedRows(text))
  BY <1>1, FromCsvMakes
<1>3. Len(R) = N /\ \A k \in 1..N : Usable(R[k]) <=> s[k].name # <<>> /\ s[k].password # <<>>
  BY CsvRows
<1> HIDE DEF R, text
<1>4. P = {i \in DOMAIN R : Usable(R[i])}
  <2>1. DOMAIN R = 1..N
    BY <1>2, <1>3
  <2>2. \A i \in 1..N : Counted("csv", s[i]) <=> Usable(R[i])
    BY <1>3 DEF Counted
  <2> QED
    BY <1>1, <2>1, <2>2
<1>5. UsedRows(text) = AtPositions(R, P)
  BY <1>4 DEF UsedRows, R
<1> HIDE DEF P
<1>6. Len(AtPositions(R, P)) = Len(AtPositions(s, P))
  BY <1>2, <1>3, SameLength
<1> QED
  BY <1>2, <1>5, <1>6 DEF text, P

\* The readers of a line and of a row, as functions, and the rows that are used.
LineReader == [l \in Text |-> CsvFields(l)]
RowReader == [f \in Seq(Text) |-> CsvAccount(f)]
UsableRows == {f \in Seq(Text) : Usable(f)}

\* The steps of an import of CSV.
LEMMA FromCsvSteps ==
    ASSUME NEW text \in Text
    PROVE  /\ LineReader \in [Text -> Seq(Text)] /\ RowReader \in [Seq(Text) -> Record]
           /\ Over(LineReader, Lines(text)) \in Seq(Seq(Text))
           /\ Len(Over(LineReader, Lines(text))) = Len(Lines(text))
           /\ UsedRows(text) = Chosen(Over(LineReader, Lines(text)), UsableRows)
           /\ UsedRows(text) \in Seq(Seq(Text))
           /\ FromCsv(text) = Over(RowReader, UsedRows(text))
<1> DEFINE L == Lines(text)
           R == RowsIn(text)
           U == UsedRows(text)
           Q == Seq(Text)
           O == Over(LineReader, L)
<1>1. L \in Seq(Text)
  BY LinesTexts
<1>2. LineReader \in [Text -> Q]
  BY CsvFieldsTexts DEF LineReader
<1>3. RowReader \in [Q -> Record]
  <2>1. \A f \in Q : CsvAccount(f) \in Record
    BY CsvAccountIs DEF CsvMade
  <2> HIDE DEF Q
  <2>2. [f \in Q |-> CsvAccount(f)] \in [Q -> Record]
    BY <2>1
  <2> QED
    BY <2>2 DEF RowReader, Q
<1>4. /\ R \in Seq(Q) /\ Len(R) = Len(L) /\ \A i \in 1..Len(L) : R[i] = CsvFields(L[i])
      /\ U \in Seq(Q) /\ Len(FromCsv(text)) = Len(U) /\ FromCsv(text) \in Seq(Record)
      /\ \A k \in 1..Len(U) : FromCsv(text)[k] = CsvAccount(U[k])
  BY FromCsvMakes
<1>a. U = AtPositions(R, {i \in DOMAIN R : Usable(R[i])})
  BY DEF UsedRows
<1> HIDE DEF L, R, U
<1>5. OverEach(Q, LineReader, L)
  <2> HIDE DEF Q
  <2> QED
    BY <1>1, <1>2, OverIs
<1>6. O \in Seq(Q) /\ Len(O) = Len(L) /\ \A i \in 1..Len(L) : O[i] = LineReader[L[i]]
  BY <1>5 DEF OverEach
<1>7. \A i \in 1..Len(L) : LineReader[L[i]] = CsvFields(L[i])
  <2>1. \A i \in 1..Len(L) : L[i] \in Text
    BY <1>1
  <2> QED
    BY <2>1 DEF LineReader
<1> HIDE DEF O
<1>8. R = O
  <2> HIDE DEF Q
  <2> QED
    BY <1>4, <1>6, <1>7, SeqEqual
<1>9. U = Chosen(R, UsableRows)
  <2>1. DOMAIN R = 1..Len(R) /\ \A i \in 1..Len(R) : R[i] \in Q
    BY <1>4
  <2>2. {i \in DOMAIN R : Usable(R[i])} = {i \in DOMAIN R : R[i] \in UsableRows}
    BY <2>1 DEF UsableRows
  <2> QED
    BY <1>a, <2>2 DEF Chosen
<1>10. FromCsv(text) = Over(RowReader, U)
  <2> HIDE DEF Q
  <2>1. OverEach(Record, RowReader, U)
    BY <1>3, <1>4, OverIs
  <2> DEFINE X == Over(RowReader, U)
  <2>2. X \in Seq(Record) /\ Len(X) = Len(U) /\ \A k \in 1..Len(U) : X[k] = RowReader[U[k]]
    BY <2>1 DEF OverEach
  <2>3. \A k \in 1..Len(U) : RowReader[U[k]] = CsvAccount(U[k])
    <3>1. \A k \in 1..Len(U) : U[k] \in Q
      BY <1>4
    <3> QED
      BY <3>1 DEF RowReader, Q
  <2> HIDE DEF X
  <2>4. FromCsv(text) = X
    BY <1>4, <2>2, <2>3, SeqEqual
  <2> QED
    BY <2>4 DEF X
<1> QED
  BY <1>2, <1>3, <1>4, <1>6, <1>8, <1>9, <1>10 DEF L, U, O

\* Where the lines of a text are those of two, so are the accounts.
LEMMA FromCsvConcat ==
    ASSUME NEW t \in Text, NEW u \in Text, NEW v \in Text, Lines(t) = Lines(u) \o Lines(v)
    PROVE  FromCsv(t) = FromCsv(u) \o FromCsv(v)
<1> DEFINE Q == Seq(Text)
           F == LineReader
           A == RowReader
           G == UsableRows
           O(x) == Over(F, Lines(x))
           C(x) == Chosen(O(x), G)
<1>1. \A x \in Text : /\ O(x) \in Seq(Q) /\ C(x) \in Seq(Q)
                      /\ FromCsv(x) = Over(A, C(x)) /\ Lines(x) \in Seq(Text)
  BY FromCsvSteps, LinesTexts
<1>2. F \in [Text -> Q] /\ A \in [Q -> Record]
  BY FromCsvSteps
<1> HIDE DEF Q, F, A, G
<1>3. O(t) = O(u) \o O(v)
  <2> DEFINE x == Lines(u)
             y == Lines(v)
  <2>1. x \in Seq(Text) /\ y \in Seq(Text)
    BY LinesTexts
  <2> HIDE DEF x, y
  <2>2. OverJoins(F, x, y)
    BY <1>2, <2>1, OverConcat
  <2> QED
    BY <2>2 DEF OverJoins, x, y
<1>4. C(t) = C(u) \o C(v)
  <2> DEFINE x == O(u)
             y == O(v)
  <2>1. x \in Seq(Q) /\ y \in Seq(Q)
    BY <1>1
  <2> HIDE DEF x, y
  <2>2. Chosen(x \o y, G) = Chosen(x, G) \o Chosen(y, G)
    BY <2>1, ChosenConcat
  <2> QED
    BY <1>3, <2>2 DEF x, y
<1>5. Over(A, C(t)) = Over(A, C(u)) \o Over(A, C(v))
  <2> DEFINE x == C(u)
             y == C(v)
  <2>1. x \in Seq(Q) /\ y \in Seq(Q)
    BY <1>1
  <2> HIDE DEF x, y
  <2>2. OverJoins(A, x, y)
    BY <1>2, <2>1, OverConcat
  <2> QED
    BY <1>4, <2>2 DEF OverJoins, x, y
<1> HIDE DEF C
<1> QED
  BY <1>1, <1>5

\* A piece of a line makes at most one account.
LEMMA FromCsvPiece ==
    ASSUME NEW p \in Text
    PROVE  /\ FromCsv(p) \in Seq(Record)
           /\ Lacks(p, "newline") => Len(FromCsv(p)) \in {0, 1}
<1>1. FromCsv(p) \in Seq(Record) /\ Len(FromCsv(p)) = Len(UsedRows(p))
  BY FromCsvMakes
<1>2. ASSUME Lacks(p, "newline") PROVE Len(FromCsv(p)) \in {0, 1}
  <2> DEFINE O == Over(LineReader, Lines(p))
             Q == Seq(Text)
  <2>1. Len(Lines(p)) \in {0, 1}
    BY <1>2, LinesOfPiece
  <2>2. O \in Seq(Q) /\ Len(O) = Len(Lines(p)) /\ UsedRows(p) = Chosen(O, UsableRows)
    BY FromCsvSteps
  <2> DEFINE G == UsableRows
  <2> HIDE DEF O, Q, G
  <2>a. O \in Seq(Q) /\ Len(O) \in {0, 1}
    BY <2>1, <2>2
  <2>b. Len(Chosen(O, G)) \in {0, 1}
    BY <2>a, ChosenShorter
  <2>3. Len(Chosen(O, UsableRows)) \in {0, 1}
    BY <2>b DEF G
  <2> QED
    BY <1>1, <2>2, <2>3
<1> QED
  BY <1>1, <1>2

\* A part of an account's line has a line break only if the account has one.
LEMMA CsvTorn ==
    ASSUME NEW a \in Record, NEW piece \in Torn("csv", a)
    PROVE  piece \in Text /\ (OneLined(a) => Lacks(piece, "newline"))
<1> DEFINE line == CsvLine(a)
           u == RowText(a)
<1>1. line = Append(u, "newline")
  BY CsvLineIs
<1>2. u \in Seq(Chars) /\ "newline" \in Chars
  <2>1. u \in Text
    BY RowItemsAre
  <2>2. u \in Seq(Chars)
    BY <2>1 DEF Text
  <2> HIDE DEF u
  <2> QED
    BY <2>2, CharsAssumption
<1>3. PICK n \in 0..(Len(line) - 1) : piece = SubSeq(line, 1, n)
  BY DEF Torn
<1>4. OneLined(a) => Lacks(u, "newline")
  BY RowFree
<1> HIDE DEF u, line
<1>5. line \in Seq(Chars) /\ Len(line) = Len(u) + 1 /\ Len(u) \in Nat
      /\ \A i \in 1..Len(u) : line[i] = u[i]
  BY <1>1, <1>2
<1>6. n \in 0..Len(u) /\ \A i \in 1..n : line[i] \in Chars
  BY <1>5
<1>7. piece \in Seq(Chars) /\ Len(piece) = n /\ \A i \in 1..n : piece[i] = line[i]
  BY <1>3, <1>5, <1>6, SubSeqProperties
<1>8. \A i \in 1..Len(piece) : i \in 1..Len(u) /\ piece[i] = u[i]
  BY <1>5, <1>6, <1>7
<1> QED
  BY <1>4, <1>7, <1>8 DEF Lacks, Text

-----------------------------------------------------------------------------
(* The accounts that are read of a file *)

\* What an import makes of the file that an export has written of s.
ReadsBack(format, s) == Read(format, Written(format, s))

\* Every account that the format can carry is among those that are read, and where
\* it can carry all of them they are the ones that were written.
Survive(format, s) ==
    /\ \A i \in 1..Len(s) : Carries(format, s[i]) => Contains(ReadsBack(format, s), s[i])
    /\ (\A i \in 1..Len(s) : Carries(format, s[i])) => ReadsBack(format, s) = s

\* As many are read as are counted; of a CSV file, if it has no other line breaks.
Numbered(format, s) ==
    (format = "csv" => \A i \in 1..Len(s) : OneLined(s[i])) =>
        Len(ReadsBack(format, s)) = Len(AtPositions(s, {i \in DOMAIN s : Counted(format, s[i])}))

\* What is read of a CSV file.
LEMMA CsvReadsBack ==
    ASSUME NEW s \in Seq(Record)
    PROVE  ReadsBack("csv", s) \in Seq(Record) /\ Survive("csv", s) /\ Numbered("csv", s)
<1>1. ReadsBack("csv", s) = FromCsv(Written("csv", s))
  BY DEF ReadsBack, Read
<1>2. FromCsv(Written("csv", s)) \in Seq(Record)
  BY RowsAre, FromCsvMakes
<1>3. Survive("csv", s)
  BY <1>1, CsvAmong, CsvWhole DEF Survive
<1>4. Numbered("csv", s)
  BY <1>1, CsvCounts DEF Numbered
<1> QED
  BY <1>1, <1>2, <1>3, <1>4

\* The accounts of an XML file, one of each entry.
LEMMA XmlEach ==
    ASSUME NEW s \in Seq(Record), NEW r, r = ReadsBack("xml", s)
    PROVE  /\ r \in Seq(Record) /\ Len(r) = Len(s)
           /\ \A i \in 1..Len(s) : Carries("xml", s[i]) => r[i] = s[i]
<1> DEFINE E(i) == XmlEntry(s[i])
           V(i) == FromXmlEntry(E(i))
           es == [i \in 1..Len(s) |-> E(i)]
<1>1. DOMAIN s = 1..Len(s) /\ Len(s) \in Nat
  OBVIOUS
<1>2. Written("xml", s) = es
  BY <1>1 DEF Written, Mapped
<1>3. r = [i \in DOMAIN es |-> FromXmlEntry(es[i])]
  BY <1>2 DEF ReadsBack, Read, Mapped
<1>4. \A i \in 1..Len(s) : V(i) \in Record /\ (Carries("xml", s[i]) => V(i) = s[i])
  <2>1. \A i \in 1..Len(s) : s[i] \in Record
    OBVIOUS
  <2> QED
    BY <2>1, XmlReadsBack
<1>5. r = [i \in 1..Len(s) |-> V(i)]
  <2> HIDE DEF E
  <2> QED
    BY <1>3
<1> HIDE DEF V
<1>6. r \in Seq(Record) /\ Len(r) = Len(s) /\ \A i \in 1..Len(s) : r[i] = V(i)
  BY <1>1, <1>4, <1>5
<1> QED
  BY <1>4, <1>6

\* What is read of an XML file.
LEMMA XmlReadsAllBack ==
    ASSUME NEW s \in Seq(Record)
    PROVE  ReadsBack("xml", s) \in Seq(Record) /\ Survive("xml", s) /\ Numbered("xml", s)
<1> DEFINE r == ReadsBack("xml", s)
<1>1. /\ r \in Seq(Record) /\ Len(r) = Len(s)
      /\ \A i \in 1..Len(s) : Carries("xml", s[i]) => r[i] = s[i]
  BY XmlEach
<1> HIDE DEF r
<1>2. ASSUME NEW i \in 1..Len(s), Carries("xml", s[i]) PROVE Contains(r, s[i])
  <2>1. i \in 1..Len(r) /\ r[i] = s[i]
    BY <1>1, <1>2
  <2> QED
    BY <2>1 DEF Contains
<1>3. ASSUME \A i \in 1..Len(s) : Carries("xml", s[i]) PROVE r = s
  <2>1. \A i \in 1..Len(s) : r[i] = s[i]
    BY <1>1, <1>3
  <2> QED
    BY <1>1, <2>1, SeqEqual
<1>4. Survive("xml", s)
  BY <1>2, <1>3 DEF Survive, r
<1>5. Numbered("xml", s)
  <2> DEFINE P == {i \in DOMAIN s : Counted("xml", s[i])}
             t == AtPositions(s, P)
             N == Len(s)
  <2>1. (1..N) \cap P = 1..N /\ N \in Nat
    <3>1. DOMAIN s = 1..N
      OBVIOUS
    <3> QED
      BY <3>1 DEF Counted
  <2> HIDE DEF P
  <2>2. First(t, s, N)
    BY <2>1, SelectedFirst
  <2>3. Len(t) = N
    BY <2>2 DEF First
  <2> QED
    BY <1>1, <2>3 DEF Numbered, P, r
<1> QED
  BY <1>1, <1>4, <1>5 DEF r

\* The records of a 1Password file, one of each account, and what is read of them
\* before those with the separator and the nameless are dropped.
PifRead(s) == Mapped(FromPifRecord, Mapped(PifRecord, s))

\* Records, whole or in part, the writer and the reader of one, and what is dropped.
PifRecords == UNION {[D -> Text] : D \in SUBSET Kept}
PifWriter == [a \in Record |-> PifRecord(a)]
PifReader == [r \in PifRecords |-> FromPifRecord(r)]
Unbroken == {r \in PifRecords : ~Separated(r)}
Titled == {a \in Record : a.name # <<>>}
\* The accounts without the separator.
Clear == {a \in Record : \A f \in DOMAIN a : ~Has(a[f], "separator")}

\* They are functions.
LEMMA PifTypes ==
    /\ PifWriter \in [Record -> PifRecords] /\ PifReader \in [PifRecords -> Record]
    /\ \A r \in PifRecords : \A f \in DOMAIN r : r[f] \in Text
<1>1. \A r \in PifRecords : \A f \in DOMAIN r : r[f] \in Text
  BY DEF PifRecords
<1>2. ASSUME NEW a \in Record PROVE PifRecord(a) \in PifRecords
  <2> DEFINE r == PifRecord(a)
             D == Present(a)
             v == Values(a)
  <2>1. DOMAIN r = D /\ D \subseteq Kept /\ \A f \in D : r[f] \in Text
    BY PifRecordIs
  <2>2. r = [f \in D |-> Append(EscapeJson(v[f]), "quote")]
    BY DEF PifRecord, Values, Present
  <2>3. r = [f \in D |-> r[f]]
    <3> HIDE DEF D, v
    <3> QED
      BY <2>2
  <2> HIDE DEF r, D
  <2>4. r \in [D -> Text]
    BY <2>1, <2>3
  <2>5. r \in PifRecords
    BY <2>1, <2>4 DEF PifRecords
  <2> QED
    BY <2>5 DEF r
<1>3. \A r \in PifRecords : FromPifRecord(r) \in Record
  BY <1>1, PifMakes
<1>4. [a \in Record |-> PifRecord(a)] \in [Record -> PifRecords]
  BY <1>2
<1>5. [r \in PifRecords |-> FromPifRecord(r)] \in [PifRecords -> Record]
  BY <1>3
<1> QED
  BY <1>1, <1>4, <1>5 DEF PifWriter, PifReader

\* Mapping an operator is mapping the function.
LEMMA PifMaps ==
    /\ \A s \in Seq(Record) : Mapped(PifRecord, s) = Over(PifWriter, s)
    /\ \A s \in Seq(PifRecords) : Mapped(FromPifRecord, s) = Over(PifReader, s)
<1>1. ASSUME NEW s \in Seq(Record) PROVE Mapped(PifRecord, s) = Over(PifWriter, s)
  <2>1. DOMAIN s = 1..Len(s) /\ \A i \in 1..Len(s) : s[i] \in Record
    OBVIOUS
  <2>2. \A i \in 1..Len(s) : PifWriter[s[i]] = PifRecord(s[i])
    BY <2>1 DEF PifWriter
  <2>3. [i \in DOMAIN s |-> PifRecord(s[i])] = [i \in DOMAIN s |-> PifWriter[s[i]]]
    BY <2>1, <2>2
  <2> QED
    BY <2>3 DEF Mapped, Over
<1>2. ASSUME NEW s \in Seq(PifRecords) PROVE Mapped(FromPifRecord, s) = Over(PifReader, s)
  <2>1. DOMAIN s = 1..Len(s) /\ \A i \in 1..Len(s) : s[i] \in PifRecords
    OBVIOUS
  <2>2. \A i \in 1..Len(s) : PifReader[s[i]] = FromPifRecord(s[i])
    BY <2>1 DEF PifReader
  <2>3. [i \in DOMAIN s |-> FromPifRecord(s[i])] = [i \in DOMAIN s |-> PifReader[s[i]]]
    BY <2>1, <2>2
  <2> QED
    BY <2>3 DEF Mapped, Over
<1> QED
  BY <1>1, <1>2

\* The steps of an import of 1PIF.
PifImport(s) == Chosen(Over(PifReader, Chosen(s, Unbroken)), Titled)

LEMMA PifSteps ==
    ASSUME NEW s \in Seq(PifRecords)
    PROVE  /\ Read("1pif", s) = PifImport(s)
           /\ Chosen(s, Unbroken) \in Seq(PifRecords)
           /\ Over(PifReader, Chosen(s, Unbroken)) \in Seq(Record)
           /\ PifImport(s) \in Seq(Record)
<1> DEFINE c == Chosen(s, Unbroken)
           o == Over(PifReader, c)
<1>1. c \in Seq(PifRecords)
  BY ChosenIn
<1>2. Unseparated(s) = c
  <2>1. DOMAIN s = 1..Len(s) /\ \A i \in 1..Len(s) : s[i] \in PifRecords
    OBVIOUS
  <2>2. {i \in DOMAIN s : ~Separated(s[i])} = {i \in DOMAIN s : s[i] \in Unbroken}
    BY <2>1 DEF Unbroken
  <2> QED
    BY <2>2 DEF Unseparated, Chosen
<1> HIDE DEF c
<1>3. Mapped(FromPifRecord, c) = o
  BY <1>1, PifMaps
<1>4. o \in Seq(Record)
  <2>1. OverEach(Record, PifReader, c)
    BY <1>1, PifTypes, OverIs
  <2> QED
    BY <2>1 DEF OverEach
<1> HIDE DEF o
<1>5. WithNames(o) = Chosen(o, Titled)
  <2>1. DOMAIN o = 1..Len(o) /\ \A i \in 1..Len(o) : o[i] \in Record
    BY <1>4
  <2>2. {i \in DOMAIN o : o[i].name # <<>>} = {i \in DOMAIN o : o[i] \in Titled}
    BY <2>1 DEF Titled
  <2> QED
    BY <2>2 DEF WithNames, Chosen
<1>6. Chosen(o, Titled) \in Seq(Record)
  BY <1>4, ChosenIn
<1>7. Read("1pif", s) = WithNames(Mapped(FromPifRecord, Unseparated(s)))
  BY DEF Read
<1> QED
  BY <1>1, <1>2, <1>3, <1>4, <1>5, <1>6, <1>7 DEF PifImport, o, c

\* What is read of two sequences of records is read of each.
LEMMA PifConcat ==
    ASSUME NEW s \in Seq(PifRecords), NEW t \in Seq(PifRecords)
    PROVE  PifImport(s \o t) = PifImport(s) \o PifImport(t)
<1> DEFINE B == Unbroken
           F == PifReader
           P == PifRecords
           c == Chosen(s, B)
           d == Chosen(t, B)
<1>1. F \in [P -> Record]
  BY PifTypes
<1> HIDE DEF B, F, P
<1>2. c \in Seq(P) /\ d \in Seq(P)
  BY ChosenIn DEF P
<1>3. Chosen(s \o t, B) = c \o d
  BY ChosenConcat
<1> HIDE DEF c, d
<1>4. Over(F, c \o d) = Over(F, c) \o Over(F, d)
  <2>1. OverJoins(F, c, d)
    BY <1>1, <1>2, OverConcat
  <2> QED
    BY <2>1 DEF OverJoins
<1> DEFINE x == Over(F, c)
           y == Over(F, d)
<1>5. x \in Seq(Record) /\ y \in Seq(Record)
  <2>1. OverEach(Record, F, c) /\ OverEach(Record, F, d)
    BY <1>1, <1>2, OverIs
  <2> QED
    BY <2>1 DEF OverEach
<1> HIDE DEF x, y
<1>6. Chosen(x \o y, Titled) = Chosen(x, Titled) \o Chosen(y, Titled)
  BY <1>5, ChosenConcat
<1> QED
  BY <1>3, <1>4, <1>6 DEF PifImport, x, y, c, d, F, B

\* A piece of a record makes at most one account.
LEMMA PifTorn ==
    ASSUME NEW a \in Record, NEW piece \in Torn("1pif", a)
    PROVE  piece \in Seq(PifRecords) /\ PifImport(piece) \in Seq(Record)
           /\ Len(PifImport(piece)) \in {0, 1}
<1>1. piece \in Seq(PifRecords) /\ Len(piece) \in {0, 1}
  <2>1. CASE piece = <<>>
    <3>1. <<>> \in Seq(PifRecords) /\ Len(<<>>) = 0
      OBVIOUS
    <3> QED
      BY <2>1, <3>1
  <2>2. CASE piece # <<>>
    <3> DEFINE r == PifRecord(a)
    <3>1. PICK part : piece = <<[f \in part \cap DOMAIN r |-> r[f]]>>
      BY <2>2 DEF Torn
    <3>2. DOMAIN r \subseteq Kept /\ \A f \in DOMAIN r : r[f] \in Text
      BY PifRecordIs
    <3> HIDE DEF r
    <3> DEFINE D == part \cap DOMAIN r
               q == [f \in D |-> r[f]]
    <3>3. D \in SUBSET Kept /\ q \in [D -> Text]
      BY <3>2
    <3>4. piece = <<q>>
      BY <3>1
    <3> HIDE DEF D, q
    <3>5. q \in PifRecords
      BY <3>3 DEF PifRecords
    <3> QED
      BY <3>4, <3>5
  <2> QED
    BY <2>1, <2>2
<1> DEFINE c == Chosen(piece, Unbroken)
           o == Over(PifReader, c)
<1>2. c \in Seq(PifRecords) /\ Len(c) \in {0, 1}
  BY <1>1, ChosenShorter
<1> HIDE DEF c
<1>3. OverEach(Record, PifReader, c)
  BY <1>2, PifTypes, OverIs
<1>4. o \in Seq(Record) /\ Len(o) \in {0, 1}
  BY <1>2, <1>3 DEF OverEach
<1> HIDE DEF o
<1>5. Chosen(o, Titled) \in Seq(Record) /\ Len(Chosen(o, Titled)) \in {0, 1}
  BY <1>4, ChosenShorter
<1> QED
  BY <1>1, <1>5 DEF PifImport, o, c

\* The address and the notes share a value.
LEMMA WithEmailHas ==
    ASSUME NEW a \in Record, NEW b, b \notin {"Email", "newline"}
    PROVE  Has(WithEmail(a), b) <=> Has(a.email, b) \/ Has(a.notes, b)
<1> DEFINE e == a.email
           n == a.notes
           w == WithEmail(a)
           h == <<"Email">>
           m == <<"newline", "newline">>
<1>1. e \in Seq(Chars) /\ n \in Seq(Chars)
  BY DEF Record, Text
<1>2. /\ e = <<>> => w = n
      /\ e # <<>> /\ n = <<>> => w = h \o e \o <<>>
      /\ e # <<>> /\ n # <<>> => w = h \o e \o (m \o n)
  BY DEF WithEmail
<1>3. "Email" \in Chars /\ "newline" \in Chars
  BY CharsAssumption
<1>4. h \in Seq(Chars) /\ Len(h) = 1 /\ h[1] = "Email" /\ m \in Seq(Chars) /\ Len(m) = 2
      /\ m[1] = "newline" /\ m[2] = "newline"
  BY <1>3
<1> HIDE DEF e, n, w, h, m
<1>a. \A x, y \in Seq(Chars) : Lacks(x \o y, b) <=> Lacks(x, b) /\ Lacks(y, b)
  <2> SUFFICES ASSUME NEW x \in Seq(Chars), NEW y \in Seq(Chars)
               PROVE  Lacks(x \o y, b) <=> Lacks(x, b) /\ Lacks(y, b)
    OBVIOUS
  <2> DEFINE z == x \o y
  <2>1. /\ Len(z) = Len(x) + Len(y) /\ Len(x) \in Nat /\ Len(y) \in Nat
        /\ \A i \in 1..Len(x) : z[i] = x[i]
        /\ \A i \in 1..Len(y) : z[Len(x) + i] = y[i]
    OBVIOUS
  <2> HIDE DEF z
  <2>2. ASSUME Lacks(z, b) PROVE Lacks(x, b) /\ Lacks(y, b)
    <3>1. \A i \in 1..Len(x) : i \in 1..Len(z)
      BY <2>1
    <3>2. \A i \in 1..Len(y) : Len(x) + i \in 1..Len(z)
      BY <2>1
    <3> QED
      BY <2>1, <2>2, <3>1, <3>2 DEF Lacks
  <2>3. ASSUME Lacks(x, b), Lacks(y, b), NEW i \in 1..Len(z) PROVE z[i] # b
    <3>1. CASE i \in 1..Len(x)
      BY <2>1, <2>3, <3>1 DEF Lacks
    <3>2. CASE i \notin 1..Len(x)
      <4>1. i - Len(x) \in 1..Len(y) /\ i = Len(x) + (i - Len(x))
        BY <2>1, <3>2
      <4>2. z[Len(x) + (i - Len(x))] = y[i - Len(x)]
        BY <2>1, <4>1
      <4> QED
        BY <2>3, <4>1, <4>2 DEF Lacks
    <3> QED
      BY <3>1, <3>2
  <2>4. Lacks(z, b) <=> Lacks(x, b) /\ Lacks(y, b)
    BY <2>2, <2>3 DEF Lacks
  <2> QED
    BY <2>4 DEF z
<1>5. Lacks(h, b) /\ Lacks(m, b)
  <2>1. \A i \in 1..Len(h) : i = 1
    BY <1>4
  <2>2. \A i \in 1..Len(m) : i = 1 \/ i = 2
    BY <1>4
  <2> QED
    BY <1>4, <2>1, <2>2 DEF Lacks
<1>6. Lacks(<<>>, b) /\ <<>> \in Seq(Chars)
  BY DEF Lacks
<1>7. Lacks(w, b) <=> Lacks(e, b) /\ Lacks(n, b)
  <2>1. h \o e \in Seq(Chars) /\ m \o n \in Seq(Chars)
    BY <1>1, <1>4
  <2>2. Lacks(h \o e, b) <=> Lacks(e, b)
    BY <1>1, <1>4, <1>5, <1>a
  <2>3. Lacks(m \o n, b) <=> Lacks(n, b)
    BY <1>1, <1>4, <1>5, <1>a
  <2>4. Lacks(h \o e \o <<>>, b) <=> Lacks(e, b)
    BY <1>6, <1>a, <2>1, <2>2
  <2>5. Lacks(h \o e \o (m \o n), b) <=> Lacks(e, b) /\ Lacks(n, b)
    BY <1>a, <2>1, <2>2, <2>3
  <2>6. CASE e = <<>>
    BY <1>2, <1>6, <2>6
  <2>7. CASE e # <<>> /\ n = <<>>
    BY <1>2, <1>6, <2>4, <2>7
  <2>8. CASE e # <<>> /\ n # <<>>
    BY <1>2, <2>5, <2>8
  <2> QED
    BY <2>6, <2>7, <2>8
<1> QED
  BY <1>7, FreeIsNotHas DEF w, e, n

\* The accounts whose records are dropped are those with the separator.
LEMMA PifClear ==
    ASSUME NEW a \in Record
    PROVE  a \in Clear <=> PifWriter[a] \in Unbroken
<1> DEFINE r == PifRecord(a)
           v == Values(a)
           P == Present(a)
           b == "separator"
<1>1. /\ PifWriter[a] = r /\ r \in PifRecords
  <2>1. PifWriter[a] = r
    BY DEF PifWriter
  <2>2. PifWriter[a] \in PifRecords
    BY PifTypes
  <2> QED
    BY <2>1, <2>2
<1>2. /\ DOMAIN r = P /\ P \subseteq Kept
      /\ \A f \in P : r[f] = Append(EscapeJson(v[f]), "quote")
  BY PifRecordIs
<1>3. /\ \A f \in Kept : v[f] \in Text
      /\ v["name"] = a.name /\ v["user"] = a.user /\ v["password"] = a.password
      /\ v["website"] = a.website /\ v["notes"] = WithEmail(a)
  BY ValuesTexts
<1>4. P = {"name", "user", "password"} \cup {f \in {"website", "notes"} : v[f] # <<>>}
  BY DEF Present
<1> HIDE DEF r, v, P
<1>5. ASSUME NEW f \in P PROVE Has(r[f], b) <=> Has(v[f], b)
  <2> DEFINE t == v[f]
  <2>1. t \in Text /\ r[f] = Append(EscapeJson(t), "quote")
    BY <1>2, <1>3
  <2>2. t \in Text
    BY <2>1
  <2>3. b \notin {"quote", "backslash", "newline", "n"}
    OBVIOUS
  <2> HIDE DEF t, b
  <2>4. Has(Append(EscapeJson(t), "quote"), b) <=> Has(t, b)
    BY <2>2, <2>3, EscapeKeeps
  <2> QED
    BY <2>1, <2>4 DEF t
<1>6. Separated(r) <=> \E f \in P : Has(v[f], b)
  <2>1. Separated(r) <=> \E f \in P : Has(r[f], b)
    BY <1>2 DEF Separated
  <2> QED
    BY <1>5, <2>1, Zenon
<1>7. ~Has(<<>>, b)
  BY DEF Has, Contains
<1>8. Separated(r) <=> \E f \in Kept : Has(v[f], b)
  <2>1. \A f \in Kept : f \in P \/ v[f] = <<>>
    BY <1>4 DEF Kept
  <2> QED
    BY <1>2, <1>6, <1>7, <2>1
<1>9. Has(WithEmail(a), b) <=> Has(a.email, b) \/ Has(a.notes, b)
  BY WithEmailHas
<1>10. Separated(r) <=> \/ Has(a.name, b) \/ Has(a.user, b) \/ Has(a.password, b)
                        \/ Has(a.website, b) \/ Has(a.email, b) \/ Has(a.notes, b)
  BY <1>3, <1>8, <1>9 DEF Kept
<1>11. DOMAIN a = {"name", "user", "password", "email", "website", "notes"}
  BY DEF Record
<1>12. (\E f \in DOMAIN a : Has(a[f], b))
          <=> \/ Has(a.name, b) \/ Has(a.user, b) \/ Has(a.password, b)
              \/ Has(a.website, b) \/ Has(a.email, b) \/ Has(a.notes, b)
  BY <1>11
<1>13. a \in Clear <=> ~Separated(r)
  BY <1>10, <1>12 DEF Clear
<1>14. r \in Unbroken <=> ~Separated(r)
  BY <1>1 DEF Unbroken
<1> QED
  BY <1>1, <1>13, <1>14

\* One account is read of each record.
LEMMA PifEach ==
    ASSUME NEW s \in Seq(Record), NEW r, r = PifRead(s)
    PROVE  /\ r \in Seq(Record) /\ Len(r) = Len(s)
           /\ \A i \in 1..Len(s) : /\ r[i].name = <<>> <=> s[i].name = <<>>
                                   /\ Carries("1pif", s[i]) => r[i] = s[i]
<1> DEFINE E(i) == PifRecord(s[i])
           V(i) == FromPifRecord(E(i))
           es == [i \in 1..Len(s) |-> E(i)]
<1>1. DOMAIN s = 1..Len(s) /\ Len(s) \in Nat
  OBVIOUS
<1>2. Mapped(PifRecord, s) = es
  BY <1>1 DEF Mapped
<1>3. r = [i \in DOMAIN es |-> FromPifRecord(es[i])]
  BY <1>2 DEF PifRead, Mapped
<1>4. \A i \in 1..Len(s) : /\ V(i) \in Record /\ (V(i).name = <<>> <=> s[i].name = <<>>)
                           /\ Carries("1pif", s[i]) => V(i) = s[i]
  <2>1. \A i \in 1..Len(s) : s[i] \in Record
    OBVIOUS
  <2> QED
    BY <2>1, PifReadsBack
<1>5. r = [i \in 1..Len(s) |-> V(i)]
  <2> HIDE DEF E
  <2> QED
    BY <1>3
<1> HIDE DEF V
<1>6. r \in Seq(Record) /\ Len(r) = Len(s) /\ \A i \in 1..Len(s) : r[i] = V(i)
  BY <1>1, <1>4, <1>5
<1> QED
  BY <1>4, <1>6

\* The records that are left are those of the accounts that are.
LEMMA PifChooses ==
    ASSUME NEW s \in Seq(Record)
    PROVE  OverChooses(PifWriter, s, Unbroken, Clear)
<1>1. PifWriter \in [Record -> PifRecords]
  BY PifTypes
<1>2. \A a \in Record : a \in Clear <=> PifWriter[a] \in Unbroken
  BY PifClear
<1> QED
  BY <1>1, <1>2, ChosenOver

\* What is read is read of the records that are left, and those are of the accounts
\* without the separator.
LEMMA PifReadsClear ==
    ASSUME NEW s \in Seq(Record)
    PROVE  /\ Written("1pif", s) \in Seq(PifRecords)
           /\ Chosen(s, Clear) \in Seq(Record)
           /\ ReadsBack("1pif", s) = Chosen(PifRead(Chosen(s, Clear)), Titled)
<1> DEFINE q == Chosen(s, Clear)
           W == PifWriter
           D == PifReader
           o == Over(W, s)
           c == Over(W, q)
           B == Unbroken
           P == PifRecords
<1>1. q \in Seq(Record)
  BY ChosenIn
<1>2. W \in [Record -> P]
  BY PifTypes
<1>3. Written("1pif", s) = o
  <2>1. Written("1pif", s) = Mapped(PifRecord, s)
    BY DEF Written
  <2> QED
    BY <2>1, PifMaps
<1>5. PifRead(q) = Over(D, c)
  <2> HIDE DEF q
  <2>1. Mapped(PifRecord, q) = c
    BY <1>1, PifMaps
  <2>2. c \in Seq(P)
    <3> HIDE DEF W, P
    <3>1. OverEach(P, W, q)
      BY <1>1, <1>2, OverIs
    <3> QED
      BY <3>1 DEF OverEach
  <2> HIDE DEF c, W
  <2>3. Mapped(FromPifRecord, c) = Over(D, c)
    BY <2>2, PifMaps
  <2> QED
    BY <2>1, <2>3 DEF PifRead
<1>6. o \in Seq(P)
  <2> HIDE DEF W, P
  <2>1. OverEach(P, W, s)
    BY <1>2, OverIs
  <2> QED
    BY <2>1 DEF OverEach
<1>7. Chosen(o, B) = c
  BY PifChooses DEF OverChooses
<1>8. Read("1pif", o) = PifImport(o)
  <2> HIDE DEF o
  <2>1. o \in Seq(PifRecords)
    BY <1>6
  <2>2. \A x \in Seq(PifRecords) : Read("1pif", x) = PifImport(x)
    BY PifSteps
  <2> QED
    BY <2>1, <2>2
<1>9. PifImport(o) = Chosen(Over(D, Chosen(o, B)), Titled)
  BY DEF PifImport
<1> QED
  BY <1>1, <1>3, <1>5, <1>6, <1>7, <1>8, <1>9 DEF ReadsBack

\* What is read of a 1pif file.
LEMMA PifReadsAllBack ==
    ASSUME NEW s \in Seq(Record)
    PROVE  ReadsBack("1pif", s) \in Seq(Record) /\ Survive("1pif", s) /\ Numbered("1pif", s)
<1> DEFINE q == Chosen(s, Clear)
           r == PifRead(q)
           t == Chosen(r, Titled)
<1>1. ReadsBack("1pif", s) = t /\ q \in Seq(Record)
  BY PifReadsClear
<1> HIDE DEF q
<1>2. /\ r \in Seq(Record) /\ Len(r) = Len(q)
      /\ \A i \in 1..Len(q) : /\ r[i].name = <<>> <=> q[i].name = <<>>
                              /\ Carries("1pif", q[i]) => r[i] = q[i]
  BY <1>1, PifEach
<1> HIDE DEF r
<1>3. t \in Seq(Record)
  BY <1>2, ChosenIn
<1>4. ASSUME NEW a \in Record
      PROVE  /\ Counted("1pif", a) <=> a \in Clear \cap Titled
             /\ Carries("1pif", a) => a \in Clear /\ a \in Titled
  <2>1. a \in Titled <=> a.name # <<>>
    BY DEF Titled
  <2>2. a \in Clear <=> \A f \in DOMAIN a : ~Has(a[f], "separator")
    BY DEF Clear
  <2>3. Counted("1pif", a) <=> a.name # <<>> /\ \A f \in DOMAIN a : ~Has(a[f], "separator")
    BY DEF Counted
  <2>4. Carries("1pif", a) => a.name # <<>> /\ \A f \in DOMAIN a : ~Has(a[f], "separator")
    BY DEF Carries
  <2> QED
    BY <2>1, <2>2, <2>3, <2>4
<1>5. ASSUME NEW i \in 1..Len(s), Carries("1pif", s[i]) PROVE Contains(t, s[i])
  <2>1. s[i] \in Clear /\ s[i] \in Titled
    BY <1>4, <1>5
  <2>2. PICK k \in 1..Len(q) : q[k] = s[i]
    BY <2>1, ChosenHas DEF q
  <2>3. k \in 1..Len(r) /\ r[k] = s[i] /\ r[k] \in Titled
    BY <1>2, <1>5, <2>1, <2>2
  <2>4. PICK j \in 1..Len(t) : t[j] = r[k]
    BY <1>2, <2>3, ChosenHas
  <2> HIDE DEF t
  <2> QED
    BY <2>3, <2>4 DEF Contains
<1>6. ASSUME \A i \in 1..Len(s) : Carries("1pif", s[i]) PROVE t = s
  <2>1. \A i \in 1..Len(s) : s[i] \in Clear /\ s[i] \in Titled
    <3>1. \A i \in 1..Len(s) : s[i] \in Record
      OBVIOUS
    <3> QED
      BY <1>4, <1>6, <3>1
  <2>2. q = s
    BY <2>1, ChosenAll DEF q
  <2>3. \A i \in 1..Len(s) : r[i] = s[i]
    BY <1>2, <1>6, <2>2
  <2>4. Len(r) = Len(s)
    BY <1>2, <2>2
  <2>5. r = s
    BY <1>2, <2>3, <2>4, SeqEqual
  <2>6. \A i \in 1..Len(s) : s[i] \in Titled
    BY <2>1
  <2>7. Chosen(s, Titled) = s
    BY <2>6, ChosenAll
  <2> QED
    BY <2>5, <2>7
<1>7. Len(t) = Len(AtPositions(s, {i \in DOMAIN s : Counted("1pif", s[i])}))
  <2> DEFINE X == {i \in DOMAIN q : q[i].name # <<>>}
  <2>1. DOMAIN q = 1..Len(q) /\ DOMAIN r = 1..Len(q) /\ DOMAIN s = 1..Len(s)
        /\ (\A i \in 1..Len(q) : q[i] \in Record /\ r[i] \in Record)
        /\ \A i \in 1..Len(s) : s[i] \in Record
    BY <1>1, <1>2
  <2>2. {i \in DOMAIN r : r[i] \in Titled} = X
    BY <1>2, <2>1 DEF Titled
  <2>3. {i \in DOMAIN q : q[i] \in Titled} = X
    BY <2>1 DEF Titled
  <2> HIDE DEF X
  <2>4. Len(AtPositions(r, X)) = Len(AtPositions(q, X))
    BY <1>1, <1>2, SameLength
  <2>5. t = AtPositions(r, X) /\ Chosen(q, Titled) = AtPositions(q, X)
    BY <2>2, <2>3 DEF Chosen
  <2>6. Chosen(q, Titled) = Chosen(s, Clear \cap Titled)
    BY ChosenTwice DEF q
  <2>7. {i \in DOMAIN s : Counted("1pif", s[i])} = {i \in DOMAIN s : s[i] \in Clear \cap Titled}
    BY <1>4, <2>1
  <2>8. Chosen(s, Clear \cap Titled) = AtPositions(s, {i \in DOMAIN s : Counted("1pif", s[i])})
    BY <2>7 DEF Chosen
  <2> HIDE DEF t
  <2> QED
    BY <2>4, <2>5, <2>6, <2>8
<1> HIDE DEF t
<1>8. Survive("1pif", s)
  BY <1>1, <1>5, <1>6 DEF Survive
<1>9. Numbered("1pif", s)
  BY <1>1, <1>7 DEF Numbered
<1> QED
  BY <1>1, <1>3, <1>8, <1>9

\* In every format: what is read of a file that an export has written of any accounts
\* are accounts; all that the format carries are among them, unchanged, and nothing
\* else is if it carries all; and there are as many as are counted.
THEOREM EveryFormatReadsBack ==
    ASSUME NEW format \in Formats, NEW s \in Seq(Record)
    PROVE  ReadsBack(format, s) \in Seq(Record) /\ Survive(format, s) /\ Numbered(format, s)
BY CsvReadsBack, XmlReadsAllBack, PifReadsAllBack DEF Formats

\* What is read of a piece behind the accounts comes after what is read of them; few
\* says that it is one account at most.
ReadsOn(format, s, piece, few) ==
    \E rest \in Seq(Record) :
        /\ Read(format, Written(format, s) \o piece) = ReadsBack(format, s) \o rest
        /\ piece = <<>> => rest = <<>>
        /\ few => Len(rest) \in {0, 1}

\* A file without a piece is one that is whole.
LEMMA NoPiece ==
    ASSUME NEW format \in Formats, NEW s \in Seq(Record)
    PROVE  ReadsOn(format, s, <<>>, TRUE)
<1> DEFINE w == Written(format, s)
           e == <<>>
           b == ReadsBack(format, s)
<1>1. \E S : w \in Seq(S)
  <2>1. CASE format = "csv"
    <3>1. w \in Text
      BY <2>1, RowsAre
    <3> QED
      BY <3>1 DEF Text
  <2>2. CASE format = "xml"
    <3> DEFINE X(i) == XmlEntry(s[i])
               S == {X(i) : i \in 1..Len(s)}
    <3>1. w = [i \in 1..Len(s) |-> X(i)]
      BY <2>2 DEF Written, Mapped
    <3>2. \A i \in 1..Len(s) : X(i) \in S
      OBVIOUS
    <3>3. Len(s) \in Nat
      OBVIOUS
    <3> HIDE DEF X, S, w
    <3>4. w \in Seq(S)
      BY <3>1, <3>2, <3>3
    <3> QED
      BY <3>4
  <2>3. CASE format = "1pif"
    <3>1. w \in Seq(PifRecords)
      BY <2>3, PifReadsClear
    <3> QED
      BY <3>1
  <2> QED
    BY <2>1, <2>2, <2>3 DEF Formats
<1>2. b \in Seq(Record)
  BY EveryFormatReadsBack
<1>3. b = Read(format, w)
  BY DEF ReadsBack
<1> HIDE DEF w, b
<1>4. w \o e = w
  BY <1>1
<1>5. b \o e = b /\ e \in Seq(Record) /\ Len(e) = 0
  BY <1>2
<1> HIDE DEF e
<1>6. Read(format, w \o e) = b \o e
  BY <1>3, <1>4, <1>5
<1>7. /\ e \in Seq(Record) /\ Read(format, w \o e) = b \o e
      /\ (e = <<>> => e = <<>>) /\ (TRUE => Len(e) \in {0, 1})
  BY <1>5, <1>6
<1>8. ReadsOn(format, s, e, TRUE)
  BY <1>7 DEF ReadsOn, w, b
<1> QED
  BY <1>8 DEF e

\* In every format, of any accounts and wherever the writing stopped: all that is read
\* of the accounts in front of the one that is torn is read as if it were not there,
\* and of that one no more than one account is made (in CSV, if its texts have one line).
THEOREM TornFilesReadBack ==
    ASSUME NEW format \in Formats, NEW s \in Seq(Record), NEW a \in Record,
           NEW piece \in Torn(format, a)
    PROVE  ReadsOn(format, s, piece, format = "csv" => OneLined(a))
<1>1. CASE piece = <<>>
  <2>1. ReadsOn(format, s, <<>>, TRUE)
    BY NoPiece
  <2> QED
    BY <1>1, <2>1 DEF ReadsOn
<1>2. CASE format = "csv" /\ piece # <<>>
  <2> DEFINE u == Written("csv", s)
             rest == FromCsv(piece)
             few == format = "csv" => OneLined(a)
  <2>1. u \in Text /\ Ended(u)
    BY RowsAre, ExportEnds
  <2>2. piece \in Text /\ (OneLined(a) => Lacks(piece, "newline"))
    BY <1>2, CsvTorn
  <2>3. rest \in Seq(Record) /\ (Lacks(piece, "newline") => Len(rest) \in {0, 1})
    BY <2>2, FromCsvPiece
  <2> HIDE DEF u
  <2>4. u \o piece \in Text /\ Lines(u \o piece) = Lines(u) \o Lines(piece)
    BY <2>1, <2>2, LinesConcat
  <2>5. FromCsv(u \o piece) = FromCsv(u) \o rest
    BY <2>1, <2>2, <2>4, FromCsvConcat
  <2>6. /\ Read("csv", u \o piece) = FromCsv(u \o piece)
        /\ ReadsBack("csv", s) = FromCsv(u)
    BY DEF Read, ReadsBack, u
  <2>7. few => Len(rest) \in {0, 1}
    BY <1>2, <2>2, <2>3
  <2> HIDE DEF rest, few
  <2>8. Read("csv", u \o piece) = ReadsBack("csv", s) \o rest
    BY <2>5, <2>6
  <2>9. ReadsOn(format, s, piece, few)
    BY <1>2, <2>3, <2>7, <2>8 DEF ReadsOn, u
  <2> QED
    BY <2>9 DEF few
<1>3. CASE format = "xml"
  <2>1. piece = <<>>
    BY <1>3 DEF Torn
  <2> QED
    BY <1>1, <2>1
<1>4. CASE format = "1pif" /\ piece # <<>>
  <2> DEFINE o == Written("1pif", s)
             rest == PifImport(piece)
             few == format = "csv" => OneLined(a)
  <2>1. o \in Seq(PifRecords)
    BY PifReadsClear
  <2>2. piece \in Seq(PifRecords) /\ rest \in Seq(Record) /\ Len(rest) \in {0, 1}
    BY <1>4, PifTorn
  <2>a. ReadsBack("1pif", s) = Read("1pif", o)
    BY DEF ReadsBack
  <2> HIDE DEF o, few
  <2> DEFINE w == o \o piece
  <2>3. w \in Seq(PifRecords)
    BY <2>1, <2>2
  <2>4. PifImport(o \o piece) = PifImport(o) \o rest
    BY <2>1, <2>2, PifConcat
  <2>5. PifImport(w) = PifImport(o) \o rest
    BY <2>4
  <2> HIDE DEF w, rest
  <2>6. \A x \in Seq(PifRecords) : Read("1pif", x) = PifImport(x)
    BY PifSteps
  <2>7. Read("1pif", w) = ReadsBack("1pif", s) \o rest
    BY <2>1, <2>3, <2>5, <2>6, <2>a
  <2>8. ReadsOn(format, s, piece, few)
    BY <1>4, <2>2, <2>7 DEF ReadsOn, w, o
  <2> QED
    BY <2>8 DEF few
<1> QED
  BY <1>1, <1>2, <1>3, <1>4 DEF Formats

-----------------------------------------------------------------------------
(* Transfer *)

\* The pieces that may follow the first n accounts.
PieceOf(format, s, n) == IF n = Len(s) THEN {<<>>} ELSE Torn(format, s[n + 1])
FileIs(format, s, n, piece) ==
    /\ format \in Formats /\ s \in Seq(Record) /\ n \in 0..Len(s)
    /\ piece \in PieceOf(format, s, n) /\ exchange = FileOf(format, s, n, piece)

\* The file is what an export has written of some accounts, down to the last or as far
\* as it came, and the vault's accounts have texts: what is added to them are accounts
\* too.
FileIsWritten ==
    /\ vaultAccounts \in Seq(Record)
    /\ exchange # NoFile => \E format, s, n, piece : FileIs(format, s, n, piece)

\* What an import reads of such a file: what the accounts that are done say, and of the
\* one after them at most one account.
Remains(rest) ==
    /\ rest \in Seq(Record) /\ Imported = ReadsBack(exchange.format, Done) \o rest
    /\ Whole => rest = <<>>
    /\ (exchange.format = "csv" => \A i \in 1..Len(exchange.from) : OneLined(exchange.from[i]))
           => Len(rest) \in {0, 1}
FileReads ==
    /\ exchange.format \in Formats /\ exchange.from \in Seq(Record)
    /\ exchange.done \in 0..Len(exchange.from)
    /\ Done \in Seq(Record) /\ Len(Done) = exchange.done
    /\ \A i \in 1..Len(Done) : i \in 1..Len(exchange.from) /\ Done[i] = exchange.from[i]
    /\ \E rest : Remains(rest)

\* The first elements of a sequence.
LEMMA Firsts ==
    ASSUME NEW S, NEW s \in Seq(S), NEW n \in 0..Len(s), NEW t, t = SubSeq(s, 1, n)
    PROVE  /\ t \in Seq(S) /\ Len(t) = n
           /\ \A i \in 1..n : i \in 1..Len(s) /\ t[i] = s[i]
<1>1. Len(s) \in Nat /\ n \in Nat /\ \A i \in 1..n : i \in 1..Len(s)
  OBVIOUS
<1>2. \A i \in 1..n : s[i] \in S
  BY <1>1
<1>3. t = [i \in 1..n |-> s[i]]
  BY <1>1
<1> QED
  BY <1>1, <1>2, <1>3

LEMMA FileIsKept == ASSUME FileIsWritten, exchange # NoFile PROVE FileReads
<1>1. PICK format, s, n, piece : FileIs(format, s, n, piece)
  BY DEF FileIsWritten
<1> DEFINE q == SubSeq(s, 1, n)
<1>2. /\ format \in Formats /\ s \in Seq(Record) /\ n \in 0..Len(s)
      /\ piece \in PieceOf(format, s, n)
      /\ exchange.format = format /\ exchange.from = s /\ exchange.done = n
      /\ exchange.text = Written(format, q) \o piece
  BY <1>1 DEF FileIs, FileOf
<1>3. Done = q
  BY <1>2 DEF Done
<1>4. Imported = Read(format, Written(format, q) \o piece)
  BY <1>2 DEF Imported
<1>5. /\ q \in Seq(Record) /\ Len(q) = n
      /\ \A i \in 1..n : i \in 1..Len(s) /\ q[i] = s[i]
  BY <1>2, Firsts
<1> HIDE DEF q
<1> DEFINE few == format = "csv" => \A i \in 1..Len(s) : OneLined(s[i])
<1>6. ReadsOn(format, q, piece, few) /\ (n = Len(s) => piece = <<>>)
  <2>1. CASE n = Len(s)
    <3>1. piece = <<>>
      BY <1>2, <2>1 DEF PieceOf
    <3>2. ReadsOn(format, q, <<>>, TRUE)
      BY <1>2, <1>5, NoPiece
    <3> QED
      BY <3>1, <3>2 DEF ReadsOn
  <2>2. CASE n # Len(s)
    <3> DEFINE a == s[n + 1]
    <3>1. n + 1 \in 1..Len(s)
      BY <1>2, <2>2
    <3>2. a \in Record /\ piece \in Torn(format, a)
      BY <1>2, <2>2, <3>1 DEF PieceOf
    <3>3. few => (format = "csv" => OneLined(a))
      BY <3>1
    <3> HIDE DEF a, few
    <3>4. ReadsOn(format, q, piece, format = "csv" => OneLined(a))
      BY <1>2, <1>5, <3>2, TornFilesReadBack
    <3>5. ReadsOn(format, q, piece, few)
      BY <3>3, <3>4 DEF ReadsOn
    <3> QED
      BY <2>2, <3>5
  <2> QED
    BY <2>1, <2>2
<1> HIDE DEF few
<1>7. PICK rest \in Seq(Record) :
          /\ Read(format, Written(format, q) \o piece) = ReadsBack(format, q) \o rest
          /\ piece = <<>> => rest = <<>>
          /\ few => Len(rest) \in {0, 1}
  BY <1>6 DEF ReadsOn
<1>8. Whole => rest = <<>>
  BY <1>2, <1>6, <1>7 DEF Whole
<1>9. Imported = ReadsBack(exchange.format, Done) \o rest
  BY <1>2, <1>3, <1>4, <1>7
<1>10. (exchange.format = "csv" => \A i \in 1..Len(exchange.from) : OneLined(exchange.from[i]))
           => Len(rest) \in {0, 1}
  BY <1>2, <1>7 DEF few
<1>11. Remains(rest)
  BY <1>7, <1>8, <1>9, <1>10 DEF Remains
<1> QED
  BY <1>2, <1>3, <1>5, <1>11 DEF FileReads

\* Whatever is opened, closed, locked, exported or imported, the exchange file is
\* always what an export writes of some accounts, down to the last one or, when the
\* disk was full, into the middle of any; and what an import makes of it are accounts,
\* so that the vault never has anything else.
THEOREM TheFileIsAlwaysOfAccounts == TransferSpec => []FileIsWritten
<1>1. TransferInit => FileIsWritten
  <2>1. <<>> \in Seq(Record)
    OBVIOUS
  <2> QED
    BY <2>1 DEF TransferInit, FileIsWritten
<1>2. FileIsWritten /\ [TransferNext]_transferVars => FileIsWritten'
  <2> SUFFICES ASSUME FileIsWritten, [TransferNext]_transferVars PROVE FileIsWritten'
    OBVIOUS
  <2>0. /\ vaultAccounts \in Seq(Record)
        /\ exchange # NoFile => \E format, s, n, piece : FileIs(format, s, n, piece)
    BY DEF FileIsWritten
  <2>a. ASSUME vaultAccounts' \in Seq(Record), exchange' = exchange PROVE FileIsWritten'
    BY <2>0, <2>a DEF FileIsWritten, FileIs
  <2>b. ASSUME vaultAccounts' = vaultAccounts,
               NEW format \in Formats, NEW s \in Seq(Record), NEW n \in 0..Len(s),
               NEW piece \in PieceOf(format, s, n), exchange' = FileOf(format, s, n, piece)
        PROVE  FileIsWritten'
    BY <2>0, <2>b DEF FileIsWritten, FileIs
  <2>1. CASE OpenVault
    <3>1. vaultAccounts' \in VaultContents /\ exchange' = exchange
      BY <2>1, TransferAssumption DEF OpenVault
    <3>2. vaultAccounts' \in Seq(Record)
      BY <3>1, TransferAssumption
    <3> QED
      BY <2>a, <3>1, <3>2
  <2>2. CASE CloseVault
    <3>1. vaultAccounts' = <<>> /\ exchange' = exchange
      BY <2>2 DEF CloseVault
    <3>2. vaultAccounts' \in Seq(Record)
      BY <3>1
    <3> QED
      BY <2>a, <3>1, <3>2
  <2>3. CASE StartExport \/ Warned \/ Authenticate \/ StartImport \/ Dismiss
    <3>1. vaultAccounts' = vaultAccounts /\ exchange' = exchange
      BY <2>3 DEF StartExport, Warned, Authenticate, StartImport, Dismiss, Turn
    <3> QED
      BY <2>0, <2>a, <3>1
  <2>4. ASSUME NEW format \in Formats, Export(format) PROVE FileIsWritten'
    <3> DEFINE s == vaultAccounts
               n == Len(s)
               e == <<>>
    <3>1. vaultAccounts' = vaultAccounts /\ exchange' = FileOf(format, s, n, e)
      BY <2>4 DEF Export
    <3>2. s \in Seq(Record) /\ n \in 0..Len(s) /\ e \in PieceOf(format, s, n)
      BY <2>0 DEF PieceOf
    <3> HIDE DEF s, n, e
    <3> QED
      BY <2>b, <3>1, <3>2
  <2>5. ASSUME NEW format \in Formats, ExportFails(format) PROVE FileIsWritten'
    <3> DEFINE s == vaultAccounts
    <3>1. s \in Seq(Record) /\ Len(s) \in Nat
      BY <2>0
    <3>2. vaultAccounts' = vaultAccounts
          /\ \E n \in 0..(Len(s) - 1) : \E piece \in Torn(format, s[n + 1]) :
                 exchange' = FileOf(format, s, n, piece)
      BY <2>5 DEF ExportFails
    <3> HIDE DEF s
    <3>a. PICK n \in 0..(Len(s) - 1) : \E piece \in Torn(format, s[n + 1]) :
              exchange' = FileOf(format, s, n, piece)
      BY <3>2
    <3>3. PICK piece \in Torn(format, s[n + 1]) : exchange' = FileOf(format, s, n, piece)
      BY <3>a
    <3>4. n \in 0..Len(s) /\ n # Len(s)
      BY <3>1
    <3>5. piece \in PieceOf(format, s, n)
      BY <3>4 DEF PieceOf
    <3> QED
      BY <2>b, <3>1, <3>2, <3>3, <3>4, <3>5
  <2>6. CASE Import
    <3>1. exchange # NoFile /\ vaultAccounts' = vaultAccounts \o Imported /\ exchange' = exchange
      BY <2>6 DEF Import
    <3>2. Imported \in Seq(Record)
      <4>1. FileReads
        BY <3>1, FileIsKept
      <4>2. PICK rest : Remains(rest)
        BY <4>1 DEF FileReads
      <4> DEFINE b == ReadsBack(exchange.format, Done)
      <4>3. b \in Seq(Record)
        BY <4>1, EveryFormatReadsBack DEF FileReads
      <4>4. rest \in Seq(Record) /\ Imported = b \o rest
        BY <4>2 DEF Remains
      <4> HIDE DEF b
      <4>5. b \o rest \in Seq(Record)
        BY <4>3, <4>4
      <4> QED
        BY <4>4, <4>5
    <3> DEFINE i == Imported
    <3>a. i \in Seq(Record) /\ vaultAccounts \in Seq(Record)
      BY <2>0, <3>2
    <3> HIDE DEF i
    <3>3. vaultAccounts \o i \in Seq(Record)
      BY <3>a
    <3> QED
      BY <2>a, <3>1, <3>3 DEF i
  <2>7. CASE UNCHANGED transferVars
    <3>1. vaultAccounts' = vaultAccounts /\ exchange' = exchange
      BY <2>7 DEF transferVars
    <3> QED
      BY <2>0, <2>a, <3>1
  <2> QED
    BY <2>1, <2>2, <2>3, <2>4, <2>5, <2>6, <2>7 DEF TransferNext
<1> QED
  BY <1>1, <1>2, PTL DEF TransferSpec

\* An account that a format can carry comes back from the file as it was, through the
\* quotation marks, entities and backslashes of the export and the undoing of the
\* import, in whatever company and order, also when the file was cut off after it; and
\* where the format can carry all of them, the import begins with them, and is the
\* export if that came to its end.
THEOREM CarriedAccountsSurvive == TransferSpec => []CarriedSurvive
<1>1. FileIsWritten => CarriedSurvive
  <2> SUFFICES ASSUME FileIsWritten, exchange # NoFile
               PROVE  /\ \A i \in DOMAIN Done :
                            Carries(exchange.format, Done[i]) => Contains(Imported, Done[i])
                      /\ (\A i \in DOMAIN Done : Carries(exchange.format, Done[i]))
                            => IsPrefix(Done, Imported) /\ (Whole => Imported = exchange.from)
    BY DEF CarriedSurvive
  <2> DEFINE d == Done
             s == exchange.from
             b == ReadsBack(exchange.format, d)
             m == Imported
  <2>1. FileReads
    BY FileIsKept
  <2>2. PICK rest : Remains(rest)
    BY <2>1 DEF FileReads
  <2>3. /\ exchange.format \in Formats /\ d \in Seq(Record) /\ Len(d) = exchange.done
        /\ s \in Seq(Record) /\ \A i \in 1..Len(d) : i \in 1..Len(s) /\ d[i] = s[i]
    BY <2>1 DEF FileReads
  <2>4. b \in Seq(Record) /\ Survive(exchange.format, d)
    BY <2>3, EveryFormatReadsBack
  <2>5. rest \in Seq(Record) /\ m = b \o rest /\ (Whole => rest = <<>>)
    BY <2>2 DEF Remains
  <2>6. DOMAIN d = 1..Len(d)
    BY <2>3
  <2>7. /\ \A i \in 1..Len(d) : Carries(exchange.format, d[i]) => Contains(b, d[i])
        /\ (\A i \in 1..Len(d) : Carries(exchange.format, d[i])) => b = d
    BY <2>4 DEF Survive
  <2>8. Whole => d = s
    <3>1. Whole => Len(d) = Len(s)
      BY <2>3 DEF Whole
    <3> HIDE DEF d, s
    <3> QED
      BY <2>3, <3>1, SeqEqual
  <2> HIDE DEF d, b, m, s
  <2>9. /\ m \in Seq(Record) /\ Len(m) = Len(b) + Len(rest) /\ Len(b) \in Nat /\ Len(rest) \in Nat
        /\ \A i \in 1..Len(b) : m[i] = b[i]
    BY <2>4, <2>5
  <2>10. ASSUME NEW i \in 1..Len(d), Carries(exchange.format, d[i]) PROVE Contains(m, d[i])
    <3>1. PICK k \in 1..Len(b) : b[k] = d[i]
      BY <2>7, <2>10 DEF Contains
    <3>2. k \in 1..Len(m) /\ m[k] = d[i]
      BY <2>9, <3>1
    <3> QED
      BY <3>2 DEF Contains
  <2>11. ASSUME \A i \in 1..Len(d) : Carries(exchange.format, d[i])
         PROVE  IsPrefix(d, m) /\ (Whole => m = s)
    <3>1. b = d
      BY <2>7, <2>11
    <3>2. Len(d) \in 0..Len(d) /\ Len(d) \in 0..Len(m) /\ Len(d) <= Len(m)
      BY <2>9, <3>1
    <3>3. SubSeq(d, 1, Len(d)) = SubSeq(m, 1, Len(d))
      <4> DEFINE n == Len(d)
                 x == SubSeq(d, 1, n)
                 y == SubSeq(m, 1, n)
      <4>1. n \in 0..Len(d) /\ n \in 0..Len(m)
        BY <3>2
      <4> HIDE DEF n
      <4>2. /\ x \in Seq(Record) /\ Len(x) = n /\ \A i \in 1..n : x[i] = d[i]
        BY <2>3, <4>1, Firsts
      <4>3. /\ y \in Seq(Record) /\ Len(y) = n /\ \A i \in 1..n : y[i] = m[i]
        BY <2>9, <4>1, Firsts
      <4>4. \A i \in 1..n : m[i] = d[i]
        BY <2>9, <3>1 DEF n
      <4> HIDE DEF x, y
      <4>5. x = y
        BY <4>2, <4>3, <4>4, SeqEqual
      <4> QED
        BY <4>5 DEF x, y, n
    <3>4. IsPrefix(d, m)
      BY <3>2, <3>3 DEF IsPrefix
    <3>5. ASSUME Whole PROVE m = s
      <4>1. rest = <<>>
        BY <2>5, <3>5
      <4>2. b \o <<>> = b
        BY <2>4
      <4> QED
        BY <2>5, <2>8, <3>1, <3>5, <4>1, <4>2
    <3> QED
      BY <3>4, <3>5
  <2> QED
    BY <2>6, <2>10, <2>11 DEF d, m, s
<1> QED
  BY <1>1, TheFileIsAlwaysOfAccounts, PTL

\* Quotation marks, entities, backslashes and braces in the texts neither lose an
\* account nor make one of a part of another: as many are read as have the texts that
\* the format asks for, and one more at most of an account in the middle of which the
\* disk was full; in CSV only line breaks can change that.
THEOREM OneAccountForEach == TransferSpec => []OneRecordPerAccount
<1>1. FileIsWritten => OneRecordPerAccount
  <2> DEFINE counted == Len(AtPositions(Done,
                 {i \in DOMAIN Done : Counted(exchange.format, Done[i])}))
  <2> SUFFICES ASSUME FileIsWritten, exchange # NoFile,
                      exchange.format = "csv" => \A i \in DOMAIN exchange.from :
                          \A f \in DOMAIN Empty : ~Has(exchange.from[i][f], "newline")
               PROVE  Len(Imported) = counted \/ (~Whole /\ Len(Imported) = counted + 1)
    BY DEF OneRecordPerAccount
  <2> DEFINE d == Done
             s == exchange.from
             b == ReadsBack(exchange.format, d)
             m == Imported
  <2>1. FileReads
    BY FileIsKept
  <2>2. PICK rest : Remains(rest)
    BY <2>1 DEF FileReads
  <2>3. /\ exchange.format \in Formats /\ d \in Seq(Record) /\ s \in Seq(Record)
        /\ \A i \in 1..Len(d) : i \in 1..Len(s) /\ d[i] = s[i]
    BY <2>1 DEF FileReads
  <2>4. b \in Seq(Record) /\ Numbered(exchange.format, d)
    BY <2>3, EveryFormatReadsBack
  <2>5. exchange.format = "csv" => \A i \in 1..Len(s) : OneLined(s[i])
    <3>1. DOMAIN s = 1..Len(s)
      BY <2>3
    <3> QED
      BY <3>1 DEF OneLined
  <2>6. exchange.format = "csv" => \A i \in 1..Len(d) : OneLined(d[i])
    <3> HIDE DEF d, s
    <3> QED
      BY <2>3, <2>5
  <2>7. Len(b) = counted
    BY <2>4, <2>6 DEF Numbered
  <2>8. rest \in Seq(Record) /\ m = b \o rest /\ (Whole => rest = <<>>) /\ Len(rest) \in {0, 1}
    BY <2>2, <2>5 DEF Remains
  <2> HIDE DEF b, m, counted
  <2>9. Len(m) = Len(b) + Len(rest) /\ Len(b) \in Nat
    BY <2>4, <2>8
  <2>10. rest = <<>> => Len(rest) = 0
    OBVIOUS
  <2>11. Len(m) = counted \/ (~Whole /\ Len(m) = counted + 1)
    BY <2>7, <2>8, <2>9, <2>10
  <2> QED
    BY <2>11 DEF m, counted
<1> QED
  BY <1>1, TheFileIsAlwaysOfAccounts, PTL
=============================================================================
