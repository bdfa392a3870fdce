----------------------------- MODULE ListsProofs -----------------------------
(***************************************************************************)
(* Lemmas about lists of any length, each an induction along the list,     *)
(* made by taking the least place where it would fail; and what rests on   *)
(* them for the parts whose answers are lists: the routing of a request,   *)
(* the chat, the kept runs, the latencies of the governance page, and the  *)
(* paths of the file explorer.                                             *)
(***************************************************************************)
EXTENDS Lists, Routing, Chat, RunHistory, Metrics, WorkspaceFiles, FiniteSetTheorems, WellFoundedInduction, SequenceTheorems, TLAPS

(* Some numbers have a least one among them. *)
LEMMA LeastNumber ==
    ASSUME NEW S \in SUBSET Nat, S # {}
    PROVE  Min(S) \in S /\ \A y \in S : Min(S) =< y
<1>1. PICK x \in S : \A y \in S : ~ (<<y, x>> \in OpToRel(<, Nat))
  BY NatLessThanWellFounded, WFMin
<1>2. \A y \in S : ~(y < x)
  BY <1>1 DEF OpToRel
<1>3. \A y \in S : x =< y
  BY <1>2
<1> QED
  BY <1>3 DEF Min

-----------------------------------------------------------------------------
(* Going over a list *)

\* What is taken of the first places of a list, up to each.
Takes(list, places, top, f) ==
    f = [n \in 0..top |-> IF n = 0 THEN <<>>
                          ELSE IF n \in places THEN Append(f[n - 1], list[n]) ELSE f[n - 1]]

(* There is such a function, up to any place. *)
LEMMA TakesExists ==
    ASSUME NEW list, NEW places, NEW top \in Nat
    PROVE  \E f : Takes(list, places, top, f)
<1> DEFINE Bad == {m \in Nat : ~\E f : Takes(list, places, m, f)}
<1> SUFFICES ASSUME Bad # {}
             PROVE  FALSE
  OBVIOUS
<1>1. PICK m \in Bad : \A y \in Bad : m =< y
  BY LeastNumber
<1>2. m # 0
  <2> DEFINE f == [n \in 0..0 |-> <<>>]
  <2>1. Takes(list, places, 0, f)
    BY DEF Takes
  <2> QED
    BY <2>1, <1>1
<1>3. m - 1 \in Nat /\ m - 1 \notin Bad
  BY <1>1, <1>2
<1>4. PICK g : Takes(list, places, m - 1, g)
  BY <1>3
<1> DEFINE f == [n \in 0..m |-> IF n = m THEN IF m \in places THEN Append(g[m - 1], list[m]) ELSE g[m - 1]
                                ELSE g[n]]
<1>5. \A n \in 0..(m - 1) : f[n] = g[n]
  BY <1>1
<1>6. \A n \in 0..(m - 1) : g[n] = IF n = 0 THEN <<>>
                            ELSE IF n \in places THEN Append(g[n - 1], list[n]) ELSE g[n - 1]
  BY <1>4 DEF Takes
<1>7. \A n \in 0..m : f[n] = IF n = 0 THEN <<>>
                             ELSE IF n \in places THEN Append(f[n - 1], list[n]) ELSE f[n - 1]
  <2> TAKE n \in 0..m
  <2>1. CASE n = m
    BY <2>1, <1>2, <1>3, <1>5
  <2>2. CASE n # m
    <3>1. n \in 0..(m - 1) /\ (n # 0 => n - 1 \in 0..(m - 1))
      BY <2>2, <1>1
    <3> QED
      BY <3>1, <1>5, <1>6
  <2> QED
    BY <2>1, <2>2
<1> DEFINE h == [n \in 0..m |-> IF n = 0 THEN <<>>
                             ELSE IF n \in places THEN Append(f[n - 1], list[n]) ELSE f[n - 1]]
<1>8. f = h
  <2>1. \A n \in 0..m : f[n] = h[n]
    BY <1>7
  <2>2. f = [n \in 0..m |-> f[n]]
    OBVIOUS
  <2> HIDE DEF f
  <2> QED
    BY <2>1, <2>2
<1>9. Takes(list, places, m, f)
  BY <1>8 DEF Takes
<1> QED
  BY <1>1, <1>9

(* What it says of each place. *)
LEMMA TakesEach ==
    ASSUME NEW list, NEW places, NEW top \in Nat, NEW f, Takes(list, places, top, f)
    PROVE  /\ f[0] = <<>>
           /\ \A n \in 1..top : f[n] = IF n \in places THEN Append(f[n - 1], list[n]) ELSE f[n - 1]
<1>1. \A n \in 0..top : f[n] = IF n = 0 THEN <<>>
                               ELSE IF n \in places THEN Append(f[n - 1], list[n]) ELSE f[n - 1]
  BY DEF Takes
<1> QED
  BY <1>1

(* Only the members and the places up to a place decide what is taken of it. *)
LEMMA TakesSame ==
    ASSUME NEW list, NEW places, NEW top \in Nat, NEW f, Takes(list, places, top, f),
           NEW other, NEW marks, NEW end \in Nat, NEW g, Takes(other, marks, end, g),
           NEW n \in Nat, n =< top, n =< end,
           \A i \in 1..n : list[i] = other[i] /\ (i \in places <=> i \in marks)
    PROVE  f[n] = g[n]
<1> DEFINE Bad == {m \in 0..n : f[m] # g[m]}
<1> SUFFICES ASSUME Bad # {}
             PROVE  FALSE
  OBVIOUS
<1>0. Bad \in SUBSET Nat
  OBVIOUS
<1>1. PICK m \in Bad : \A y \in Bad : m =< y
  BY <1>0, LeastNumber
<1>2. /\ f[0] = <<>> /\ g[0] = <<>>
      /\ \A k \in 1..top : f[k] = IF k \in places THEN Append(f[k - 1], list[k]) ELSE f[k - 1]
      /\ \A k \in 1..end : g[k] = IF k \in marks THEN Append(g[k - 1], other[k]) ELSE g[k - 1]
  BY TakesEach
<1>3. m # 0
  BY <1>1, <1>2
<1>4. m \in 1..top /\ m \in 1..end /\ m \in 1..n /\ m - 1 \in 0..n /\ m - 1 < m
  BY <1>1, <1>3
<1>5. m - 1 \notin Bad
  BY <1>1, <1>4
<1>6. f[m - 1] = g[m - 1]
  BY <1>4, <1>5
<1> QED
  BY <1>1, <1>2, <1>4, <1>6

LEMMA TakenInOrder ==
    ASSUME NEW list, Len(list) \in Nat, NEW places
    PROVE  \E f : Takes(list, places, Len(list), f) /\ InOrder(list, places) = f[Len(list)]
<1> DEFINE f == CHOOSE h : Takes(list, places, Len(list), h)
<1>1. Takes(list, places, Len(list), f)
  BY TakesExists
<1>2. InOrder(list, places) = f[Len(list)]
  BY DEF InOrder, Takes
<1> QED
  BY <1>1, <1>2

(* Nothing is taken of an empty list, and of a longer one its last member, if its
   place is one of those. *)
LEMMA TakenOfNone ==
    ASSUME NEW places
    PROVE  InOrder(<<>>, places) = <<>>
<1>1. PICK f : Takes(<<>>, places, 0, f) /\ InOrder(<<>>, places) = f[0]
  BY TakenInOrder
<1> QED
  BY <1>1, TakesEach

LEMMA TakenOfLonger ==
    ASSUME NEW T, NEW list \in Seq(T), NEW x \in T, NEW places
    PROVE  InOrder(Append(list, x), places) =
             IF Len(list) + 1 \in places THEN Append(InOrder(list, places), x) ELSE InOrder(list, places)
<1> DEFINE long == Append(list, x)
           n == Len(list)
<1>1. /\ long \in Seq(T) /\ Len(long) = n + 1 /\ n \in Nat
      /\ long[n + 1] = x /\ \A i \in 1..n : long[i] = list[i]
  OBVIOUS
<1> HIDE DEF long, n
<1>2. PICK f : Takes(long, places, n + 1, f) /\ InOrder(long, places) = f[n + 1]
  BY <1>1, TakenInOrder
<1>3. PICK g : Takes(list, places, n, g) /\ InOrder(list, places) = g[n]
  BY <1>1, TakenInOrder DEF n
<1>4. f[n] = g[n]
  BY <1>1, <1>2, <1>3, TakesSame
<1>5. f[n + 1] = IF n + 1 \in places THEN Append(f[n], long[n + 1]) ELSE f[n]
  <2>1. n + 1 \in 1..(n + 1) /\ (n + 1) - 1 = n /\ n + 1 \in Nat
    BY <1>1
  <2> QED
    BY <2>1, <1>2, TakesEach
<1> QED
  BY <1>1, <1>2, <1>3, <1>4, <1>5 DEF long, n

(* Places beyond a list do not matter. *)
LEMMA TakenSame ==
    ASSUME NEW T, NEW list \in Seq(T), NEW places, NEW marks,
           \A i \in 1..Len(list) : i \in places <=> i \in marks
    PROVE  InOrder(list, places) = InOrder(list, marks)
<1>1. Len(list) \in Nat
  OBVIOUS
<1>2. PICK f : Takes(list, places, Len(list), f) /\ InOrder(list, places) = f[Len(list)]
  BY <1>1, TakenInOrder
<1>3. PICK g : Takes(list, marks, Len(list), g) /\ InOrder(list, marks) = g[Len(list)]
  BY <1>1, TakenInOrder
<1> DEFINE n == Len(list)
<1>4. /\ n \in Nat /\ Takes(list, places, n, f) /\ Takes(list, marks, n, g)
      /\ \A i \in 1..n : list[i] = list[i] /\ (i \in places <=> i \in marks)
  BY <1>1, <1>2, <1>3
<1> HIDE DEF n
<1>5. f[n] = g[n]
  BY <1>4, TakesSame
<1> QED
  BY <1>2, <1>3, <1>5 DEF n

(* Where the members that are taken come from: of later places later, of each of
   the places one. *)
Picks(list, places, top, out, pos) ==
    /\ pos \in [1..Len(out) -> 1..top]
    /\ \A k \in 1..Len(out) : pos[k] \in places /\ out[k] = list[pos[k]]
    /\ \A j, k \in 1..Len(out) : j < k => pos[j] < pos[k]
    /\ \A i \in 1..top : i \in places => \E k \in 1..Len(out) : pos[k] = i

LEMMA TakesPicks ==
    ASSUME NEW T, NEW list \in Seq(T), NEW places, NEW f, Takes(list, places, Len(list), f)
    PROVE  \A n \in 0..Len(list) : f[n] \in Seq(T) /\ \E pos : Picks(list, places, n, f[n], pos)
<1> DEFINE Bad == {n \in 0..Len(list) : ~(f[n] \in Seq(T) /\ \E pos : Picks(list, places, n, f[n], pos))}
<1> SUFFICES ASSUME Bad # {}
             PROVE  FALSE
  OBVIOUS
<1>0. Len(list) \in Nat /\ \A i \in 1..Len(list) : list[i] \in T
  OBVIOUS
<1>1. PICK m \in Bad : \A y \in Bad : m =< y
  <2>1. Bad \in SUBSET Nat
    BY <1>0
  <2> HIDE DEF Bad
  <2> QED
    BY <2>1, LeastNumber
<1>2. /\ f[0] = <<>>
      /\ \A n \in 1..Len(list) : f[n] = IF n \in places THEN Append(f[n - 1], list[n]) ELSE f[n - 1]
  <2> DEFINE top == Len(list)
  <2>1. top \in Nat /\ Takes(list, places, top, f)
    BY <1>0
  <2> HIDE DEF top
  <2>2. /\ f[0] = <<>>
        /\ \A n \in 1..top : f[n] = IF n \in places THEN Append(f[n - 1], list[n]) ELSE f[n - 1]
    BY <2>1, TakesEach
  <2> QED
    BY <2>2 DEF top
<1>3. m # 0
  <2> DEFINE pos == [k \in 1..0 |-> 0]
  <2>1. <<>> \in Seq(T) /\ Len(<<>>) = 0 /\ 1..0 = {}
    OBVIOUS
  <2>2. Picks(list, places, 0, <<>>, pos)
    BY <2>1 DEF Picks
  <2> QED
    BY <1>1, <1>2, <2>1, <2>2
<1>4. m \in 1..Len(list) /\ m - 1 \in 0..Len(list) /\ m - 1 < m
  BY <1>0, <1>1, <1>3
<1> DEFINE s == f[m - 1]
<1>a. s \in Seq(T) /\ \E pos : Picks(list, places, m - 1, s, pos)
  BY <1>1, <1>4
<1>5. PICK pos : s \in Seq(T) /\ Picks(list, places, m - 1, s, pos)
  BY <1>a
<1>6. f[m] = IF m \in places THEN Append(s, list[m]) ELSE s
  BY <1>2, <1>4
<1> HIDE DEF s
<1>7. CASE m \notin places
  <2>1. Picks(list, places, m, s, pos)
    BY <1>4, <1>5, <1>7 DEF Picks
  <2> QED
    BY <1>1, <1>5, <1>6, <1>7, <2>1
<1>8. CASE m \in places
  <2> DEFINE out == Append(s, list[m])
             new == [k \in 1..(Len(s) + 1) |-> IF k = Len(s) + 1 THEN m ELSE pos[k]]
  <2>1. /\ out \in Seq(T) /\ Len(out) = Len(s) + 1 /\ Len(s) \in Nat
        /\ out[Len(s) + 1] = list[m] /\ \A k \in 1..Len(s) : out[k] = s[k]
    BY <1>0, <1>4, <1>5
  <2> HIDE DEF out
  <2>2. /\ new \in [1..Len(out) -> 1..m]
        /\ new[Len(s) + 1] = m /\ \A k \in 1..Len(s) : new[k] = pos[k] /\ pos[k] \in 1..(m - 1)
    <3>1. \A k \in 1..Len(s) : pos[k] \in 1..(m - 1) /\ k # Len(s) + 1
      BY <1>5, <2>1 DEF Picks
    <3>2. m \in 1..m /\ \A x \in 1..(m - 1) : x \in 1..m
      BY <1>1, <1>4
    <3>3. \A k \in 1..(Len(s) + 1) : k \in 1..Len(s) \/ k = Len(s) + 1
      BY <2>1
    <3> QED
      BY <2>1, <3>1, <3>2, <3>3
  <2> HIDE DEF new
  <2>3. \A k \in 1..Len(out) : k \in 1..Len(s) \/ k = Len(s) + 1
    BY <2>1
  <2>4. \A k \in 1..Len(out) : new[k] \in places /\ out[k] = list[new[k]]
    BY <1>5, <1>8, <2>1, <2>2, <2>3 DEF Picks
  <2>5. ASSUME NEW j \in 1..Len(out), NEW k \in 1..Len(out), j < k
        PROVE  new[j] < new[k]
    <3>1. j \in 1..Len(s)
      BY <2>1, <2>5
    <3>2. CASE k \in 1..Len(s)
      BY <3>1, <3>2, <2>2, <2>5, <1>5 DEF Picks
    <3>3. CASE k = Len(s) + 1
      BY <3>1, <3>3, <2>2, <1>4
    <3> QED
      BY <3>2, <3>3, <2>3
  <2>6. ASSUME NEW i \in 1..m, i \in places
        PROVE  \E k \in 1..Len(out) : new[k] = i
    <3>1. CASE i = m
      BY <3>1, <2>1, <2>2
    <3>2. CASE i # m
      <4>1. i \in 1..(m - 1)
        BY <3>2, <1>4
      <4>2. PICK k \in 1..Len(s) : pos[k] = i
        BY <4>1, <2>6, <1>5 DEF Picks
      <4> QED
        BY <4>2, <2>1, <2>2
    <3> QED
      BY <3>1, <3>2
  <2>7. Picks(list, places, m, out, new)
    BY <2>2, <2>4, <2>5, <2>6 DEF Picks
  <2> QED
    BY <1>1, <1>6, <1>8, <2>1, <2>7 DEF out
<1> QED
  BY <1>7, <1>8

LEMMA TakenArePicked ==
    ASSUME NEW T, NEW list \in Seq(T), NEW places
    PROVE  /\ InOrder(list, places) \in Seq(T)
           /\ \E pos : Picks(list, places, Len(list), InOrder(list, places), pos)
<1>1. Len(list) \in Nat
  OBVIOUS
<1>2. PICK f : Takes(list, places, Len(list), f) /\ InOrder(list, places) = f[Len(list)]
  BY <1>1, TakenInOrder
<1>3. Len(list) \in 0..Len(list)
  BY <1>1
<1> QED
  BY <1>2, <1>3, TakesPicks

-----------------------------------------------------------------------------
(* The members of a list that are in a set *)

LEMMA OnlyOfNone == ASSUME NEW set PROVE Only(<<>>, set) = <<>>
BY TakenOfNone DEF Only

LEMMA OnlyOfLonger ==
    ASSUME NEW T, NEW list \in Seq(T), NEW x \in T, NEW set
    PROVE  Only(Append(list, x), set) = IF x \in set THEN Append(Only(list, set), x) ELSE Only(list, set)
<1> DEFINE long == Append(list, x)
           n == Len(list)
           places == {i \in DOMAIN long : long[i] \in set}
           marks == {i \in DOMAIN list : list[i] \in set}
<1>1. /\ n \in Nat /\ DOMAIN long = 1..(n + 1) /\ DOMAIN list = 1..n
      /\ long[n + 1] = x /\ \A i \in 1..n : long[i] = list[i]
  OBVIOUS
<1> HIDE DEF long, n
<1>2. n + 1 \in places <=> x \in set
  BY <1>1
<1>3. \A i \in 1..n : i \in places <=> i \in marks
  BY <1>1
<1> HIDE DEF places, marks
<1>4. InOrder(list, places) = InOrder(list, marks)
  BY <1>3, TakenSame DEF n
<1>5. InOrder(long, places) = IF n + 1 \in places THEN Append(InOrder(list, places), x) ELSE InOrder(list, places)
  BY TakenOfLonger DEF long, n
<1> QED
  BY <1>2, <1>4, <1>5 DEF Only, places, marks, long

(* Sets that agree on the members of a list take the same of it. *)
LEMMA OnlyOfSame ==
    ASSUME NEW T, NEW list \in Seq(T), NEW set, NEW other,
           \A i \in 1..Len(list) : list[i] \in set <=> list[i] \in other
    PROVE  Only(list, set) = Only(list, other)
<1> DEFINE places == {i \in DOMAIN list : list[i] \in set}
           marks == {i \in DOMAIN list : list[i] \in other}
<1>1. \A i \in 1..Len(list) : i \in places <=> i \in marks
  OBVIOUS
<1> HIDE DEF places, marks
<1> QED
  BY <1>1, TakenSame DEF Only, places, marks

(* The members that are taken: those of the list that are in the set, later ones
   later. *)
LEMMA OnlyPicks ==
    ASSUME NEW T, NEW list \in Seq(T), NEW set
    PROVE  LET out == Only(list, set) IN
           /\ out \in Seq(T)
           /\ \E pos \in [1..Len(out) -> 1..Len(list)] :
                /\ \A k \in 1..Len(out) : out[k] = list[pos[k]] /\ out[k] \in set
                /\ \A j, k \in 1..Len(out) : j < k => pos[j] < pos[k]
                /\ \A i \in 1..Len(list) : list[i] \in set => \E k \in 1..Len(out) : pos[k] = i
<1> DEFINE places == {i \in DOMAIN list : list[i] \in set}
           out == Only(list, set)
<1>1. out = InOrder(list, places)
  BY DEF Only
<1>2. \A i \in 1..Len(list) : i \in places <=> list[i] \in set
  OBVIOUS
<1> HIDE DEF places, out
<1>3. out \in Seq(T) /\ \E pos : Picks(list, places, Len(list), out, pos)
  BY <1>1, TakenArePicked
<1>4. PICK pos : Picks(list, places, Len(list), out, pos)
  BY <1>3
<1>5. /\ pos \in [1..Len(out) -> 1..Len(list)]
      /\ \A k \in 1..Len(out) : out[k] = list[pos[k]] /\ out[k] \in set
      /\ \A j, k \in 1..Len(out) : j < k => pos[j] < pos[k]
      /\ \A i \in 1..Len(list) : list[i] \in set => \E k \in 1..Len(out) : pos[k] = i
  BY <1>2, <1>4 DEF Picks
<1> QED
  BY <1>3, <1>5 DEF out

(* A list of some is a list of more. *)
LEMMA SeqGrows ==
    ASSUME NEW S, NEW T, NEW list \in Seq(S), S \subseteq T
    PROVE  list \in Seq(T)
OBVIOUS

(* What joins a list comes after all of the lists it joins. *)
LEMMA AppendLast ==
    ASSUME NEW T, NEW s \in Seq(T), NEW q \in Seq(T), NEW x \in T
    PROVE  s \o Append(q, x) = Append(s \o q, x)
<1>1. s \o Append(q, x) \in Seq(T) /\ Append(s \o q, x) \in Seq(T)
  OBVIOUS
<1>2. Len(s \o Append(q, x)) = Len(Append(s \o q, x))
  OBVIOUS
<1>3. ASSUME NEW i \in 1..Len(s \o Append(q, x))
      PROVE  (s \o Append(q, x))[i] = Append(s \o q, x)[i]
  OBVIOUS
<1> QED
  BY <1>1, <1>2, <1>3, SeqEqual

(* Two lists after one another. *)
LEMMA OnlyOfConcat ==
    ASSUME NEW T, NEW set, NEW a \in Seq(T), NEW b \in Seq(T)
    PROVE  Only(a \o b, set) = Only(a, set) \o Only(b, set)
<1> DEFINE Holds(c) == Only(a \o c, set) = Only(a, set) \o Only(c, set)
           Bad == {n \in Nat : \E c \in Seq(T) : Len(c) = n /\ ~Holds(c)}
<1>0. Only(a, set) \in Seq(T)
  BY OnlyPicks
<1>1. ASSUME Bad # {}
      PROVE  FALSE
  <2>1. PICK n \in Bad : \A y \in Bad : n =< y
    <3>1. Bad \in SUBSET Nat
      OBVIOUS
    <3> HIDE DEF Bad
    <3> QED
      BY <3>1, <1>1, LeastNumber
  <2>2. PICK c \in Seq(T) : Len(c) = n /\ ~Holds(c)
    BY <2>1
  <2>3. n # 0
    <3>1. Only(a, set) \o <<>> = Only(a, set) /\ a \o <<>> = a
      BY <1>0
    <3>2. ~Holds(<<>>) => FALSE
      BY <3>1, OnlyOfNone
    <3>3. n = 0 => c = <<>>
      BY <2>2
    <3> QED
      BY <2>2, <3>2, <3>3
  <2> DEFINE front == SubSeq(c, 1, n - 1)
             last == c[n]
  <2>4. front \in Seq(T) /\ Len(front) = n - 1 /\ last \in T /\ c = Append(front, last)
    <3>1. n \in Nat \ {0}
      BY <2>1, <2>3
    <3>2. front \in Seq(T) /\ Len(front) = n - 1 /\ last \in T
      BY <2>2, <3>1
    <3>3. \A i \in 1..(n - 1) : front[i] = c[i]
      BY <2>2, <3>1
    <3> HIDE DEF front
    <3>4. Append(front, last) \in Seq(T) /\ Len(Append(front, last)) = Len(c)
      BY <2>2, <3>1, <3>2
    <3>5. ASSUME NEW i \in 1..Len(c)
          PROVE  c[i] = Append(front, last)[i]
      BY <2>2, <3>1, <3>2, <3>3
    <3> QED
      BY <2>2, <3>2, <3>4, <3>5, SeqEqual
  <2> HIDE DEF front, last
  <2>5. Holds(front)
    <3>1. n - 1 \in Nat /\ n - 1 < n
      BY <2>1, <2>3
    <3>2. n - 1 \notin Bad
      BY <2>1, <3>1
    <3> QED
      BY <2>4, <3>1, <3>2
  <2>6. a \o c = Append(a \o front, last) /\ a \o front \in Seq(T)
    BY <2>4, AppendLast
  <2>7. Only(front, set) \in Seq(T)
    BY <2>4, OnlyPicks
  <2>8. Only(c, set) = IF last \in set THEN Append(Only(front, set), last) ELSE Only(front, set)
    BY <2>4, OnlyOfLonger
  <2>9. Only(a \o c, set) = IF last \in set THEN Append(Only(a \o front, set), last) ELSE Only(a \o front, set)
    <3> DEFINE both == a \o front
    <3>1. both \in Seq(T) /\ a \o c = Append(both, last)
      BY <2>6
    <3> HIDE DEF both
    <3>2. Only(Append(both, last), set) = IF last \in set THEN Append(Only(both, set), last) ELSE Only(both, set)
      BY <2>4, <3>1, OnlyOfLonger
    <3> QED
      BY <3>1, <3>2 DEF both
  <2>10. Only(a, set) \o Append(Only(front, set), last) = Append(Only(a, set) \o Only(front, set), last)
    BY <1>0, <2>4, <2>7, AppendLast
  <2>11. Holds(c)
    BY <2>5, <2>8, <2>9, <2>10
  <2> QED
    BY <2>2, <2>11
<1>2. Len(b) \notin Bad /\ Len(b) \in Nat
  BY <1>1
<1> QED
  BY <1>2

(* A list without its first member. *)
LEMMA OnlyOfTail ==
    ASSUME NEW T, NEW set, NEW list \in Seq(T), list # <<>>
    PROVE  Only(Tail(list), set) =
             IF Head(list) \in set THEN Tail(Only(list, set)) ELSE Only(list, set)
<1> DEFINE one == <<Head(list)>>
           rest == Tail(list)
<1>1. one \in Seq(T) /\ rest \in Seq(T) /\ one = Append(<<>>, Head(list)) /\ Head(list) \in T /\ <<>> \in Seq(T)
  OBVIOUS
<1>2. list = one \o rest
  <2>1. one \o rest \in Seq(T) /\ Len(one \o rest) = Len(list)
    OBVIOUS
  <2>2. ASSUME NEW i \in 1..Len(list)
        PROVE  (one \o rest)[i] = list[i]
    OBVIOUS
  <2> HIDE DEF one, rest
  <2> QED
    BY <2>1, <2>2, SeqEqual
<1>3. Only(one, set) = IF Head(list) \in set THEN one ELSE <<>>
  <2> DEFINE h == Head(list)
  <2>1. h \in T /\ <<>> \in Seq(T) /\ one = Append(<<>>, h) /\ one = <<h>>
    BY <1>1
  <2> HIDE DEF h, one
  <2>2. Only(Append(<<>>, h), set) = IF h \in set THEN Append(Only(<<>>, set), h) ELSE Only(<<>>, set)
    BY <2>1, OnlyOfLonger
  <2>3. Only(<<>>, set) = <<>>
    BY OnlyOfNone
  <2> QED
    BY <2>1, <2>2, <2>3 DEF h
<1>4. Only(rest, set) \in Seq(T)
  BY <1>1, OnlyPicks
<1> HIDE DEF rest
<1>5. Only(list, set) = Only(one, set) \o Only(rest, set)
  <2> HIDE DEF one
  <2> QED
    BY <1>1, <1>2, OnlyOfConcat
<1>6. \A q \in Seq(T) : Tail(one \o q) = q /\ <<>> \o q = q
  <2> TAKE q \in Seq(T)
  <2>1. Tail(one \o q) \in Seq(T) /\ Len(Tail(one \o q)) = Len(q)
    BY <1>1
  <2>2. ASSUME NEW i \in 1..Len(q)
        PROVE  Tail(one \o q)[i] = q[i]
    BY <1>1
  <2>3. Tail(one \o q) = q
    BY <2>1, <2>2, SeqEqual
  <2> QED
    BY <2>3
<1> QED
  BY <1>3, <1>4, <1>5, <1>6 DEF rest

(* What holds of the empty list and is kept when a member joins holds of every
   list. *)
LEMMA ListsGrow ==
    ASSUME NEW T, NEW good, <<>> \in good,
           \A s \in Seq(T), x \in T : s \in good => Append(s, x) \in good
    PROVE  Seq(T) \subseteq good
<1> DEFINE Bad == {n \in Nat : \E s \in Seq(T) : Len(s) = n /\ s \notin good}
<1>1. ASSUME Bad # {}
      PROVE  FALSE
  <2>1. PICK n \in Bad : \A y \in Bad : n =< y
    <3>1. Bad \in SUBSET Nat
      OBVIOUS
    <3> HIDE DEF Bad
    <3> QED
      BY <3>1, <1>1, LeastNumber
  <2>2. PICK s \in Seq(T) : Len(s) = n /\ s \notin good
    BY <2>1
  <2>3. s # <<>>
    BY <2>2
  <2>4. PICK r \in Seq(T), x \in T : s = Append(r, x)
    BY <2>3, SequenceEmptyOrAppend
  <2>5. Len(r) \in Nat /\ Len(r) < n
    BY <2>2, <2>4
  <2>6. r \in good
    BY <2>1, <2>5
  <2> QED
    BY <2>2, <2>4, <2>6
<1> QED
  <2>1. \A s \in Seq(T) : Len(s) \in Nat
    OBVIOUS
  <2> QED
    BY <1>1, <2>1

(* A list of which nothing is left out. *)
LEMMA OnlyOfAll ==
    ASSUME NEW T, NEW list \in Seq(T)
    PROVE  Only(list, T) = list
<1> DEFINE good == {s \in Seq(T) : Only(s, T) = s}
<1>1. <<>> \in good
  BY OnlyOfNone
<1>2. \A s \in Seq(T), x \in T : s \in good => Append(s, x) \in good
  BY OnlyOfLonger
<1> HIDE DEF good
<1>3. Seq(T) \subseteq good
  BY <1>1, <1>2, ListsGrow
<1> QED
  BY <1>3 DEF good

LEMMA DroppingIsOnly ==
    ASSUME NEW T, NEW list \in Seq(T), NEW x
    PROVE  Dropping(list, x) = Only(list, T \ {x})
<1>1. {i \in DOMAIN list : list[i] # x} = {i \in DOMAIN list : list[i] \in T \ {x}}
  OBVIOUS
<1> QED
  BY <1>1 DEF Dropping, Only

(* What does not occur beyond the head of a list is dropped there. *)
LEMMA DroppingTheHead ==
    ASSUME NEW T, NEW x, x \notin T, NEW list \in Seq(T)
    PROVE  Dropping(<<x>> \o list, x) = list
<1> DEFINE all == T \cup {x}
           one == <<x>>
<1>1. one \in Seq(all) /\ list \in Seq(all) /\ one \o list \in Seq(all) /\ one = Append(<<>>, x) /\ <<>> \in Seq(all)
  OBVIOUS
<1>2. all \ {x} = T /\ x \in all
  OBVIOUS
<1> HIDE DEF all, one
<1>3. Only(one, T) = <<>>
  <2>1. Only(Append(<<>>, x), T) = IF x \in T THEN Append(Only(<<>>, T), x) ELSE Only(<<>>, T)
    BY <1>1, <1>2, OnlyOfLonger
  <2> QED
    BY <1>1, <2>1, OnlyOfNone
<1>4. Dropping(one \o list, x) = Only(one \o list, T)
  BY <1>1, <1>2, DroppingIsOnly
<1>5. Only(one \o list, T) = Only(one, T) \o Only(list, T)
  BY <1>1, OnlyOfConcat
<1>6. Only(list, T) = list /\ <<>> \o list = list
  BY OnlyOfAll
<1> QED
  BY <1>3, <1>4, <1>5, <1>6 DEF one

-----------------------------------------------------------------------------
(* The last members of a list *)

TailOf(k, s) ==
    Len(k) =< Len(s) /\ \A i \in 1..Len(k) : k[i] = s[Len(s) - Len(k) + i]

LEMMA EndsLonger ==
    ASSUME NEW T, NEW k \in Seq(T), NEW s \in Seq(T), TailOf(k, s), NEW x \in T
    PROVE  TailOf(Append(k, x), Append(s, x))
<1> DEFINE kx == Append(k, x)
           sx == Append(s, x)
<1>1. /\ Len(kx) = Len(k) + 1 /\ Len(sx) = Len(s) + 1 /\ Len(k) \in Nat /\ Len(s) \in Nat
      /\ kx[Len(k) + 1] = x /\ sx[Len(s) + 1] = x
      /\ (\A i \in 1..Len(k) : kx[i] = k[i]) /\ (\A i \in 1..Len(s) : sx[i] = s[i])
  OBVIOUS
<1> HIDE DEF kx, sx
<1>2. Len(k) =< Len(s) /\ \A i \in 1..Len(k) : k[i] = s[Len(s) - Len(k) + i]
  BY DEF TailOf
<1>3. ASSUME NEW i \in 1..(Len(k) + 1)
      PROVE  kx[i] = sx[Len(s) - Len(k) + i]
  <2>1. CASE i = Len(k) + 1
    <3>1. Len(s) - Len(k) + i = Len(s) + 1
      BY <2>1, <1>1
    <3> QED
      BY <2>1, <3>1, <1>1
  <2>2. CASE i \in 1..Len(k)
    <3>1. Len(s) - Len(k) + i \in 1..Len(s)
      BY <2>2, <1>1, <1>2
    <3> QED
      BY <2>2, <3>1, <1>1, <1>2
  <2> QED
    BY <2>1, <2>2, <1>1
<1>4. TailOf(kx, sx)
  <2>1. Len(sx) - Len(kx) = Len(s) - Len(k) /\ Len(kx) =< Len(sx)
    BY <1>1, <1>2
  <2> QED
    BY <2>1, <1>1, <1>3 DEF TailOf
<1> QED
  BY <1>4 DEF kx, sx

LEMMA EndsShorter ==
    ASSUME NEW T, NEW k \in Seq(T), NEW s \in Seq(T), TailOf(k, s), k # <<>>
    PROVE  TailOf(Tail(k), s)
<1>1. Tail(k) \in Seq(T) /\ Len(Tail(k)) = Len(k) - 1 /\ \A i \in 1..(Len(k) - 1) : Tail(k)[i] = k[i + 1]
  OBVIOUS
<1> QED
  BY <1>1 DEF TailOf

-----------------------------------------------------------------------------
(* Lists without repetitions *)

(* Places that are later each time are different places. *)
LEMMA PicksAreInjective ==
    ASSUME NEW T, NEW list \in Seq(T), NEW places, NEW out \in Seq(T), NEW pos,
           Picks(list, places, Len(list), out, pos),
           \A i, j \in 1..Len(list) : i \in places /\ j \in places /\ i < j => list[i] # list[j]
    PROVE  IsInjective(out)
<1>1. DOMAIN out = 1..Len(out) /\ Len(out) \in Nat /\ Len(list) \in Nat
  OBVIOUS
<1>2. ASSUME NEW j \in 1..Len(out), NEW k \in 1..Len(out), j < k
      PROVE  out[j] # out[k]
  <2>1. /\ pos[j] \in 1..Len(list) /\ pos[k] \in 1..Len(list) /\ pos[j] < pos[k]
        /\ pos[j] \in places /\ pos[k] \in places /\ out[j] = list[pos[j]] /\ out[k] = list[pos[k]]
    BY <1>2 DEF Picks
  <2> QED
    BY <2>1
<1>3. ASSUME NEW j \in 1..Len(out), NEW k \in 1..Len(out), out[j] = out[k]
      PROVE  j = k
  <2>1. j < k \/ k < j \/ j = k
    BY <1>1
  <2> QED
    BY <2>1, <1>2, <1>3
<1> QED
  BY <1>1, <1>3 DEF IsInjective

(* Of a list without repetitions, what is taken has none. *)
LEMMA OnlyIsInjective ==
    ASSUME NEW T, NEW list \in Seq(T), IsInjective(list), NEW set
    PROVE  IsInjective(Only(list, set))
<1> DEFINE places == {i \in DOMAIN list : list[i] \in set}
<1>1. \A i, j \in 1..Len(list) : i < j => list[i] # list[j]
  BY DEF IsInjective
<1> HIDE DEF places
<1>2. InOrder(list, places) \in Seq(T) /\ \E pos : Picks(list, places, Len(list), InOrder(list, places), pos)
  BY TakenArePicked
<1>3. IsInjective(InOrder(list, places))
  BY <1>1, <1>2, PicksAreInjective
<1> QED
  BY <1>3 DEF Only, places

(* Each once. *)
LEMMA DistinctIsInjective ==
    ASSUME NEW T, NEW list \in Seq(T)
    PROVE  Distinct(list) \in Seq(T) /\ IsInjective(Distinct(list))
<1> DEFINE places == {i \in DOMAIN list : \A j \in 1..(i - 1) : list[j] # list[i]}
<1>1. \A i, j \in 1..Len(list) : j \in places /\ i < j => list[i] # list[j]
  OBVIOUS
<1> HIDE DEF places
<1>2. InOrder(list, places) \in Seq(T) /\ \E pos : Picks(list, places, Len(list), InOrder(list, places), pos)
  BY TakenArePicked
<1>3. IsInjective(InOrder(list, places))
  BY <1>1, <1>2, PicksAreInjective
<1> QED
  BY <1>2, <1>3 DEF Distinct, places

(* Two lists that have nothing in common. *)
LEMMA ConcatIsInjective ==
    ASSUME NEW T, NEW a \in Seq(T), NEW b \in Seq(T), IsInjective(a), IsInjective(b),
           \A i \in 1..Len(a), j \in 1..Len(b) : a[i] # b[j]
    PROVE  a \o b \in Seq(T) /\ IsInjective(a \o b)
<1> DEFINE both == a \o b
           m == Len(a)
           n == Len(b)
<1>1. /\ both \in Seq(T) /\ m \in Nat /\ n \in Nat /\ DOMAIN both = 1..(m + n)
      /\ DOMAIN a = 1..m /\ DOMAIN b = 1..n
      /\ \A i \in 1..m : both[i] = a[i]
      /\ \A i \in (m + 1)..(m + n) : i - m \in 1..n /\ both[i] = b[i - m]
  OBVIOUS
<1> HIDE DEF both, m, n
<1>2. ASSUME NEW i \in 1..(m + n), NEW j \in 1..(m + n), both[i] = both[j]
      PROVE  i = j
  <2>1. (i \in 1..m \/ i \in (m + 1)..(m + n)) /\ (j \in 1..m \/ j \in (m + 1)..(m + n))
    BY <1>1
  <2>2. CASE i \in 1..m /\ j \in 1..m
    BY <1>1, <1>2, <2>2 DEF IsInjective
  <2>3. CASE i \in (m + 1)..(m + n) /\ j \in (m + 1)..(m + n)
    <3>1. /\ b[i - m] = b[j - m] /\ i - m \in DOMAIN b /\ j - m \in DOMAIN b
      BY <1>1, <1>2, <2>3
    <3>2. i - m = j - m
      BY <3>1 DEF IsInjective
    <3> QED
      BY <3>2, <1>1, <2>3
  <2>4. CASE i \in 1..m /\ j \in (m + 1)..(m + n)
    BY <1>1, <1>2, <2>4 DEF m, n
  <2>5. CASE j \in 1..m /\ i \in (m + 1)..(m + n)
    BY <1>1, <1>2, <2>5 DEF m, n
  <2> QED
    BY <2>1, <2>2, <2>3, <2>4, <2>5
<1> QED
  BY <1>1, <1>2 DEF IsInjective, both

(* Of one member there is one. *)
LEMMA OnlyOne ==
    ASSUME NEW T, NEW list \in Seq(T), IsInjective(list), NEW i \in 1..Len(list)
    PROVE  Only(list, {list[i]}) = <<list[i]>>
<1> DEFINE x == list[i]
           out == Only(list, {x})
<1>1. out \in Seq(T) /\ IsInjective(out)
  BY OnlyPicks, OnlyIsInjective
<1>2. PICK pos \in [1..Len(out) -> 1..Len(list)] :
        /\ \A k \in 1..Len(out) : out[k] \in {x}
        /\ \A j \in 1..Len(list) : list[j] \in {x} => \E k \in 1..Len(out) : pos[k] = j
  <2> DEFINE set == {x}
             some == Only(list, set)
  <2>1. some \in Seq(T) /\ \E pos \in [1..Len(some) -> 1..Len(list)] :
           /\ \A k \in 1..Len(some) : some[k] = list[pos[k]] /\ some[k] \in set
           /\ \A j, k \in 1..Len(some) : j < k => pos[j] < pos[k]
           /\ \A j \in 1..Len(list) : list[j] \in set => \E k \in 1..Len(some) : pos[k] = j
    <3> HIDE DEF set
    <3> QED
      BY OnlyPicks
  <2> QED
    BY <2>1
<1>3. \E k \in 1..Len(out) : TRUE
  BY <1>2
<1>4. DOMAIN out = 1..Len(out) /\ Len(out) \in Nat /\ x \in T
  BY <1>1
<1> HIDE DEF out, x
<1>5. Len(out) = 1
  <2>1. 1 \in 1..Len(out)
    BY <1>3, <1>4
  <2>2. Len(out) \in 1..Len(out)
    BY <1>3, <1>4
  <2>3. out[1] = x /\ out[Len(out)] = x
    BY <1>2, <2>1, <2>2
  <2> QED
    BY <1>1, <1>4, <2>1, <2>2, <2>3 DEF IsInjective
<1>6. out[1] = x
  BY <1>2, <1>5
<1>7. out = <<x>>
  BY <1>1, <1>4, <1>5, <1>6
<1> QED
  BY <1>7 DEF out, x

-----------------------------------------------------------------------------
(* Who works on a request *)

RoleNames == Registered \cup {Typo}

\* Roles that this deployment can do and prove the work with, in order.
CanBeProved(agents, readOnly) ==
    /\ agents \in Seq(RoleNames) /\ ToSet(agents) \subseteq Served /\ IsInjective(agents)
    /\ \A i, j \in DOMAIN agents : agents[i] \in Checkers /\ agents[j] \in Makers => j < i
    /\ ~readOnly => /\ ToSet(agents) \cap Makers # {}
                    /\ ToSet(agents) \cap Checkers # {}
RunFields == {"at", "agents", "readOnly", "error", "order", "after"}
RoutingHolds ==
    /\ roster \in Seq(Registered) /\ request.roles \in Seq(RoleNames) /\ DOMAIN run = RunFields
    /\ run.at \in {"admitted", "planned"} => CanBeProved(run.agents, run.readOnly)
    /\ run.at = "planned" => /\ ValidOrder(run.order) /\ run.after = Chained(run.order)
                             /\ run.order \in Seq(Makers)

(* The registry's order puts makers first, and each role once. *)
LEMMA OrderedRoles ==
    ASSUME NEW T, NEW ids \in Seq(T)
    PROVE  LET out == Ordered(ids) IN
           /\ out \in Seq(T) /\ IsInjective(out)
           /\ \A i, j \in DOMAIN out : out[i] \in Checkers /\ out[j] \in Makers => j < i
<1> DEFINE seen == Distinct(ids)
           a == Only(seen, Makers)
           b == Only(seen, Checkers)
           rest == ToSet(ids) \ Registered
           c == Only(seen, rest)
           ab == a \o b
           out == ab \o c
<1>1. seen \in Seq(T) /\ IsInjective(seen)
  BY DistinctIsInjective
<1>2. Makers \cap Checkers = {} /\ rest \cap Makers = {} /\ rest \cap Checkers = {}
  BY RoutingAssumption DEF Registered
<1>3. Ordered(ids) = out
  BY DEF Ordered
<1> HIDE DEF seen, rest
<1>4. \A set : Only(seen, set) \in Seq(T) /\ IsInjective(Only(seen, set))
               /\ \A i \in 1..Len(Only(seen, set)) : Only(seen, set)[i] \in set
  BY <1>1, OnlyPicks, OnlyIsInjective
<1>5. /\ a \in Seq(T) /\ IsInjective(a) /\ \A i \in 1..Len(a) : a[i] \in Makers
      /\ b \in Seq(T) /\ IsInjective(b) /\ \A i \in 1..Len(b) : b[i] \in Checkers
      /\ c \in Seq(T) /\ IsInjective(c) /\ \A i \in 1..Len(c) : c[i] \in rest
  BY <1>4
<1> HIDE DEF a, b, c
<1>6. ab \in Seq(T) /\ IsInjective(ab)
  BY <1>2, <1>5, ConcatIsInjective
<1>7. \A i \in 1..Len(ab) : (i =< Len(a) /\ ab[i] \in Makers) \/ (i > Len(a) /\ ab[i] \in Checkers)
  BY <1>5
<1>8. Len(a) \in Nat /\ Len(a) =< Len(ab)
  BY <1>5
<1> HIDE DEF ab
<1>9. out \in Seq(T) /\ IsInjective(out)
  BY <1>2, <1>5, <1>6, <1>7, ConcatIsInjective
<1>10. \A i \in DOMAIN out : (i \in 1..Len(ab) /\ out[i] = ab[i]) \/ out[i] \in rest
  BY <1>5, <1>6
<1>11. ASSUME NEW i \in DOMAIN out, NEW j \in DOMAIN out, out[i] \in Checkers, out[j] \in Makers
       PROVE  j < i
  <2> DEFINE x == out[i]
             y == out[j]
  <2>1. i \in 1..Len(ab) /\ j \in 1..Len(ab) /\ ab[i] \in Checkers /\ ab[j] \in Makers
    BY <1>2, <1>10, <1>11
  <2>2. i > Len(a) /\ j =< Len(a)
    BY <1>2, <1>7, <2>1
  <2> QED
    BY <1>6, <1>8, <2>1, <2>2
<1> QED
  BY <1>3, <1>9, <1>11

(* So what is not refused can be done and proved. *)
LEMMA RoutedRoles ==
    ASSUME NEW ids \in Seq(RoleNames), NEW readOnly, Routed(Ordered(ids), readOnly).error = ""
    PROVE  CanBeProved(Ordered(ids), readOnly)
<1> DEFINE agents == Ordered(ids)
<1>1. /\ agents \in Seq(RoleNames) /\ IsInjective(agents)
      /\ \A i, j \in DOMAIN agents : agents[i] \in Checkers /\ agents[j] \in Makers => j < i
  BY OrderedRoles
<1>2. Validate(agents, readOnly) = ""
  BY DEF Routed
<1> HIDE DEF agents
<1>3. ToSet(agents) \subseteq Served /\ (~readOnly => /\ ToSet(agents) \cap Makers # {}
                                                    /\ ToSet(agents) \cap Checkers # {})
  BY <1>2, Zenon DEF Validate
<1> QED
  BY <1>1, <1>3 DEF CanBeProved, agents

LEMMA ResolvedRoles ==
    ASSUME roster \in Seq(Registered), NEW task, NEW preset, NEW roles \in Seq(RoleNames), NEW answer,
           NEW route, route = Resolve(task, preset, roles, answer), route.error = ""
    PROVE  CanBeProved(route.agents, route.readOnly)
<1>1. roster \in Seq(RoleNames)
  BY SeqGrows DEF RoleNames
<1>2. \A set : Only(roster, set) \in Seq(RoleNames)
  BY <1>1, OnlyPicks
<1>3. ASSUME NEW p \in Seq(RoleNames), NEW q \in Seq(RoleNames)
      PROVE  p \o q \in Seq(RoleNames)
  BY ConcatProperties
<1>4. \A needs : ByCapabilities(needs) \in Seq(RoleNames)
  BY <1>2 DEF ByCapabilities
<1>5. ASSUME NEW spec
      PROVE  ResolveNeeds(spec) \in Seq(RoleNames)
  <2> DEFINE makers == IF AnyMaker \in spec.needs THEN Only(roster, Makers) ELSE ByCapabilities(spec.needs)
             all == makers \o Only(roster, Checkers)
  <2>1. makers \in Seq(RoleNames)
    BY <1>2, <1>4
  <2>2. all \in Seq(RoleNames)
    BY <1>2, <1>3, <2>1
  <2> HIDE DEF all
  <2>3. Distinct(all) \in Seq(RoleNames)
    BY <2>2, DistinctIsInjective
  <2> QED
    BY <2>3 DEF ResolveNeeds, all
<1>6. route # Refused("UNKNOWN_PRESET") /\ route # Refused("EMPTY_TASK")
  <2>1. Refused("UNKNOWN_PRESET").error = "UNKNOWN_PRESET" /\ Refused("EMPTY_TASK").error = "EMPTY_TASK"
    BY DEF Refused
  <2>2. "UNKNOWN_PRESET" # "" /\ "EMPTY_TASK" # ""
    OBVIOUS
  <2> QED
    BY <2>1, <2>2, Zenon
<1>7. \A agents, readOnly : Routed(agents, readOnly).agents = agents /\ Routed(agents, readOnly).readOnly = readOnly
  BY DEF Routed
<1>8. ASSUME NEW ids \in Seq(RoleNames), NEW readOnly, route = Routed(Ordered(ids), readOnly)
      PROVE  CanBeProved(route.agents, route.readOnly)
  <2>1. Routed(Ordered(ids), readOnly).error = ""
    BY <1>8
  <2>2. CanBeProved(Ordered(ids), readOnly)
    BY <2>1, RoutedRoles
  <2> QED
    BY <1>7, <1>8, <2>2
<1>9. CASE roles # <<>>
  BY <1>8, <1>9 DEF Resolve
<1>10. CASE roles = <<>> /\ preset # NoPreset /\ preset \notin Presets
  <2>1. route = Refused("UNKNOWN_PRESET")
    BY <1>10, Zenon DEF Resolve
  <2> QED
    BY <1>6, <2>1
<1>11. CASE roles = <<>> /\ ~(preset # NoPreset /\ preset \notin Presets) /\ preset # NoPreset /\ (PresetOf[preset].task \/ ~task)
  BY <1>5, <1>8, <1>11 DEF Resolve
<1>12. CASE /\ roles = <<>> /\ ~(preset # NoPreset /\ preset \notin Presets)
            /\ ~(preset # NoPreset /\ (PresetOf[preset].task \/ ~task)) /\ task
  <2> DEFINE ids == ByCapabilities(Selected(answer)) \o Only(roster, Checkers)
  <2>1. ids \in Seq(RoleNames)
    BY <1>2, <1>3, <1>4
  <2>2. route = Routed(Ordered(ids), FALSE)
    BY <1>12, Zenon DEF Resolve
  <2> HIDE DEF ids
  <2> QED
    BY <1>8, <2>1, <2>2
<1>13. CASE /\ roles = <<>> /\ ~(preset # NoPreset /\ preset \notin Presets)
            /\ ~(preset # NoPreset /\ (PresetOf[preset].task \/ ~task)) /\ ~task
  <2>1. route = Refused("EMPTY_TASK")
    BY <1>13, Zenon DEF Resolve
  <2> QED
    BY <1>6, <2>1
<1> QED
  BY <1>9, <1>10, <1>11, <1>12, <1>13

(* What a request names are roles, or a typing error. *)
LEMMA NamedRoles == NameLists \subseteq Seq(RoleNames)
<1>1. \A r \in RoleNames : <<r>> \in Seq(RoleNames) /\ <<>> \in Seq(RoleNames)
  OBVIOUS
<1>2. \A q, r \in RoleNames : <<q, r>> \in Seq(RoleNames)
  OBVIOUS
<1>3. \A p \in Registered \X Registered : \E q, r \in RoleNames : p = <<q, r>>
  BY DEF RoleNames
<1>4. <<>> \in Seq(RoleNames)
  OBVIOUS
<1>5. Registered \X Registered \subseteq Seq(RoleNames)
  BY <1>2, <1>3
<1>6. {<<r>> : r \in Registered \cup {Typo}} \subseteq Seq(RoleNames)
  BY <1>1 DEF RoleNames
<1> QED
  BY <1>4, <1>5, <1>6 DEF NameLists

(* An order that is valid has every builder once. *)
LEMMA ValidIsInjective ==
    ASSUME NEW T, NEW order \in Seq(T), NEW items \in Seq(T), IsInjective(items),
           Len(order) = Len(items), ToSet(order) = ToSet(items)
    PROVE  IsInjective(order)
<1> DEFINE n == Len(items)
           S == ToSet(items)
<1>1. n \in Nat /\ DOMAIN items = 1..n /\ DOMAIN order = 1..n
  OBVIOUS
<1>2. items \in [1..n -> S] /\ order \in [1..n -> S]
  <2>1. items = [i \in 1..n |-> items[i]] /\ order = [i \in 1..n |-> order[i]]
    BY <1>1
  <2>2. \A i \in 1..n : items[i] \in S /\ order[i] \in S
    BY <1>1 DEF ToSet
  <2> HIDE DEF n, S
  <2> QED
    BY <2>1, <2>2
<1>3. \A x \in S : (\E i \in 1..n : items[i] = x) /\ (\E i \in 1..n : order[i] = x)
  BY <1>1 DEF ToSet
<1>4. \A i, j \in 1..n : items[i] = items[j] => i = j
  BY <1>1 DEF IsInjective
<1> HIDE DEF n, S
<1>5. IsFiniteSet(1..n) /\ Cardinality(1..n) = n
  BY <1>1, FS_Interval
<1>6. items \in Bijection(1..n, S)
  BY <1>2, <1>3, <1>4 DEF Bijection, Injection, Surjection, IsInjective
<1>7. IsFiniteSet(S) /\ Cardinality(S) = Cardinality(1..n)
  BY <1>5, <1>6, FS_Bijection DEF ExistsBijection
<1>8. order \in Surjection(1..n, S)
  BY <1>2, <1>3 DEF Surjection
<1>9. order \in Injection(1..n, S)
  BY <1>5, <1>7, <1>8, FS_SurjSameCardinalityImpliesInj
<1> QED
  BY <1>1, <1>9 DEF Injection, IsInjective

(* The rounds of an order in which each item waits for the one before it. *)
ReadyOf(items, needs, done) ==
    Only(items, {r \in ToSet(items) \ ToSet(done) : needs[r] \subseteq ToSet(done)})
Rounds(items, needs, out) ==
    out = [n \in 0..Len(items) |-> IF n = 0 THEN <<>> ELSE out[n - 1] \o ReadyOf(items, needs, out[n - 1])]

LEMMA ChainIsFollowed ==
    ASSUME NEW T, NEW order \in Seq(T), NEW items \in Seq(T), IsInjective(items), IsInjective(order),
           Len(order) = Len(items), ToSet(order) = ToSet(items),
           NEW needs, needs = [r \in ToSet(items) |-> DependsOn(order, Chained(order), r)]
    PROVE  DependencyOrder(items, needs) = order
<1> DEFINE top == Len(items)
           First(n) == SubSeq(order, 1, n)
<1>1. /\ top \in Nat /\ DOMAIN items = 1..top /\ DOMAIN order = 1..top
      /\ \A i \in 1..top : order[i] \in T /\ items[i] \in T
  OBVIOUS
<1>2. \A i, j \in 1..top : order[i] = order[j] => i = j
  BY <1>1 DEF IsInjective
<1>3. \A n \in 0..top : /\ First(n) \in Seq(T) /\ Len(First(n)) = n
                      /\ \A i \in 1..n : First(n)[i] = order[i]
  BY <1>1
<1>4. \A n \in 0..top : ToSet(First(n)) = {order[i] : i \in 1..n}
  <2> SUFFICES ASSUME NEW n \in 0..top
               PROVE  ToSet(First(n)) = {order[i] : i \in 1..n}
    OBVIOUS
  <2>1. DOMAIN First(n) = 1..n /\ \A i \in 1..n : First(n)[i] = order[i]
    BY <1>3
  <2> HIDE DEF First
  <2> QED
    BY <2>1 DEF ToSet
<1>5. ToSet(items) = {order[i] : i \in 1..top} /\ \A i \in 1..top : \E j \in 1..top : items[j] = order[i]
  <2>1. ToSet(items) = {order[i] : i \in 1..top}
    BY <1>1 DEF ToSet
  <2>2. ToSet(items) = {items[i] : i \in 1..top}
    BY <1>1 DEF ToSet
  <2> QED
    BY <2>1, <2>2
<1> HIDE DEF top, First
<1>6. \A i \in 1..top : needs[order[i]] = IF i = 1 THEN {} ELSE {order[i - 1]}
  <2> SUFFICES ASSUME NEW i \in 1..top
               PROVE  needs[order[i]] = IF i = 1 THEN {} ELSE {order[i - 1]}
    OBVIOUS
  <2>1. order[i] \in ToSet(items)
    BY <1>5
  <2>2. (CHOOSE j \in DOMAIN order : order[j] = order[i]) = i
    BY <1>1, <1>2
  <2>3. DependsOn(order, Chained(order), order[i]) = Chained(order)[i]
    BY <2>2 DEF DependsOn
  <2> QED
    BY <1>1, <2>1, <2>3 DEF Chained
<1>7. ASSUME NEW n \in 0..top, n # top
      PROVE  ReadyOf(items, needs, First(n)) = <<order[n + 1]>>
  <2> DEFINE done == ToSet(First(n))
             set == {r \in ToSet(items) \ done : needs[r] \subseteq done}
  <2>1. n + 1 \in 1..top /\ done = {order[i] : i \in 1..n}
    BY <1>1, <1>4, <1>7
  <2>2. order[n + 1] \in set
    <3>1. order[n + 1] \notin done
      BY <1>1, <1>2, <2>1
    <3>2. needs[order[n + 1]] \subseteq done
      <4>0. (n + 1) - 1 = n /\ (n + 1 = 1 <=> n = 0) /\ (n # 0 => n \in 1..n)
        BY <1>1
      <4> DEFINE next == n + 1
      <4>3. needs[order[next]] = IF next = 1 THEN {} ELSE {order[next - 1]}
        BY <1>6, <2>1
      <4>1. n = 0 => needs[order[n + 1]] = {}
        BY <4>0, <4>3
      <4>2. n # 0 => needs[order[n + 1]] = {order[n]} /\ n \in 1..n
        BY <4>0, <4>3
      <4> QED
        BY <2>1, <4>1, <4>2
    <3> QED
      BY <1>5, <2>1, <3>1, <3>2
  <2>3. ASSUME NEW r \in set
        PROVE  r = order[n + 1]
    <3>1. PICK i \in 1..top : r = order[i] /\ i \notin 1..n
      BY <1>5, <2>1
    <3>2. i = 1 \/ order[i - 1] \in done
      BY <1>6, <3>1
    <3>3. CASE i = 1
      BY <1>1, <3>1, <3>3
    <3>4. CASE i # 1
      <4>1. PICK j \in 1..n : order[i - 1] = order[j]
        BY <2>1, <3>2, <3>4
      <4>2. i - 1 \in 1..top /\ j \in 1..top
        BY <1>1, <3>4
      <4>3. i - 1 = j
        BY <1>2, <4>1, <4>2
      <4>4. i = n + 1
        BY <1>1, <3>1, <4>3
      <4> QED
        BY <3>1, <4>4
    <3> QED
      BY <3>3, <3>4
  <2>4. set = {order[n + 1]}
    BY <2>2, <2>3
  <2>5. PICK j \in 1..top : items[j] = order[n + 1]
    BY <1>5, <2>1
  <2>6. Only(items, {items[j]}) = <<items[j]>>
    BY OnlyOne DEF top
  <2> QED
    BY <2>4, <2>5, <2>6 DEF ReadyOf
<1>8. \A n \in 1..top : First(n) = First(n - 1) \o <<order[n]>>
  <2> SUFFICES ASSUME NEW n \in 1..top
               PROVE  First(n) = First(n - 1) \o <<order[n]>>
    OBVIOUS
  <2>1. /\ n \in 0..top /\ n - 1 \in 0..top /\ order[n] \in T /\ <<order[n]>> \in Seq(T) /\ Len(<<order[n]>>) = 1
    BY <1>1
  <2>2. /\ First(n) \in Seq(T) /\ Len(First(n)) = n /\ First(n - 1) \in Seq(T) /\ Len(First(n - 1)) = n - 1
    BY <1>3, <2>1
  <2>3. First(n - 1) \o <<order[n]>> \in Seq(T) /\ Len(First(n - 1) \o <<order[n]>>) = n
    BY <1>1, <2>1, <2>2
  <2>4. ASSUME NEW i \in 1..n
        PROVE  First(n)[i] = (First(n - 1) \o <<order[n]>>)[i]
    <3>1. First(n)[i] = order[i] /\ (i # n => First(n - 1)[i] = order[i])
      <4> DEFINE prev == n - 1
      <4>1. prev \in 0..top /\ (i # n => i \in 1..prev)
        BY <1>1, <2>1
      <4>2. \A j \in 1..prev : First(prev)[j] = order[j]
        BY <1>3, <4>1
      <4>3. \A j \in 1..n : First(n)[j] = order[j]
        BY <1>3, <2>1
      <4> QED
        BY <4>1, <4>2, <4>3
    <3>2. (First(n - 1) \o <<order[n]>>)[i] = IF i =< n - 1 THEN First(n - 1)[i] ELSE <<order[n]>>[i - (n - 1)]
      BY <1>1, <2>1, <2>2, ConcatProperties
    <3>3. CASE i = n
      <4>1. <<order[n]>>[i - (n - 1)] = order[n] /\ ~(i =< n - 1)
        BY <1>1, <3>3
      <4> QED
        BY <3>1, <3>2, <3>3, <4>1
    <3>4. CASE i # n
      <4>1. i =< n - 1
        BY <1>1, <3>4
      <4> QED
        BY <3>1, <3>2, <3>4, <4>1
    <3> QED
      BY <3>3, <3>4
  <2> QED
    BY <2>2, <2>3, <2>4, SeqEqual
<1>9. First(0) = <<>> /\ First(top) = order
  <2>1. First(0) \in Seq(T) /\ Len(First(0)) = 0 /\ First(top) \in Seq(T) /\ Len(First(top)) = Len(order)
    BY <1>1, <1>3 DEF top
  <2>0. top \in 0..top /\ top = Len(order)
    BY <1>1 DEF top
  <2>2. \A i \in 1..Len(order) : First(top)[i] = order[i]
    BY <1>3, <2>0
  <2>3. First(0) = <<>>
    BY <2>1
  <2>4. First(top) = order
    BY <2>1, <2>2, SeqEqual
  <2> QED
    BY <2>3, <2>4
<1> DEFINE out == CHOOSE h : Rounds(items, needs, h)
           all == [n \in 0..top |-> First(n)]
<1>10. Rounds(items, needs, all)
  <2>1. ASSUME NEW n \in 0..top
        PROVE  First(n) = IF n = 0 THEN <<>> ELSE First(n - 1) \o ReadyOf(items, needs, First(n - 1))
    <3>1. CASE n = 0
      BY <1>9, <3>1
    <3>2. CASE n # 0
      <4> DEFINE prev == n - 1
      <4>1. n \in 1..top /\ prev \in 0..top /\ prev # top /\ prev + 1 = n
        BY <1>1, <3>2
      <4>2. ReadyOf(items, needs, First(prev)) = <<order[prev + 1]>>
        BY <1>7, <4>1
      <4>3. First(n) = First(prev) \o <<order[n]>>
        BY <1>8, <4>1
      <4> QED
        BY <3>2, <4>1, <4>2, <4>3
    <3> QED
      BY <3>1, <3>2
  <2>2. \A n \in 0..top : n # 0 => n - 1 \in 0..top
    BY <1>1
  <2>3. all = [n \in 0..top |-> IF n = 0 THEN <<>> ELSE all[n - 1] \o ReadyOf(items, needs, all[n - 1])]
    BY <2>1, <2>2
  <2> HIDE DEF all
  <2> QED
    BY <2>3 DEF Rounds, top
<1> HIDE DEF all
<1>11. Rounds(items, needs, out)
  BY <1>10
<1>12. DependencyOrder(items, needs) = out[top]
  BY DEF DependencyOrder, Rounds, ReadyOf, top
<1> HIDE DEF out
<1>13. \A n \in 0..top : out[n] = IF n = 0 THEN <<>> ELSE out[n - 1] \o ReadyOf(items, needs, out[n - 1])
  BY <1>11 DEF Rounds, top
<1> DEFINE Bad == {n \in 0..top : out[n] # First(n)}
<1>14. ASSUME Bad # {}
       PROVE  FALSE
  <2>1. PICK n \in Bad : \A m \in Bad : n =< m
    <3>1. Bad \in SUBSET Nat
      BY <1>1
    <3> HIDE DEF Bad
    <3> QED
      BY <3>1, <1>14, LeastNumber
  <2>2. n # 0
    BY <1>9, <1>13, <2>1
  <2>3. n - 1 \in 0..top /\ n - 1 # top /\ n - 1 < n /\ n \in 1..top /\ (n - 1) + 1 = n
    BY <1>1, <2>1, <2>2
  <2>4. n - 1 \notin Bad
    BY <1>1, <2>1, <2>3
  <2>5. out[n - 1] = First(n - 1)
    BY <2>3, <2>4
  <2>6. ReadyOf(items, needs, First(n - 1)) = <<order[n]>>
    BY <1>7, <2>3
  <2>7. out[n] = First(n)
    BY <1>8, <1>13, <2>1, <2>2, <2>3, <2>5, <2>6
  <2> QED
    BY <2>1, <2>7
<1> QED
  BY <1>1, <1>9, <1>12, <1>14

LEMMA KickedAreNamed ==
    ASSUME roster \in Seq(Registered), NEW role \in Registered
    PROVE  KickedRoles(role) \in Seq(RoleNames)
<1>1. <<role>> \in Seq(Registered) /\ Only(roster, Checkers) \in Seq(Registered)
  BY OnlyPicks
<1>2. KickedRoles(role) \in Seq(Registered)
  BY <1>1, ConcatProperties DEF KickedRoles
<1> QED
  BY <1>2, SeqGrows DEF RoleNames

LEMMA AnswersNameMakers == OrderAnswers \subseteq Seq(Makers)
<1> DEFINE n == Cardinality(Makers)
<1>1. n \in Nat
  <2>1. IsFiniteSet(Makers)
    BY RoutingAssumption, FS_Subset DEF Registered
  <2> QED
    BY <2>1, FS_CardinalityType
<1>2. SetToSeqs(Makers) \subseteq [1..n -> Makers]
  BY DEF SetToSeqs
<1> HIDE DEF n
<1>3. SetToSeqs(Makers) \subseteq Seq(Makers)
  BY <1>1, <1>2
<1>4. \A q, r \in Makers : <<q, r>> \in Seq(Makers) /\ <<r>> \in Seq(Makers)
  OBVIOUS
<1>5. Makers \X Makers \subseteq Seq(Makers)
  <2>1. \A p \in Makers \X Makers : \E q, r \in Makers : p = <<q, r>>
    OBVIOUS
  <2> QED
    BY <1>4, <2>1
<1>6. {<<m>> : m \in Makers} \subseteq Seq(Makers) /\ <<>> \in Seq(Makers)
  <2>1. \A m \in Makers : <<m>> \in Seq(Makers)
    OBVIOUS
  <2>2. <<>> \in Seq(Makers)
    OBVIOUS
  <2> QED
    BY <2>1, <2>2
<1> QED
  BY <1>3, <1>5, <1>6 DEF OrderAnswers

LEMMA RoutingStart == RoutingInit => RoutingHolds
<1> SUFFICES ASSUME RoutingInit
             PROVE  RoutingHolds
  OBVIOUS
<1>1. PICK s \in SUBSET Registered : \E ids \in SetToSeqs(s) : roster = Ordered(ids)
  BY DEF RoutingInit
<1>2. PICK ids \in SetToSeqs(s) : roster = Ordered(ids)
  BY <1>1
<1> DEFINE n == Cardinality(s)
<1>3. ids \in [1..n -> s]
  BY DEF SetToSeqs
<1>4. n \in Nat
  BY RoutingAssumption, FS_Subset, FS_CardinalityType
<1> HIDE DEF n
<1>5. ids \in Seq(Registered)
  BY <1>3, <1>4
<1>6. roster \in Seq(Registered)
  BY <1>2, <1>5, OrderedRoles
<1>7. DOMAIN run = RunFields /\ run.at = "none"
  BY DEF RoutingInit, NoRun, RunFields
<1>8. request.roles \in Seq(RoleNames)
  BY DEF RoutingInit, NoRequest
<1> QED
  BY <1>6, <1>7, <1>8 DEF RoutingHolds

LEMMA RoutingHoldsStep ==
    ASSUME RoutingHolds, [RoutingNext]_routingVars
    PROVE  RoutingHolds'
<1>0. roster \in Seq(Registered) /\ request.roles \in Seq(RoleNames) /\ DOMAIN run = RunFields
  BY DEF RoutingHolds
<1>1. CASE UNCHANGED routingVars
  BY <1>1 DEF routingVars, RoutingHolds, CanBeProved, ValidOrder, Builders, Served, Chained
<1>2. ASSUME NEW role \in Registered, ChatDispatches(role)
      PROVE  RoutingHolds'
  <2>1. /\ request'.roles = KickedRoles(role) /\ run' = [NoRun EXCEPT !.at = "submitted"] /\ roster' = roster
    BY <1>2 DEF ChatDispatches
  <2>2. DOMAIN run' = RunFields /\ run'.at = "submitted"
    BY <2>1 DEF NoRun, RunFields
  <2> QED
    BY <1>0, <2>1, <2>2, KickedAreNamed DEF RoutingHolds
<1>3. ASSUME NEW task \in BOOLEAN, NEW preset, NEW roles \in NameLists, ConsoleSubmits(task, preset, roles)
      PROVE  RoutingHolds'
  <2>1. /\ request'.roles = roles /\ run' = [NoRun EXCEPT !.at = "submitted"] /\ roster' = roster
    BY <1>3 DEF ConsoleSubmits
  <2>2. DOMAIN run' = RunFields /\ run'.at = "submitted"
    BY <2>1 DEF NoRun, RunFields
  <2> QED
    BY <1>0, <2>1, <2>2, NamedRoles DEF RoutingHolds
<1>4. ASSUME NEW answer, Admission(answer)
      PROVE  RoutingHolds'
  <2> DEFINE own == request.preset \in Presets /\ PresetOf[request.preset].task
             task == request.task \/ own
             route == IF task THEN Resolve(task, request.preset, request.roles, answer) ELSE Refused("EMPTY_TASK")
  <2>1. /\ run' = [run EXCEPT !.at = IF route.error = "" THEN "admitted" ELSE "failed",
                              !.agents = IF route.error = "" THEN route.agents ELSE <<>>,
                              !.readOnly = route.readOnly, !.error = route.error]
        /\ UNCHANGED <<roster, request>>
    BY <1>4 DEF Admission
  <2>2. ~task => route.error # ""
    BY DEF Refused
  <2>3. task => route = Resolve(task, request.preset, request.roles, answer)
    OBVIOUS
  <2> HIDE DEF route, task
  <2>4. route.error = "" => CanBeProved(route.agents, route.readOnly)
    BY <1>0, <2>2, <2>3, ResolvedRoles
  <2>5. /\ DOMAIN run' = RunFields /\ run'.at = IF route.error = "" THEN "admitted" ELSE "failed"
        /\ route.error = "" => run'.agents = route.agents /\ run'.readOnly = route.readOnly
    BY <1>0, <2>1 DEF RunFields
  <2>6. run'.at \in {"admitted", "planned"} => CanBeProved(run'.agents, run'.readOnly)
    BY <2>4, <2>5
  <2>7. run'.at # "planned"
    BY <2>5
  <2>8. ASSUME run'.at \in {"admitted", "planned"}
        PROVE  CanBeProved(run.agents, run.readOnly)'
    <3>1. CanBeProved(run'.agents, run'.readOnly)
      BY <2>6, <2>8
    <3>2. Served' = Served
      BY <2>1 DEF Served
    <3> QED
      BY <3>1, <3>2 DEF CanBeProved
  <2> QED
    BY <1>0, <2>1, <2>5, <2>7, <2>8 DEF RoutingHolds
<1>5. ASSUME NEW first \in OrderAnswers, NEW second \in OrderAnswers, Plan(first, second)
      PROVE  RoutingHolds'
  <2> DEFINE order == IF ValidOrder(first) THEN first ELSE second
  <2>1. /\ run.at = "admitted" /\ UNCHANGED <<roster, request>>
        /\ run' = IF ValidOrder(order)
                  THEN [run EXCEPT !.at = "planned", !.order = order, !.after = Chained(order)]
                  ELSE [run EXCEPT !.at = "failed", !.error = "INTEGRATION_BRIEF_INVALID"]
    BY <1>5 DEF Plan
  <2>2. order \in Seq(Makers)
    BY AnswersNameMakers
  <2> HIDE DEF order
  <2>3. CanBeProved(run.agents, run.readOnly)
    BY <2>1 DEF RoutingHolds
  <2>4. DOMAIN run' = RunFields /\ run'.agents = run.agents /\ run'.readOnly = run.readOnly
    BY <1>0, <2>1 DEF RunFields
  <2>5. CanBeProved(run.agents, run.readOnly)'
    BY <2>1, <2>3, <2>4 DEF CanBeProved, Served
  <2>6. CASE ValidOrder(order)
    <3>1. run'.at = "planned" /\ run'.order = order /\ run'.after = Chained(order)
      BY <1>0, <2>1, <2>6 DEF RunFields
    <3>2. ValidOrder(run.order)' /\ Chained(run.order)' = Chained(order)
      BY <2>4, <2>6, <3>1 DEF ValidOrder, Builders, Chained
    <3>3. (run.after = Chained(run.order))' /\ (run.order \in Seq(Makers))'
      BY <2>2, <3>1, <3>2
    <3> QED
      BY <1>0, <2>1, <2>4, <2>5, <3>2, <3>3 DEF RoutingHolds
  <2>7. CASE ~ValidOrder(order)
    <3>1. run'.at = "failed"
      BY <1>0, <2>1, <2>7 DEF RunFields
    <3> QED
      BY <1>0, <2>1, <2>4, <3>1 DEF RoutingHolds
  <2> QED
    BY <2>6, <2>7
<1>6. ASSUME PlanFails
      PROVE  RoutingHolds'
  <2>1. DOMAIN run' = RunFields /\ run'.at = "failed" /\ UNCHANGED <<roster, request>>
    BY <1>0, <1>6 DEF PlanFails, RunFields
  <2> QED
    BY <1>0, <2>1 DEF RoutingHolds
<1> QED
  BY <1>1, <1>2, <1>3, <1>4, <1>5, <1>6 DEF RoutingNext

LEMMA RoutedRunsAreProvable == RoutingHolds => RunsAreProvable
<1> SUFFICES ASSUME RoutingHolds, run.at \in {"admitted", "planned"}
             PROVE  RunsAreProvable
  BY DEF RunsAreProvable
<1>1. CanBeProved(run.agents, run.readOnly)
  BY DEF RoutingHolds
<1>2. ASSUME run.at = "planned"
      PROVE  MergeOrder = run.order
  <2> DEFINE items == Builders
             order == run.order
             needs == [r \in ToSet(items) |-> DependsOn(order, run.after, r)]
  <2>1. ValidOrder(order) /\ run.after = Chained(order) /\ order \in Seq(Makers)
    BY <1>2 DEF RoutingHolds
  <2>2. items \in Seq(RoleNames) /\ IsInjective(items)
    BY <1>1, OnlyPicks, OnlyIsInjective DEF CanBeProved, Builders
  <2>3. Len(order) = Len(items) /\ ToSet(order) = ToSet(items) /\ order \in Seq(RoleNames)
    BY <2>1, SeqGrows DEF ValidOrder, RoleNames, Registered
  <2>4. MergeOrder = DependencyOrder(items, needs)
    BY DEF MergeOrder
  <2>5. needs = [r \in ToSet(items) |-> DependsOn(order, Chained(order), r)]
    BY <2>1
  <2> HIDE DEF items, order, needs
  <2>6. IsInjective(order)
    BY <2>2, <2>3, ValidIsInjective
  <2>7. DependencyOrder(items, needs) = order
    BY <2>2, <2>3, <2>5, <2>6, ChainIsFollowed
  <2> QED
    BY <2>4, <2>7 DEF order
<1> QED
  BY <1>1, <1>2 DEF CanBeProved, RunsAreProvable

-----------------------------------------------------------------------------
(* The chat *)

Events == [kind : {"run_started", "error", "done"}, run : Nat]
TurnFields == {"at", "of", "history", "tools", "worker", "tool", "runs", "queue", "shown", "plain"}
TurnTyped(x) ==
    /\ DOMAIN x = TurnFields
    /\ x.at \in {"none", "streams", "over", "left"}
    /\ x.worker \in {"none", "thinks", "calls", "submitted", "failed", "done"}
    /\ x.tool \in RunTools
    /\ x.runs \in Seq(SUBSET ChatRoles) /\ x.queue \in Seq(Events) /\ x.shown \subseteq Events

\* The end of the stream is the last thing the worker says.
DoneIsLast(x) ==
    \A i \in 1..Len(x.queue) : x.queue[i] = Event("done") => i = Len(x.queue) /\ x.worker = "done"
\* A run was shown, is on its way to the browser, or its tool has just submitted it.
RunsAreTold(x) ==
    \A n \in 1..Len(x.runs) :
        \/ Started(n) \in x.shown
        \/ \E i \in 1..Len(x.queue) : x.queue[i] = Started(n)
        \/ x.worker = "submitted" /\ n = Len(x.runs)
OverIsTold(x) ==
    x.at = "over" => x.worker = "done" /\ \A n \in 1..Len(x.runs) : Started(n) \in x.shown
TurnHolds(x) == TurnTyped(x) /\ DoneIsLast(x) /\ RunsAreTold(x) /\ OverIsTold(x)
TurnsHold == DOMAIN turn = ChatTurns /\ \A t \in ChatTurns : TurnHolds(turn[t])

(* What a worker says is an event. *)
LEMMA EventsTyped ==
    /\ Event("done") \in Events /\ Event("error") \in Events
    /\ \A n \in Nat : Started(n) \in Events /\ Started(n) # Event("done") /\ Started(n) # Event("error")
    /\ Event("error") # Event("done")
BY DEF Events, Event, Started

(* What is said joins the end of the queue. *)
LEMMA SaidLast ==
    ASSUME NEW x, TurnHolds(x), NEW y, NEW event \in Events,
           x.worker # "done", x.at # "over",
           DOMAIN y = TurnFields, y.at = x.at, y.tool = x.tool, y.runs = x.runs, y.shown = x.shown,
           y.queue = Append(x.queue, event),
           y.worker \in {"thinks", "failed", "done"}, event = Event("done") => y.worker = "done",
           x.worker = "submitted" => event = Started(Len(x.runs))
    PROVE  TurnHolds(y)
<1> USE DEF TurnHolds
<1>1. x.queue \in Seq(Events) /\ x.runs \in Seq(SUBSET ChatRoles) /\ Len(x.queue) \in Nat /\ Len(x.runs) \in Nat
  BY DEF TurnTyped
<1>2. /\ y.queue \in Seq(Events) /\ Len(y.queue) = Len(x.queue) + 1 /\ y.queue[Len(x.queue) + 1] = event
      /\ \A i \in 1..Len(x.queue) : y.queue[i] = x.queue[i]
  BY <1>1
<1>3. TurnTyped(y)
  BY <1>2 DEF TurnTyped
<1>4. DoneIsLast(y)
  <2>1. \A i \in 1..Len(x.queue) : x.queue[i] # Event("done")
    BY DEF DoneIsLast
  <2> QED
    BY <1>1, <1>2, <2>1 DEF DoneIsLast
<1>5. RunsAreTold(y)
  <2> SUFFICES ASSUME NEW n \in 1..Len(x.runs)
               PROVE  Started(n) \in x.shown \/ \E i \in 1..Len(y.queue) : y.queue[i] = Started(n)
    BY DEF RunsAreTold
  <2>1. CASE Started(n) \in x.shown
    BY <2>1
  <2>2. CASE \E i \in 1..Len(x.queue) : x.queue[i] = Started(n)
    <3>1. PICK i \in 1..Len(x.queue) : x.queue[i] = Started(n)
      BY <2>2
    <3>2. i \in 1..Len(y.queue) /\ y.queue[i] = Started(n)
      BY <1>1, <1>2, <3>1
    <3> QED
      BY <3>2
  <2>3. CASE x.worker = "submitted" /\ n = Len(x.runs)
    <3>1. Len(y.queue) \in 1..Len(y.queue) /\ y.queue[Len(y.queue)] = Started(n)
      BY <1>1, <1>2, <2>3
    <3> QED
      BY <3>1
  <2> QED
    BY <2>1, <2>2, <2>3 DEF RunsAreTold
<1>6. OverIsTold(y)
  BY DEF OverIsTold
<1> QED
  BY <1>3, <1>4, <1>5, <1>6

(* Nothing else of a turn concerns what is told. *)
LEMMA SameTold ==
    ASSUME NEW x, TurnHolds(x), NEW y, DOMAIN y = TurnFields,
           y.at = x.at \/ (y.at = "left" /\ x.at = "streams"),
           y.tool \in RunTools, y.runs = x.runs, y.shown = x.shown,
           y.queue = x.queue, y.worker = x.worker \/ (x.worker = "thinks" /\ y.worker = "calls")
    PROVE  TurnHolds(y)
BY DEF TurnHolds, TurnTyped, DoneIsLast, RunsAreTold, OverIsTold

(* One turn changes at a time. *)
LEMMA OneTurn ==
    ASSUME TurnsHold, NEW t \in ChatTurns, NEW x, turn' = [turn EXCEPT ![t] = x], TurnHolds(x)
    PROVE  TurnsHold'
BY DEF TurnsHold

(* Every step keeps what each turn has told of its runs. *)
LEMMA TurnsHoldStep ==
    ASSUME TurnsHold, [ChatNext]_chatVars
    PROVE  TurnsHold'
<1>1. ASSUME NEW t \in ChatTurns, NEW c \in Conversations, TurnBegins(t, c)
      PROVE  TurnsHold'
  <2> DEFINE begun == [NoTurn EXCEPT !.at = "streams", !.of = c, !.history = remembered[c],
                                     !.tools = Tools, !.worker = "thinks", !.plain = Streams(c) = {}]
  <2>1. turn' = [u \in ChatTurns |-> IF u = t THEN begun
                   ELSE IF u \in Streams(c) THEN [turn[u] EXCEPT !.plain = FALSE] ELSE turn[u]]
    BY <1>1 DEF TurnBegins
  <2>2. /\ DOMAIN begun = TurnFields /\ begun.at = "streams" /\ begun.worker = "thinks" /\ begun.tool = Build
        /\ begun.runs = <<>> /\ begun.queue = <<>> /\ begun.shown = {}
    BY DEF NoTurn, TurnFields
  <2> HIDE DEF begun
  <2>3. <<>> \in Seq(SUBSET ChatRoles) /\ <<>> \in Seq(Events) /\ Build \in RunTools /\ Len(<<>>) = 0
    BY DEF RunTools
  <2>4. TurnHolds(begun)
    BY <2>2, <2>3 DEF TurnHolds, TurnTyped, DoneIsLast, RunsAreTold, OverIsTold
  <2>5. ASSUME NEW u \in ChatTurns
        PROVE  TurnHolds([turn[u] EXCEPT !.plain = FALSE])
    <3> DEFINE y == [turn[u] EXCEPT !.plain = FALSE]
    <3>1. TurnHolds(turn[u])
      BY DEF TurnsHold
    <3>2. /\ DOMAIN y = TurnFields /\ y.at = turn[u].at /\ y.tool = turn[u].tool /\ y.runs = turn[u].runs
          /\ y.shown = turn[u].shown /\ y.queue = turn[u].queue /\ y.worker = turn[u].worker
      BY <3>1 DEF TurnHolds, TurnTyped, TurnFields
    <3>3. y.tool \in RunTools
      BY <3>1, <3>2 DEF TurnHolds, TurnTyped
    <3> HIDE DEF y
    <3>4. TurnHolds(y)
      BY <3>1, <3>2, <3>3, SameTold
    <3> QED
      BY <3>4 DEF y
  <2> QED
    BY <2>1, <2>4, <2>5 DEF TurnsHold
<1>2. ASSUME NEW t \in ChatTurns, NEW tool \in ChatRoles \cup {Build}, Calls(t, tool)
      PROVE  TurnsHold'
  <2> DEFINE y == [turn[t] EXCEPT !.worker = "calls", !.tool = tool]
  <2>1. TurnHolds(turn[t]) /\ turn[t].worker = "thinks" /\ DOMAIN turn[t] = TurnFields
    BY <1>2 DEF TurnsHold, Calls, TurnHolds, TurnTyped
  <2>2. turn' = [turn EXCEPT ![t] = y]
    BY <1>2 DEF Calls, TurnsHold
  <2>3. /\ DOMAIN y = TurnFields /\ y.at = turn[t].at /\ y.tool = tool /\ y.runs = turn[t].runs
        /\ y.shown = turn[t].shown /\ y.queue = turn[t].queue /\ y.worker = "calls"
    BY <2>1 DEF TurnFields
  <2> HIDE DEF y
  <2>4. TurnHolds(y)
    BY <2>1, <2>3, SameTold DEF RunTools
  <2> QED
    BY <2>2, <2>4, OneTurn
<1>3. ASSUME NEW t \in ChatTurns, NEW agents \in SUBSET ChatRoles, Kick(t, agents)
      PROVE  TurnsHold'
  <2> DEFINE x == turn[t]
             y == [turn[t] EXCEPT !.worker = "submitted", !.runs = Append(@, agents)]
  <2>1. TurnHolds(x) /\ x.worker = "calls" /\ DOMAIN x = TurnFields
    BY <1>3 DEF TurnsHold, Kick, TurnHolds, TurnTyped
  <2>2. turn' = [turn EXCEPT ![t] = y]
    BY <1>3 DEF Kick, TurnsHold
  <2>3. /\ DOMAIN y = TurnFields /\ y.at = x.at /\ y.tool = x.tool /\ y.runs = Append(x.runs, agents)
        /\ y.shown = x.shown /\ y.queue = x.queue /\ y.worker = "submitted"
    BY <2>1 DEF TurnFields
  <2> HIDE DEF x, y
  <2>4. y.runs \in Seq(SUBSET ChatRoles) /\ Len(y.runs) = Len(x.runs) + 1 /\ Len(x.runs) \in Nat
    BY <2>1, <2>3 DEF TurnHolds, TurnTyped
  <2>5. RunsAreTold(y)
    BY <2>1, <2>3, <2>4 DEF TurnHolds, RunsAreTold
  <2>6. TurnHolds(y)
    BY <2>1, <2>3, <2>4, <2>5 DEF TurnHolds, TurnTyped, DoneIsLast, OverIsTold
  <2> QED
    BY <2>2, <2>6, OneTurn
<1>4. ASSUME NEW t \in ChatTurns, AfterTool(t)
      PROVE  TurnsHold'
  <2> DEFINE x == turn[t]
             event == Started(Len(x.runs))
             y == [turn[t] EXCEPT !.worker = "thinks", !.queue = Append(x.queue, event)]
  <2>1. TurnHolds(x) /\ x.worker = "submitted" /\ DOMAIN x = TurnFields /\ x.tool \in RunTools /\ Len(x.runs) \in Nat
    BY <1>4 DEF TurnsHold, AfterTool, TurnHolds, TurnTyped
  <2>2. turn' = [turn EXCEPT ![t] = y]
    BY <1>4, <2>1 DEF AfterTool, TurnsHold, Tells, TurnFields
  <2>3. event \in Events /\ event # Event("done")
    BY <2>1, EventsTyped
  <2>4. /\ DOMAIN y = TurnFields /\ y.at = x.at /\ y.tool = x.tool /\ y.runs = x.runs
        /\ y.shown = x.shown /\ y.queue = Append(x.queue, event) /\ y.worker = "thinks"
    BY <2>1 DEF TurnFields
  <2>5. x.at # "over" /\ event = Started(Len(x.runs))
    BY <2>1 DEF TurnHolds, OverIsTold
  <2> HIDE DEF x, y, event
  <2>6. TurnHolds(y)
    BY <2>1, <2>3, <2>4, <2>5, SaidLast
  <2> QED
    BY <2>2, <2>6, OneTurn
<1>5. ASSUME NEW t \in ChatTurns, ModelFails(t)
      PROVE  TurnsHold'
  <2> DEFINE x == turn[t]
             y == [turn[t] EXCEPT !.worker = "failed", !.plain = FALSE, !.queue = Append(x.queue, Event("error"))]
  <2>1. TurnHolds(x) /\ x.worker = "thinks" /\ DOMAIN x = TurnFields
    BY <1>5 DEF TurnsHold, ModelFails, TurnHolds, TurnTyped
  <2>2. turn' = [turn EXCEPT ![t] = y]
    BY <1>5, <2>1 DEF ModelFails, TurnsHold, Tells, TurnFields
  <2>3. /\ DOMAIN y = TurnFields /\ y.at = x.at /\ y.tool = x.tool /\ y.runs = x.runs
        /\ y.shown = x.shown /\ y.queue = Append(x.queue, Event("error")) /\ y.worker = "failed"
    BY <2>1 DEF TurnFields
  <2>4. x.at # "over"
    BY <2>1 DEF TurnHolds, OverIsTold
  <2> HIDE DEF x, y
  <2>5. TurnHolds(y)
    BY <2>1, <2>3, <2>4, SaidLast, EventsTyped
  <2> QED
    BY <2>2, <2>5, OneTurn
<1>6. ASSUME NEW t \in ChatTurns, WorkerEnds(t)
      PROVE  TurnsHold'
  <2> DEFINE x == turn[t]
             y == [turn[t] EXCEPT !.worker = "done", !.queue = Append(x.queue, Event("done"))]
  <2>1. TurnHolds(x) /\ x.worker \in {"thinks", "failed"} /\ DOMAIN x = TurnFields
    BY <1>6 DEF TurnsHold, WorkerEnds, TurnHolds, TurnTyped
  <2>2. turn' = [turn EXCEPT ![t] = y]
    BY <1>6, <2>1 DEF WorkerEnds, TurnsHold, Tells, TurnFields
  <2>3. /\ DOMAIN y = TurnFields /\ y.at = x.at /\ y.tool = x.tool /\ y.runs = x.runs
        /\ y.shown = x.shown /\ y.queue = Append(x.queue, Event("done")) /\ y.worker = "done"
    BY <2>1 DEF TurnFields
  <2>4. x.at # "over"
    BY <2>1 DEF TurnHolds, OverIsTold
  <2> HIDE DEF x, y
  <2>5. TurnHolds(y)
    BY <2>1, <2>3, <2>4, SaidLast, EventsTyped
  <2> QED
    BY <2>2, <2>5, OneTurn
<1>7. ASSUME NEW t \in ChatTurns, TurnYields(t)
      PROVE  TurnsHold'
  <2> DEFINE x == turn[t]
             y == [turn[t] EXCEPT !.queue = Tail(@), !.shown = @ \cup {Head(x.queue)}]
  <2>1. TurnHolds(x) /\ x.at = "streams" /\ x.queue # <<>> /\ DOMAIN x = TurnFields
    BY <1>7 DEF TurnsHold, TurnYields, TurnHolds, TurnTyped
  <2>2. turn' = [turn EXCEPT ![t] = y]
    BY <1>7 DEF TurnYields, TurnsHold
  <2>3. /\ DOMAIN y = TurnFields /\ y.at = x.at /\ y.tool = x.tool /\ y.runs = x.runs
        /\ y.shown = x.shown \cup {Head(x.queue)} /\ y.queue = Tail(x.queue) /\ y.worker = x.worker
    BY <2>1 DEF TurnFields
  <2> HIDE DEF x, y
  <2>4. /\ x.queue \in Seq(Events) /\ y.queue \in Seq(Events) /\ Len(y.queue) = Len(x.queue) - 1 /\ Len(x.queue) \in Nat \ {0}
        /\ Head(x.queue) = x.queue[1] /\ x.queue[1] \in Events
        /\ \A i \in 1..Len(y.queue) : i + 1 \in 1..Len(x.queue) /\ y.queue[i] = x.queue[i + 1]
    BY <2>1, <2>3 DEF TurnHolds, TurnTyped
  <2>5. TurnTyped(y)
    BY <2>1, <2>3, <2>4 DEF TurnHolds, TurnTyped
  <2>6. DoneIsLast(y)
    BY <2>1, <2>3, <2>4 DEF TurnHolds, DoneIsLast
  <2>7. RunsAreTold(y)
    <3> SUFFICES ASSUME NEW n \in 1..Len(y.runs), Started(n) \notin y.shown
                 PROVE  \/ \E i \in 1..Len(y.queue) : y.queue[i] = Started(n)
                        \/ y.worker = "submitted" /\ n = Len(y.runs)
      BY DEF RunsAreTold
    <3>1. CASE \E i \in 1..Len(x.queue) : x.queue[i] = Started(n)
      <4>1. PICK i \in 1..Len(x.queue) : x.queue[i] = Started(n)
        BY <3>1
      <4>2. i # 1
        BY <2>3, <2>4, <4>1
      <4>3. PICK j \in 1..Len(y.queue) : i = j + 1
        <5>1. i - 1 \in 1..Len(y.queue) /\ i = (i - 1) + 1
          BY <2>4, <4>2
        <5> QED
          BY <5>1
      <4>4. y.queue[j] = x.queue[j + 1]
        BY <2>4
      <4> QED
        BY <4>1, <4>3, <4>4
    <3>2. CASE ~\E i \in 1..Len(x.queue) : x.queue[i] = Started(n)
      BY <2>1, <2>3, <3>2 DEF TurnHolds, RunsAreTold
    <3> QED
      BY <3>1, <3>2
  <2>8. OverIsTold(y)
    BY <2>1, <2>3 DEF OverIsTold
  <2> QED
    BY <2>2, <2>5, <2>6, <2>7, <2>8, OneTurn DEF TurnHolds
<1>8. ASSUME NEW t \in ChatTurns, TurnEnds(t)
      PROVE  TurnsHold'
  <2> DEFINE x == turn[t]
             y == [turn[t] EXCEPT !.at = "over", !.queue = <<>>]
  <2>1. TurnHolds(x) /\ x.queue # <<>> /\ Head(x.queue) = Event("done") /\ DOMAIN x = TurnFields
    BY <1>8 DEF TurnsHold, TurnEnds, TurnHolds, TurnTyped
  <2>2. turn' = [turn EXCEPT ![t] = y]
    BY <1>8 DEF TurnEnds, TurnsHold
  <2>3. /\ DOMAIN y = TurnFields /\ y.at = "over" /\ y.tool = x.tool /\ y.runs = x.runs
        /\ y.shown = x.shown /\ y.queue = <<>> /\ y.worker = x.worker
    BY <2>1 DEF TurnFields
  <2> HIDE DEF x, y
  <2>4. x.queue \in Seq(Events) /\ 1 \in 1..Len(x.queue) /\ x.queue[1] = Event("done")
    BY <2>1 DEF TurnHolds, TurnTyped
  <2>5. Len(x.queue) = 1 /\ x.worker = "done"
    BY <2>1, <2>4 DEF TurnHolds, DoneIsLast
  <2>6. \A n \in 1..Len(x.runs) : Started(n) \in x.shown
    <3> SUFFICES ASSUME NEW n \in 1..Len(x.runs)
                 PROVE  Started(n) \in x.shown
      OBVIOUS
    <3>1. Started(n) # Event("done")
      BY <2>1, EventsTyped DEF TurnHolds, TurnTyped
    <3>2. \A i \in 1..Len(x.queue) : x.queue[i] = Event("done")
      BY <2>4, <2>5
    <3> QED
      BY <2>1, <2>5, <3>1, <3>2 DEF TurnHolds, RunsAreTold
  <2>7. <<>> \in Seq(Events) /\ Len(<<>>) = 0
    OBVIOUS
  <2>8. TurnHolds(y)
    BY <2>1, <2>3, <2>5, <2>6, <2>7 DEF TurnHolds, TurnTyped, DoneIsLast, RunsAreTold, OverIsTold
  <2> QED
    BY <2>2, <2>8, OneTurn
<1>9. ASSUME NEW t \in ChatTurns, BrowserLeaves(t)
      PROVE  TurnsHold'
  <2> DEFINE y == [turn[t] EXCEPT !.at = "left"]
  <2>1. TurnHolds(turn[t]) /\ turn[t].at = "streams" /\ DOMAIN turn[t] = TurnFields /\ turn[t].tool \in RunTools
    BY <1>9 DEF TurnsHold, BrowserLeaves, TurnHolds, TurnTyped
  <2>2. turn' = [turn EXCEPT ![t] = y]
    BY <1>9 DEF BrowserLeaves, TurnsHold
  <2>3. /\ DOMAIN y = TurnFields /\ y.at = "left" /\ y.tool = turn[t].tool /\ y.runs = turn[t].runs
        /\ y.shown = turn[t].shown /\ y.queue = turn[t].queue /\ y.worker = turn[t].worker
    BY <2>1 DEF TurnFields
  <2> HIDE DEF y
  <2>4. TurnHolds(y)
    BY <2>1, <2>3, SameTold
  <2> QED
    BY <2>2, <2>4, OneTurn
<1>10. CASE UNCHANGED turn
  BY <1>10 DEF TurnsHold
<1> QED
  BY <1>1, <1>2, <1>3, <1>4, <1>5, <1>6, <1>7, <1>8, <1>9, <1>10
  DEF ChatNext, chatVars, Rewired

(* No turn has begun at first. *)
LEMMA ChatStart == ChatInit => TurnsHold
<1>1. /\ DOMAIN NoTurn = TurnFields /\ NoTurn.at = "none" /\ NoTurn.worker = "none" /\ NoTurn.tool = Build
      /\ NoTurn.runs = <<>> /\ NoTurn.queue = <<>> /\ NoTurn.shown = {}
  BY DEF NoTurn, TurnFields
<1>2. <<>> \in Seq(SUBSET ChatRoles) /\ <<>> \in Seq(Events) /\ Build \in RunTools /\ Len(<<>>) = 0
  BY DEF RunTools
<1>3. TurnHolds(NoTurn)
  BY <1>1, <1>2 DEF TurnHolds, TurnTyped, DoneIsLast, RunsAreTold, OverIsTold
<1> QED
  BY <1>3 DEF ChatInit, TurnsHold

(* So a turn that ended has told the browser of every run. *)
LEMMA ToldAtTheEnd == TurnsHold => RunsAreAnnounced
<1> SUFFICES ASSUME TurnsHold, NEW t \in ChatTurns, turn[t].at = "over", NEW n \in DOMAIN turn[t].runs
             PROVE  Started(n) \in turn[t].shown
  BY DEF RunsAreAnnounced
<1>1. TurnTyped(turn[t]) /\ OverIsTold(turn[t])
  BY DEF TurnsHold, TurnHolds
<1>2. n \in 1..Len(turn[t].runs)
  BY <1>1 DEF TurnTyped
<1> QED
  BY <1>1, <1>2 DEF OverIsTold

-----------------------------------------------------------------------------
(* What a conversation remembers *)

\* The list remembers the latest of the plain turns that are done.
Keeps(list, done, set) ==
    /\ TailOf(Only(list, set), Only(done, set))
    /\ Len(list) < MaxRemembered => Only(list, set) = Only(done, set)

Trimmed(all) == IF Len(all) =< MaxRemembered THEN all ELSE Remembered(all)

AllOver(list) == \A i \in 1..Len(list) : turn[list[i]].at = "over"
Streaming(t) == turn[t].at = "streams"
MemoryTyped ==
    /\ ended \in Seq(ChatTurns) /\ AllOver(ended)
    /\ remembered = [c \in Conversations |-> remembered[c]]
    /\ \A c \in Conversations :
         remembered[c] \in Seq(ChatTurns) /\ Len(remembered[c]) =< MaxRemembered /\ AllOver(remembered[c])
    /\ \A t \in ChatTurns : Streaming(t) =>
         /\ turn[t].of \in Conversations
         /\ turn[t].history \in Seq(ChatTurns) /\ Len(turn[t].history) =< MaxRemembered
         /\ AllOver(turn[t].history)
\* A turn that is plain has met no error.
NoErrors(x) ==
    x.plain => /\ x.worker # "failed" /\ Event("error") \notin x.shown
               /\ \A i \in 1..Len(x.queue) : x.queue[i] # Event("error")
\* It streams alone, and starts from what its conversation remembers.
Alone ==
    \A t, u \in ChatTurns :
      Streaming(t) /\ Streaming(u) /\ turn[t].of = turn[u].of /\ turn[t].plain => t = u
PlainIsAlone ==
    /\ Alone
    /\ \A t \in ChatTurns : Streaming(t) /\ turn[t].plain => turn[t].history = remembered[turn[t].of]
MemoryKeeps ==
    /\ \A c \in Conversations : Keeps(remembered[c], ended, PlainTurns(c))
    /\ \A t \in ChatTurns : Streaming(t) => Keeps(turn[t].history, ended, PlainTurns(turn[t].of))
MemoryHolds ==
    MemoryTyped /\ (\A t \in ChatTurns : NoErrors(turn[t])) /\ PlainIsAlone /\ MemoryKeeps

(* Turns that are as plain as they were are kept as they were. *)
LEMMA KeepsSame ==
    ASSUME NEW list \in Seq(ChatTurns), NEW done \in Seq(ChatTurns), NEW set, NEW other,
           Keeps(list, done, set),
           \A i \in 1..Len(list) : list[i] \in set <=> list[i] \in other,
           \A i \in 1..Len(done) : done[i] \in set <=> done[i] \in other
    PROVE  Keeps(list, done, other)
<1>1. Only(list, set) = Only(list, other)
  BY OnlyOfSame
<1>2. Only(done, set) = Only(done, other)
  BY OnlyOfSame
<1> QED
  BY <1>1, <1>2 DEF Keeps

(* To forget the oldest when there are too many. *)
LEMMA TrimKeeps ==
    ASSUME NEW all \in Seq(ChatTurns), Len(all) =< MaxRemembered + 1, NEW done \in Seq(ChatTurns), NEW set,
           TailOf(Only(all, set), Only(done, set)),
           Len(all) =< MaxRemembered => Keeps(all, done, set)
    PROVE  /\ Trimmed(all) \in Seq(ChatTurns) /\ Len(Trimmed(all)) =< MaxRemembered
           /\ \A i \in 1..Len(Trimmed(all)) : \E j \in 1..Len(all) : Trimmed(all)[i] = all[j]
           /\ Keeps(Trimmed(all), done, set)
<1>0. MaxRemembered \in Nat \ {0} /\ Len(all) \in Nat
  BY ChatAssumption
<1>1. CASE Len(all) =< MaxRemembered
  BY <1>0, <1>1 DEF Trimmed
<1>2. CASE ~(Len(all) =< MaxRemembered)
  <2>1. Len(all) = MaxRemembered + 1 /\ all # <<>>
    BY <1>0, <1>2
  <2>2. Trimmed(all) = Tail(all)
    <3>1. Trimmed(all) = SubSeq(all, 2, Len(all))
      BY <1>0, <1>2, <2>1 DEF Trimmed, Remembered
    <3>2. SubSeq(all, 2, Len(all)) \in Seq(ChatTurns) /\ Tail(all) \in Seq(ChatTurns)
          /\ Len(SubSeq(all, 2, Len(all))) = Len(Tail(all))
      BY <1>0, <2>1
    <3>3. ASSUME NEW i \in 1..Len(Tail(all))
          PROVE  SubSeq(all, 2, Len(all))[i] = Tail(all)[i]
      BY <1>0, <2>1
    <3> QED
      BY <3>1, <3>2, <3>3, SeqEqual
  <2>3. /\ Tail(all) \in Seq(ChatTurns) /\ Len(Tail(all)) = MaxRemembered
        /\ \A i \in 1..Len(Tail(all)) : i + 1 \in 1..Len(all) /\ Tail(all)[i] = all[i + 1]
    BY <1>0, <2>1
  <2>4. Only(all, set) \in Seq(ChatTurns) /\ Only(done, set) \in Seq(ChatTurns)
    BY OnlyPicks
  <2>5. TailOf(Only(Tail(all), set), Only(done, set))
    <3>1. CASE Head(all) \notin set
      <4>1. Only(Tail(all), set) = Only(all, set)
        BY <2>1, <3>1, OnlyOfTail
      <4> QED
        BY <4>1
    <3>2. CASE Head(all) \in set
      <4>1. Only(Tail(all), set) = Tail(Only(all, set))
        BY <2>1, <3>2, OnlyOfTail
      <4>2. Only(all, set) # <<>>
        <5>1. PICK pos \in [1..Len(Only(all, set)) -> 1..Len(all)] :
                \A i \in 1..Len(all) : all[i] \in set => \E k \in 1..Len(Only(all, set)) : pos[k] = i
          BY OnlyPicks
        <5>2. 1 \in 1..Len(all) /\ all[1] \in set
          BY <1>0, <2>1, <3>2
        <5>3. \E k \in 1..Len(Only(all, set)) : TRUE
          BY <5>1, <5>2
        <5> QED
          BY <5>3
      <4> QED
        BY <2>4, <4>1, <4>2, EndsShorter
    <3> QED
      BY <3>1, <3>2
  <2> QED
    BY <1>0, <2>2, <2>3, <2>5 DEF Keeps
<1> QED
  BY <1>1, <1>2

(* A plain turn adds itself to the memory it started from, and is owed. *)
LEMMA PlainIsKept ==
    ASSUME NEW list \in Seq(ChatTurns), NEW done \in Seq(ChatTurns), NEW set,
           NEW t \in ChatTurns, t \in set, Keeps(list, done, set)
    PROVE  /\ TailOf(Only(Append(list, t), set), Only(Append(done, t), set))
           /\ Len(list) < MaxRemembered => Keeps(Append(list, t), Append(done, t), set)
<1>1. /\ Only(Append(list, t), set) = Append(Only(list, set), t)
      /\ Only(Append(done, t), set) = Append(Only(done, set), t)
  BY OnlyOfLonger
<1>2. Only(list, set) \in Seq(ChatTurns) /\ Only(done, set) \in Seq(ChatTurns)
  BY OnlyPicks
<1>3. TailOf(Append(Only(list, set), t), Append(Only(done, set), t))
  BY <1>2, EndsLonger DEF Keeps
<1> QED
  BY <1>1, <1>3 DEF Keeps

(* Another turn of it may add itself, and is owed nothing. *)
LEMMA OtherIsKept ==
    ASSUME NEW list \in Seq(ChatTurns), NEW done \in Seq(ChatTurns), NEW set,
           NEW t \in ChatTurns, t \notin set, Keeps(list, done, set)
    PROVE  Keeps(list, Append(done, t), set) /\ Keeps(Append(list, t), Append(done, t), set)
<1>1. /\ Only(Append(list, t), set) = Only(list, set)
      /\ Only(Append(done, t), set) = Only(done, set)
  BY OnlyOfLonger
<1>2. Len(Append(list, t)) < MaxRemembered => Len(list) < MaxRemembered
  BY ChatAssumption
<1> QED
  BY <1>1, <1>2 DEF Keeps

(* What happens to the others while one of them begins, says something or leaves:
   they keep their conversation and their history, and one that is over is as plain
   as it was. *)
TurnGoesOn(x, y) ==
    /\ y.of = x.of /\ y.history = x.history
    /\ y.at = x.at \/ (x.at = "streams" /\ y.at = "left")
    /\ y.plain => x.plain
    /\ x.at = "over" => y.plain = x.plain
Begun(x, y) ==
    x.at = "none" /\ y.at = "streams" /\ y.of \in Conversations /\ y.history = remembered[y.of]

LEMMA MemoryGoesOn ==
    ASSUME MemoryHolds, UNCHANGED <<remembered, ended>>, Alone',
           \A u \in ChatTurns : NoErrors(turn'[u]) /\ (TurnGoesOn(turn[u], turn'[u]) \/ Begun(turn[u], turn'[u]))
    PROVE  MemoryHolds'
<1> USE DEF Streaming
<1>1. \A list \in Seq(ChatTurns) : AllOver(list) => AllOver(list)'
  <2> SUFFICES ASSUME NEW list \in Seq(ChatTurns), AllOver(list), NEW i \in 1..Len(list)
               PROVE  turn'[list[i]].at = "over"
    BY DEF AllOver
  <2>1. list[i] \in ChatTurns /\ turn[list[i]].at = "over"
    BY DEF AllOver
  <2> QED
    BY <2>1 DEF TurnGoesOn, Begun
<1>2. \A c \in Conversations, list \in Seq(ChatTurns) :
         AllOver(list) => \A i \in 1..Len(list) : list[i] \in PlainTurns(c) <=> list[i] \in PlainTurns(c)'
  <2> SUFFICES ASSUME NEW c \in Conversations, NEW list \in Seq(ChatTurns), AllOver(list), NEW i \in 1..Len(list)
               PROVE  list[i] \in PlainTurns(c) <=> list[i] \in PlainTurns(c)'
    OBVIOUS
  <2>1. list[i] \in ChatTurns /\ turn[list[i]].at = "over"
    BY DEF AllOver
  <2>2. turn'[list[i]].of = turn[list[i]].of /\ turn'[list[i]].plain = turn[list[i]].plain
    BY <2>1 DEF TurnGoesOn, Begun
  <2> QED
    BY <2>1, <2>2 DEF PlainTurns
<1>3. /\ ended \in Seq(ChatTurns) /\ AllOver(ended)
      /\ \A c \in Conversations : remembered[c] \in Seq(ChatTurns) /\ Len(remembered[c]) =< MaxRemembered
                                /\ AllOver(remembered[c])
      /\ \A t \in ChatTurns : Streaming(t) =>
           /\ turn[t].of \in Conversations /\ turn[t].history \in Seq(ChatTurns)
           /\ Len(turn[t].history) =< MaxRemembered /\ AllOver(turn[t].history)
  BY DEF MemoryHolds, MemoryTyped
<1>4. ASSUME NEW t \in ChatTurns, Streaming(t)'
      PROVE  \/ Streaming(t) /\ turn'[t].of = turn[t].of /\ turn'[t].history = turn[t].history
             \/ turn'[t].of \in Conversations /\ turn'[t].history = remembered[turn'[t].of]
  BY <1>4 DEF TurnGoesOn, Begun
<1>5. MemoryTyped'
  <2>1. \A t \in ChatTurns : Streaming(t)' =>
           /\ turn'[t].of \in Conversations /\ turn'[t].history \in Seq(ChatTurns)
           /\ Len(turn'[t].history) =< MaxRemembered /\ AllOver(turn'[t].history)
    BY <1>3, <1>4
  <2>2. \A t \in ChatTurns : Streaming(t)' => AllOver(turn[t].history)'
    <3> SUFFICES ASSUME NEW t \in ChatTurns, Streaming(t)'
                 PROVE  AllOver(turn[t].history)'
      OBVIOUS
    <3>1. turn'[t].history \in Seq(ChatTurns) /\ AllOver(turn'[t].history)
      BY <2>1
    <3>2. \A list \in Seq(ChatTurns) : list = turn'[t].history => AllOver(list)'
      BY <1>1, <3>1
    <3> QED
      BY <3>1, <3>2 DEF AllOver
  <2>3. \A c \in Conversations : AllOver(remembered[c])' /\ AllOver(ended)'
    BY <1>1, <1>3 DEF AllOver
  <2> QED
    BY <1>1, <1>3, <2>1, <2>2, <2>3 DEF MemoryHolds, MemoryTyped
<1>6. PlainIsAlone'
  <2>1. ASSUME NEW t \in ChatTurns, Streaming(t)', turn'[t].plain
        PROVE  turn'[t].history = remembered[turn'[t].of]
    <3>1. TurnGoesOn(turn[t], turn'[t]) => Streaming(t) /\ turn[t].plain
      BY <2>1 DEF TurnGoesOn
    <3>2. PlainIsAlone
      BY DEF MemoryHolds
    <3> QED
      BY <3>1, <3>2 DEF TurnGoesOn, Begun, PlainIsAlone
  <2> QED
    BY <2>1 DEF PlainIsAlone
<1>7. \A c \in Conversations, list \in Seq(ChatTurns) :
         AllOver(list) /\ Keeps(list, ended, PlainTurns(c)) => Keeps(list, ended, PlainTurns(c)')
  BY <1>2, <1>3, KeepsSame
<1>8. MemoryKeeps'
  <2>1. MemoryKeeps
    BY DEF MemoryHolds
  <2>2. ASSUME NEW c \in Conversations
        PROVE  Keeps(remembered[c], ended, PlainTurns(c)')
    BY <1>3, <1>7, <2>1 DEF MemoryKeeps
  <2>3. ASSUME NEW t \in ChatTurns, Streaming(t)'
        PROVE  Keeps(turn[t].history, ended, PlainTurns(turn[t].of))'
    <3>1. PICK c \in Conversations, list \in Seq(ChatTurns) :
            /\ turn'[t].of = c /\ turn'[t].history = list /\ AllOver(list)
            /\ Keeps(list, ended, PlainTurns(c))
      BY <1>3, <1>4, <2>1, <2>3 DEF MemoryKeeps
    <3>2. Keeps(list, ended, PlainTurns(c)')
      BY <1>7, <3>1
    <3>3. PlainTurns(c)' = PlainTurns(turn[t].of)'
      BY <3>1 DEF PlainTurns
    <3> QED
      BY <3>1, <3>2, <3>3 DEF Keeps
  <2> QED
    BY <2>2, <2>3 DEF MemoryKeeps, Keeps
<1> QED
  BY <1>5, <1>6, <1>8 DEF MemoryHolds

(* A turn alone changes what it says, and perhaps leaves or fails. *)
LEMMA OneGoesOn ==
    ASSUME TurnsHold, MemoryHolds, UNCHANGED <<remembered, ended>>, NEW t \in ChatTurns, NEW y,
           turn' = [turn EXCEPT ![t] = y], TurnGoesOn(turn[t], y), NoErrors(y)
    PROVE  MemoryHolds'
<1>1. \A u \in ChatTurns : turn'[u] = IF u = t THEN y ELSE turn[u]
  BY DEF TurnsHold
<1>2. \A u \in ChatTurns : NoErrors(turn'[u]) /\ TurnGoesOn(turn[u], turn'[u])
  BY <1>1 DEF MemoryHolds, TurnGoesOn
<1>3. Alone'
  <2>1. \A u \in ChatTurns : /\ Streaming(u)' => Streaming(u)
                            /\ turn'[u].of = turn[u].of /\ (turn'[u].plain => turn[u].plain)
    BY <1>2 DEF Streaming, TurnGoesOn
  <2> QED
    BY <2>1 DEF MemoryHolds, PlainIsAlone, Alone
<1> QED
  BY <1>2, <1>3, MemoryGoesOn

(* A turn that ends. *)
LEMMA EndIsKept ==
    ASSUME TurnsHold, MemoryHolds, NEW t \in ChatTurns, TurnEnds(t)
    PROVE  MemoryHolds'
<1> USE DEF Streaming
<1> DEFINE x == turn[t]
           y == [x EXCEPT !.at = "over", !.queue = <<>>]
           c == x.of
<1>1. /\ x.at = "streams" /\ turn' = [turn EXCEPT ![t] = y] /\ ended' = Append(ended, t)
  BY DEF TurnEnds
<1>2. PICK spoke \in IF Event("error") \in x.shown THEN {<<>>, <<t>>} ELSE {<<t>>} :
        remembered' = [remembered EXCEPT ![c] = Trimmed(x.history \o spoke)]
  BY DEF TurnEnds, Trimmed
<1>3. /\ DOMAIN x = TurnFields /\ y.at = "over" /\ y.of = c /\ y.history = x.history /\ y.plain = x.plain
      /\ y.queue = <<>> /\ y.worker = x.worker /\ y.shown = x.shown
  <2>1. DOMAIN x = TurnFields
    BY DEF TurnsHold, TurnHolds, TurnTyped
  <2> QED
    BY <2>1 DEF TurnFields
<1>4. \A u \in ChatTurns : turn'[u] = IF u = t THEN y ELSE turn[u]
  BY <1>1 DEF TurnsHold
<1>5. /\ MemoryTyped /\ (\A u \in ChatTurns : NoErrors(turn[u])) /\ PlainIsAlone /\ MemoryKeeps
  BY DEF MemoryHolds
<1> HIDE DEF y
<1> DEFINE all == x.history \o spoke
           new == Trimmed(all)
           done == Append(ended, t)
<1>6. /\ c \in Conversations /\ x.history \in Seq(ChatTurns) /\ Len(x.history) =< MaxRemembered
      /\ ended \in Seq(ChatTurns) /\ done \in Seq(ChatTurns)
      /\ AllOver(x.history) /\ AllOver(ended)
  BY <1>1, <1>5 DEF MemoryTyped
<1>a. \A s \in Seq(ChatTurns) : s \o <<>> = s /\ s \o <<t>> = Append(s, t)
  <2> TAKE s \in Seq(ChatTurns)
  <2>1. s \o <<t>> \in Seq(ChatTurns) /\ Append(s, t) \in Seq(ChatTurns) /\ Len(s \o <<t>>) = Len(Append(s, t))
    OBVIOUS
  <2>2. ASSUME NEW i \in 1..Len(s \o <<t>>)
        PROVE  (s \o <<t>>)[i] = Append(s, t)[i]
    OBVIOUS
  <2>3. s \o <<t>> = Append(s, t)
    BY <2>1, <2>2, SeqEqual
  <2> QED
    BY <2>3
<1>7. all = x.history \/ all = Append(x.history, t)
  <2>1. spoke = <<>> \/ spoke = <<t>>
    BY <1>2
  <2> QED
    BY <1>6, <1>a, <2>1
<1>8. x.plain => all = Append(x.history, t)
  <2>1. x.plain => spoke = <<t>>
    BY <1>2, <1>5 DEF NoErrors
  <2> QED
    BY <1>6, <1>a, <2>1
<1>9. /\ MaxRemembered \in Nat /\ all \in Seq(ChatTurns) /\ Len(all) =< MaxRemembered + 1 /\ Len(all) \in Nat
      /\ \A i \in 1..Len(all) : all[i] = t \/ \E j \in 1..Len(x.history) : all[i] = x.history[j]
  <2> HIDE DEF all
  <2>1. MaxRemembered \in Nat
    BY ChatAssumption
  <2>2. CASE all = x.history
    BY <1>6, <2>1, <2>2
  <2>3. CASE all = Append(x.history, t)
    <3> DEFINE h == x.history
    <3>1. h \in Seq(ChatTurns) /\ Len(h) =< MaxRemembered /\ all = Append(h, t)
      BY <1>6, <2>3
    <3> HIDE DEF h
    <3>2. all \in Seq(ChatTurns) /\ Len(all) = Len(h) + 1 /\ Len(h) \in Nat
      BY <3>1
    <3>3. \A i \in 1..Len(all) : all[i] = t \/ \E j \in 1..Len(h) : all[i] = h[j]
      BY <3>1, <3>2
    <3> QED
      BY <2>1, <3>1, <3>2, <3>3 DEF h
  <2> QED
    BY <1>7, <2>2, <2>3
<1> HIDE DEF all
<1>10. \A d : PlainTurns(d)' = PlainTurns(d)
  BY <1>3, <1>4 DEF PlainTurns
<1>11. \A d \in Conversations : t \in PlainTurns(d) => d = c /\ x.plain
  BY DEF PlainTurns
<1>12. x.plain => t \in PlainTurns(c) /\ x.history = remembered[c]
  BY <1>1, <1>5 DEF PlainTurns, PlainIsAlone
<1>13. /\ new \in Seq(ChatTurns) /\ Len(new) =< MaxRemembered
       /\ \A i \in 1..Len(new) : \E j \in 1..Len(all) : new[i] = all[j]
       /\ Keeps(new, done, PlainTurns(c))
  <2> DEFINE set == PlainTurns(c)
  <2>1. Keeps(x.history, ended, set)
    BY <1>1, <1>5 DEF MemoryKeeps
  <2>2. CASE t \in set
    <3>1. all = Append(x.history, t)
      BY <1>8, <2>2 DEF PlainTurns
    <3> HIDE DEF set
    <3>2. /\ TailOf(Only(all, set), Only(done, set))
          /\ Len(x.history) < MaxRemembered => Keeps(all, done, set)
      BY <1>6, <2>1, <2>2, <3>1, PlainIsKept
    <3>3. Len(all) =< MaxRemembered => Len(x.history) < MaxRemembered
      BY <1>6, <1>9, <3>1
    <3> HIDE DEF done
    <3> QED
      BY <1>6, <1>9, <3>2, <3>3, TrimKeeps DEF set
  <2>3. CASE t \notin set
    <3> HIDE DEF set
    <3>1. Keeps(all, done, set)
      BY <1>6, <1>7, <2>1, <2>3, OtherIsKept
    <3> HIDE DEF done
    <3> QED
      BY <1>6, <1>9, <3>1, TrimKeeps DEF set, Keeps
  <2> QED
    BY <2>2, <2>3
<1> HIDE DEF new
<1>14. \A d \in Conversations : remembered'[d] = IF d = c THEN new ELSE remembered[d]
  BY <1>2, <1>5, <1>6 DEF new, all, MemoryTyped
<1>15. \A u \in ChatTurns : Streaming(u)' => u # t /\ Streaming(u) /\ turn'[u] = turn[u]
  BY <1>3, <1>4
<1> DEFINE StayOver(list) == \A i \in 1..Len(list) : turn'[list[i]].at = "over"
<1>16. \A list \in Seq(ChatTurns) :
         (\A i \in 1..Len(list) : list[i] = t \/ turn[list[i]].at = "over") => StayOver(list)
  <2> SUFFICES ASSUME NEW list \in Seq(ChatTurns), NEW i \in 1..Len(list),
                      list[i] = t \/ turn[list[i]].at = "over"
               PROVE  turn'[list[i]].at = "over"
    OBVIOUS
  <2> QED
    BY <1>3, <1>4
<1>17. MemoryTyped'
  <2>1. done \in Seq(ChatTurns) /\ \A i \in 1..Len(done) : done[i] = t \/ turn[done[i]].at = "over"
    BY <1>6 DEF AllOver
  <2>2. ended' \in Seq(ChatTurns) /\ AllOver(ended)'
    <3>1. StayOver(done)
      <4> HIDE DEF done, StayOver
      <4> QED
        BY <1>16, <2>1
    <3> QED
      BY <2>1, <3>1, <1>1 DEF AllOver
  <2>3. ASSUME NEW i \in 1..Len(new)
        PROVE  new[i] = t \/ turn[new[i]].at = "over"
    <3>1. PICK j \in 1..Len(all) : new[i] = all[j]
      BY <1>13
    <3> QED
      BY <1>6, <1>9, <3>1 DEF AllOver
  <2>4. StayOver(new)
    <3> HIDE DEF StayOver
    <3> QED
      BY <1>13, <1>16, <2>3
  <2>5. ASSUME NEW d \in Conversations
        PROVE  remembered'[d] \in Seq(ChatTurns) /\ Len(remembered'[d]) =< MaxRemembered /\ AllOver(remembered[d])'
    <3>1. CASE d = c
      <4>1. remembered'[d] = new
        BY <3>1, <1>14
      <4> QED
        BY <4>1, <1>13, <2>4 DEF AllOver
    <3>2. CASE d # c
      <4>1. remembered[d] \in Seq(ChatTurns) /\ Len(remembered[d]) =< MaxRemembered /\ AllOver(remembered[d])
        BY <1>5 DEF MemoryTyped
      <4>2. remembered'[d] = remembered[d]
        BY <3>2, <1>14
      <4>3. \A list \in Seq(ChatTurns) : AllOver(list) => StayOver(list)
        BY <1>16 DEF AllOver
      <4>4. \A i \in 1..Len(remembered[d]) : turn'[remembered[d][i]].at = "over"
        BY <4>1, <4>3 DEF AllOver
      <4> QED
        BY <4>1, <4>2, <4>4 DEF AllOver
    <3> QED
      BY <3>1, <3>2
  <2>6. ASSUME NEW u \in ChatTurns, Streaming(u)'
        PROVE  /\ turn'[u].of \in Conversations
               /\ turn'[u].history \in Seq(ChatTurns) /\ Len(turn'[u].history) =< MaxRemembered
               /\ AllOver(turn[u].history)'
    <3>1. /\ turn[u].of \in Conversations
          /\ turn[u].history \in Seq(ChatTurns) /\ Len(turn[u].history) =< MaxRemembered
          /\ AllOver(turn[u].history)
      BY <1>5, <1>15, <2>6 DEF MemoryTyped
    <3>2. turn'[u] = turn[u]
      BY <1>15, <2>6
    <3>3. \A i \in 1..Len(turn[u].history) : turn'[turn[u].history[i]].at = "over"
      BY <1>16, <3>1 DEF AllOver
    <3> QED
      BY <3>1, <3>2, <3>3 DEF AllOver
  <2>7. remembered' = [d \in Conversations |-> remembered'[d]]
    BY <1>2, <1>5 DEF MemoryTyped
  <2> QED
    BY <2>2, <2>5, <2>6, <2>7 DEF MemoryTyped
<1>18. \A u \in ChatTurns : NoErrors(turn'[u])
  <2>1. NoErrors(y)
    <3>1. Len(y.queue) = 0
      BY <1>3
    <3>2. \A i \in 1..Len(y.queue) : y.queue[i] # Event("error")
      BY <3>1
    <3> QED
      BY <1>3, <1>5, <3>2 DEF NoErrors
  <2> QED
    BY <1>4, <1>5, <2>1
<1>19. PlainIsAlone'
  <2>1. Alone'
    BY <1>5, <1>15 DEF PlainIsAlone, Alone
  <2>2. ASSUME NEW u \in ChatTurns, Streaming(u)', turn'[u].plain
        PROVE  turn'[u].history = remembered'[turn'[u].of]
    <3>1. u # t /\ Streaming(u) /\ turn'[u] = turn[u]
      BY <1>15, <2>2
    <3>2. turn[u].of # c
      BY <1>1, <1>5, <2>2, <3>1 DEF PlainIsAlone, Alone
    <3>3. turn[u].of \in Conversations /\ turn[u].history = remembered[turn[u].of]
      BY <1>5, <2>2, <3>1 DEF PlainIsAlone, MemoryTyped
    <3> QED
      BY <3>1, <3>2, <3>3, <1>14
  <2> QED
    BY <2>1, <2>2 DEF PlainIsAlone
<1>20. MemoryKeeps'
  <2> HIDE DEF c
  <2>1. ASSUME NEW d \in Conversations
        PROVE  Keeps(remembered'[d], done, PlainTurns(d))
    <3>1. CASE d = c
      BY <3>1, <1>13, <1>14
    <3>2. CASE d # c
      <4>1. t \notin PlainTurns(d) /\ Keeps(remembered[d], ended, PlainTurns(d)) /\ remembered[d] \in Seq(ChatTurns)
        BY <3>2, <1>5, <1>11 DEF MemoryKeeps, MemoryTyped
      <4>2. Keeps(remembered[d], done, PlainTurns(d))
        BY <4>1, <1>6, OtherIsKept
      <4> QED
        BY <3>2, <4>2, <1>14
    <3> QED
      BY <3>1, <3>2
  <2>2. ASSUME NEW u \in ChatTurns, Streaming(u)'
        PROVE  Keeps(turn[u].history, done, PlainTurns(turn[u].of)) /\ turn'[u] = turn[u]
    <3>1. u # t /\ Streaming(u) /\ turn'[u] = turn[u]
      BY <1>15, <2>2
    <3>2. turn[u].of \in Conversations /\ Keeps(turn[u].history, ended, PlainTurns(turn[u].of)) /\ turn[u].history \in Seq(ChatTurns)
      BY <1>5, <3>1 DEF MemoryKeeps, MemoryTyped
    <3>3. t \notin PlainTurns(turn[u].of)
      BY <1>1, <1>5, <3>1 DEF PlainTurns, PlainIsAlone, Alone
    <3> QED
      BY <3>1, <3>2, <3>3, <1>6, OtherIsKept
  <2>3. ASSUME NEW u \in ChatTurns, Streaming(u)'
        PROVE  Keeps(turn[u].history, ended, PlainTurns(turn[u].of))'
    <3>1. turn'[u].history = turn[u].history /\ PlainTurns(turn[u].of)' = PlainTurns(turn[u].of) /\ ended' = done
      <4>1. turn'[u] = turn[u]
        BY <2>2, <2>3
      <4>2. PlainTurns(turn[u].of)' = PlainTurns(turn'[u].of)
        BY <1>3, <1>4 DEF PlainTurns, c
      <4> QED
        BY <4>1, <4>2, <1>1
    <3> QED
      BY <2>2, <2>3, <3>1 DEF Keeps
  <2>4. ASSUME NEW d \in Conversations
        PROVE  Keeps(remembered[d], ended, PlainTurns(d))'
    BY <2>1, <1>1, <1>10 DEF Keeps
  <2> QED
    BY <2>3, <2>4 DEF MemoryKeeps
<1> QED
  BY <1>17, <1>18, <1>19, <1>20 DEF MemoryHolds

(* What is said last is no error, if nothing said was. *)
LEMMA SaysNoError ==
    ASSUME NEW x, TurnTyped(x), NoErrors(x), NEW y, NEW event \in Events, event # Event("error"),
           y.queue = Append(x.queue, event), y.shown = x.shown, y.plain => x.plain, y.worker # "failed"
    PROVE  NoErrors(y)
<1>1. x.queue \in Seq(Events) /\ Len(x.queue) \in Nat
  BY DEF TurnTyped
<1>2. /\ Len(y.queue) = Len(x.queue) + 1 /\ y.queue[Len(x.queue) + 1] = event
      /\ \A i \in 1..Len(x.queue) : y.queue[i] = x.queue[i]
  BY <1>1
<1> QED
  BY <1>1, <1>2 DEF NoErrors

LEMMA MemoryHoldsStep ==
    ASSUME TurnsHold, MemoryHolds, [ChatNext]_chatVars
    PROVE  MemoryHolds'
<1>0. /\ \A t \in ChatTurns : TurnTyped(turn[t]) /\ DOMAIN turn[t] = TurnFields /\ NoErrors(turn[t])
      /\ MemoryTyped /\ PlainIsAlone
  BY DEF TurnsHold, TurnHolds, TurnTyped, MemoryHolds
<1>1. ASSUME NEW t \in ChatTurns, NEW c \in Conversations, TurnBegins(t, c)
      PROVE  MemoryHolds'
  <2> DEFINE begun == [NoTurn EXCEPT !.at = "streams", !.of = c, !.history = remembered[c],
                                     !.tools = Tools, !.worker = "thinks", !.plain = Streams(c) = {}]
             dim(u) == [turn[u] EXCEPT !.plain = FALSE]
  <2>1. /\ turn' = [u \in ChatTurns |-> IF u = t THEN begun ELSE IF u \in Streams(c) THEN dim(u) ELSE turn[u]]
        /\ turn[t].at = "none" /\ UNCHANGED <<remembered, ended>>
    BY <1>1 DEF TurnBegins
  <2>2. /\ begun.at = "streams" /\ begun.of = c /\ begun.history = remembered[c] /\ begun.worker = "thinks"
        /\ begun.queue = <<>> /\ begun.shown = {} /\ begun.plain = (Streams(c) = {})
    BY DEF NoTurn
  <2>3. \A u \in ChatTurns : /\ dim(u).at = turn[u].at /\ dim(u).of = turn[u].of /\ dim(u).plain = FALSE
                            /\ dim(u).history = turn[u].history
    BY <1>0 DEF TurnFields
  <2> HIDE DEF begun, dim
  <2>4. NoErrors(begun) /\ \A u \in ChatTurns : NoErrors(dim(u))
    <3>1. Len(<<>>) = 0
      OBVIOUS
    <3> QED
      BY <2>2, <2>3, <3>1 DEF NoErrors
  <2>5. Begun(turn[t], begun)
    BY <2>1, <2>2 DEF Begun
  <2>6. \A u \in Streams(c) : TurnGoesOn(turn[u], dim(u))
    BY <2>3 DEF TurnGoesOn, Streams
  <2>7. \A u \in ChatTurns : NoErrors(turn'[u]) /\ (TurnGoesOn(turn[u], turn'[u]) \/ Begun(turn[u], turn'[u]))
    <3> SUFFICES ASSUME NEW u \in ChatTurns
                 PROVE  NoErrors(turn'[u]) /\ (TurnGoesOn(turn[u], turn'[u]) \/ Begun(turn[u], turn'[u]))
      OBVIOUS
    <3>1. CASE u = t
      BY <3>1, <2>1, <2>4, <2>5
    <3>2. CASE u # t /\ u \in Streams(c)
      BY <3>2, <2>1, <2>4, <2>6
    <3>3. CASE u # t /\ u \notin Streams(c)
      BY <3>3, <2>1, <1>0 DEF TurnGoesOn
    <3> QED
      BY <3>1, <3>2, <3>3
  <2>8. Alone'
    <3> SUFFICES ASSUME NEW u \in ChatTurns, NEW w \in ChatTurns, Streaming(u)', Streaming(w)',
                        turn'[u].of = turn'[w].of, turn'[u].plain, u # w
                 PROVE  FALSE
      BY DEF Alone
    <3>1. \A v \in ChatTurns : v # t /\ Streaming(v)' =>
            /\ Streaming(v) /\ turn'[v].of = turn[v].of /\ (turn'[v].plain => turn[v].plain)
            /\ (turn[v].of = c => v \in Streams(c) /\ ~turn'[v].plain)
      BY <2>1, <2>3 DEF Streams, Streaming
    <3>2. CASE u = t
      BY <3>1, <3>2, <2>1, <2>2
    <3>3. CASE w = t
      BY <3>1, <3>3, <2>1, <2>2
    <3>4. CASE u # t /\ w # t
      BY <3>1, <3>4, <1>0 DEF PlainIsAlone, Alone
    <3> QED
      BY <3>2, <3>3, <3>4
  <2> QED
    BY <2>1, <2>7, <2>8, MemoryGoesOn
<1>2. ASSUME NEW t \in ChatTurns, NEW tool \in ChatRoles \cup {Build}, Calls(t, tool)
      PROVE  MemoryHolds'
  <2> DEFINE y == [turn[t] EXCEPT !.worker = "calls", !.tool = tool]
  <2>1. turn' = [turn EXCEPT ![t] = y] /\ UNCHANGED <<remembered, ended>>
    BY <1>2 DEF Calls, TurnsHold
  <2>2. /\ y.of = turn[t].of /\ y.history = turn[t].history /\ y.at = turn[t].at /\ y.plain = turn[t].plain
        /\ y.worker = "calls" /\ y.shown = turn[t].shown /\ y.queue = turn[t].queue
    BY <1>0 DEF TurnFields
  <2> HIDE DEF y
  <2>3. TurnGoesOn(turn[t], y) /\ NoErrors(y)
    BY <1>0, <2>2 DEF TurnGoesOn, NoErrors
  <2> QED
    BY <2>1, <2>3, OneGoesOn
<1>3. ASSUME NEW t \in ChatTurns, NEW agents \in SUBSET ChatRoles, Kick(t, agents)
      PROVE  MemoryHolds'
  <2> DEFINE y == [turn[t] EXCEPT !.worker = "submitted", !.runs = Append(@, agents)]
  <2>1. turn' = [turn EXCEPT ![t] = y] /\ UNCHANGED <<remembered, ended>>
    BY <1>3 DEF Kick, TurnsHold
  <2>2. /\ y.of = turn[t].of /\ y.history = turn[t].history /\ y.at = turn[t].at /\ y.plain = turn[t].plain
        /\ y.worker = "submitted" /\ y.shown = turn[t].shown /\ y.queue = turn[t].queue
    BY <1>0 DEF TurnFields
  <2> HIDE DEF y
  <2>3. TurnGoesOn(turn[t], y) /\ NoErrors(y)
    BY <1>0, <2>2 DEF TurnGoesOn, NoErrors
  <2> QED
    BY <2>1, <2>3, OneGoesOn
<1>4. ASSUME NEW t \in ChatTurns, AfterTool(t)
      PROVE  MemoryHolds'
  <2> DEFINE event == Started(Len(turn[t].runs))
             y == [turn[t] EXCEPT !.worker = "thinks", !.queue = Append(turn[t].queue, event)]
  <2>1. turn' = [turn EXCEPT ![t] = y] /\ UNCHANGED <<remembered, ended>>
    <3>1. turn[t].tool \in RunTools
      BY <1>0 DEF TurnTyped
    <3> QED
      BY <1>0, <1>4, <3>1 DEF AfterTool, TurnsHold, Tells, TurnFields
  <2>2. /\ y.of = turn[t].of /\ y.history = turn[t].history /\ y.at = turn[t].at /\ y.plain = turn[t].plain
        /\ y.worker = "thinks" /\ y.shown = turn[t].shown /\ y.queue = Append(turn[t].queue, event)
    BY <1>0 DEF TurnFields
  <2>3. event \in Events /\ event # Event("error")
    <3>1. Len(turn[t].runs) \in Nat
      BY <1>0 DEF TurnTyped
    <3> QED
      BY <3>1, EventsTyped
  <2> HIDE DEF y, event
  <2>4. TurnGoesOn(turn[t], y) /\ NoErrors(y)
    BY <1>0, <2>2, <2>3, SaysNoError DEF TurnGoesOn
  <2> QED
    BY <2>1, <2>4, OneGoesOn
<1>5. ASSUME NEW t \in ChatTurns, ModelFails(t)
      PROVE  MemoryHolds'
  <2> DEFINE y == [turn[t] EXCEPT !.worker = "failed", !.plain = FALSE, !.queue = Append(turn[t].queue, Event("error"))]
  <2>1. turn' = [turn EXCEPT ![t] = y] /\ UNCHANGED <<remembered, ended>>
    BY <1>0, <1>5 DEF ModelFails, TurnsHold, Tells, TurnFields
  <2>2. y.of = turn[t].of /\ y.history = turn[t].history /\ y.at = turn[t].at /\ y.plain = FALSE
    BY <1>0 DEF TurnFields
  <2>3. turn[t].at # "over"
    BY <1>5 DEF ModelFails, TurnsHold, TurnHolds, OverIsTold
  <2> HIDE DEF y
  <2>4. TurnGoesOn(turn[t], y) /\ NoErrors(y)
    BY <2>2, <2>3 DEF TurnGoesOn, NoErrors
  <2> QED
    BY <2>1, <2>4, OneGoesOn
<1>6. ASSUME NEW t \in ChatTurns, WorkerEnds(t)
      PROVE  MemoryHolds'
  <2> DEFINE y == [turn[t] EXCEPT !.worker = "done", !.queue = Append(turn[t].queue, Event("done"))]
  <2>1. turn' = [turn EXCEPT ![t] = y] /\ UNCHANGED <<remembered, ended>>
    BY <1>0, <1>6 DEF WorkerEnds, TurnsHold, Tells, TurnFields
  <2>2. /\ y.of = turn[t].of /\ y.history = turn[t].history /\ y.at = turn[t].at /\ y.plain = turn[t].plain
        /\ y.worker = "done" /\ y.shown = turn[t].shown /\ y.queue = Append(turn[t].queue, Event("done"))
    BY <1>0 DEF TurnFields
  <2> HIDE DEF y
  <2>4. TurnGoesOn(turn[t], y) /\ NoErrors(y)
    BY <1>0, <2>2, EventsTyped, SaysNoError DEF TurnGoesOn
  <2> QED
    BY <2>1, <2>4, OneGoesOn
<1>7. ASSUME NEW t \in ChatTurns, TurnYields(t)
      PROVE  MemoryHolds'
  <2> DEFINE x == turn[t]
             y == [turn[t] EXCEPT !.queue = Tail(@), !.shown = @ \cup {Head(x.queue)}]
  <2>1. turn' = [turn EXCEPT ![t] = y] /\ UNCHANGED <<remembered, ended>> /\ x.queue # <<>>
    BY <1>7 DEF TurnYields, TurnsHold
  <2>2. /\ y.of = x.of /\ y.history = x.history /\ y.at = x.at /\ y.plain = x.plain
        /\ y.worker = x.worker /\ y.shown = x.shown \cup {Head(x.queue)} /\ y.queue = Tail(x.queue)
    BY <1>0 DEF TurnFields
  <2>3. NoErrors(x) /\ x.queue \in Seq(Events)
    BY <1>0 DEF TurnTyped
  <2> HIDE DEF x, y
  <2>4. /\ Len(y.queue) = Len(x.queue) - 1 /\ Len(x.queue) \in Nat \ {0} /\ Head(x.queue) = x.queue[1]
        /\ \A i \in 1..Len(y.queue) : i + 1 \in 1..Len(x.queue) /\ y.queue[i] = x.queue[i + 1]
    BY <2>1, <2>2, <2>3
  <2>5. NoErrors(y)
    BY <2>2, <2>3, <2>4 DEF NoErrors
  <2>6. TurnGoesOn(turn[t], y)
    BY <2>2 DEF TurnGoesOn, x
  <2> QED
    BY <2>1, <2>5, <2>6, OneGoesOn
<1>8. ASSUME NEW t \in ChatTurns, TurnEnds(t)
      PROVE  MemoryHolds'
  BY <1>8, EndIsKept
<1>9. ASSUME NEW t \in ChatTurns, BrowserLeaves(t)
      PROVE  MemoryHolds'
  <2> DEFINE y == [turn[t] EXCEPT !.at = "left"]
  <2>1. turn' = [turn EXCEPT ![t] = y] /\ UNCHANGED <<remembered, ended>> /\ turn[t].at = "streams"
    BY <1>9 DEF BrowserLeaves, TurnsHold
  <2>2. /\ y.of = turn[t].of /\ y.history = turn[t].history /\ y.at = "left" /\ y.plain = turn[t].plain
        /\ y.worker = turn[t].worker /\ y.shown = turn[t].shown /\ y.queue = turn[t].queue
    BY <1>0 DEF TurnFields
  <2> HIDE DEF y
  <2>3. TurnGoesOn(turn[t], y) /\ NoErrors(y)
    BY <1>0, <2>1, <2>2 DEF TurnGoesOn, NoErrors
  <2> QED
    BY <2>1, <2>3, OneGoesOn
<1>10. CASE UNCHANGED <<turn, remembered, ended>>
  <2>1. \A u \in ChatTurns : NoErrors(turn'[u]) /\ TurnGoesOn(turn[u], turn'[u])
    BY <1>0, <1>10 DEF TurnGoesOn
  <2>2. Alone'
    BY <1>0, <1>10 DEF PlainIsAlone, Alone, Streaming
  <2> QED
    BY <1>10, <2>1, <2>2, MemoryGoesOn
<1> QED
  BY <1>1, <1>2, <1>3, <1>4, <1>5, <1>6, <1>7, <1>8, <1>9, <1>10
  DEF ChatNext, chatVars, Rewired

LEMMA MemoryStart == ChatInit => MemoryHolds
<1> SUFFICES ASSUME ChatInit
             PROVE  MemoryHolds
  OBVIOUS
<1>1. <<>> \in Seq(ChatTurns) /\ Len(<<>>) = 0
  OBVIOUS
<1>2. MaxRemembered \in Nat \ {0}
  BY ChatAssumption
<1>3. /\ ended = <<>> /\ remembered = [c \in Conversations |-> <<>>]
      /\ \A t \in ChatTurns : turn[t].at = "none" /\ turn[t].worker = "none" /\ turn[t].queue = <<>> /\ turn[t].shown = {}
  BY DEF ChatInit, NoTurn
<1>4. \A set : Keeps(<<>>, <<>>, set)
  BY <1>1, OnlyOfNone DEF Keeps, TailOf
<1>5. MemoryTyped
  BY <1>1, <1>2, <1>3 DEF MemoryTyped, AllOver, Streaming
<1>6. \A t \in ChatTurns : NoErrors(turn[t])
  BY <1>1, <1>3 DEF NoErrors
<1>7. PlainIsAlone /\ MemoryKeeps
  BY <1>3, <1>4 DEF PlainIsAlone, Alone, MemoryKeeps, Streaming
<1> QED
  BY <1>5, <1>6, <1>7 DEF MemoryHolds

(* So the latest exchanges are there. *)
LEMMA EndsIsSuffix ==
    ASSUME NEW T, NEW k \in Seq(T), NEW s \in Seq(T), TailOf(k, s)
    PROVE  IsSuffix(k, s)
<1> DEFINE rk == Reverse(k)
           rs == Reverse(s)
<1>1. /\ rk \in Seq(T) /\ rs \in Seq(T) /\ Len(rk) = Len(k) /\ Len(rs) = Len(s)
      /\ Len(k) \in Nat /\ Len(s) \in Nat /\ Len(k) =< Len(s)
  BY DEF TailOf, Reverse
<1>2. ASSUME NEW i \in 1..Len(k)
      PROVE  rk[i] = rs[i]
  <2>1. rk[i] = k[Len(k) - i + 1] /\ rs[i] = s[Len(s) - i + 1]
    BY <1>1 DEF Reverse
  <2>2. Len(k) - i + 1 \in 1..Len(k) /\ Len(s) - Len(k) + (Len(k) - i + 1) = Len(s) - i + 1
    BY <1>1
  <2> QED
    BY <2>1, <2>2 DEF TailOf
<1> HIDE DEF rk, rs
<1>3. /\ SubSeq(rk, 1, Len(rk)) \in Seq(T) /\ SubSeq(rs, 1, Len(rk)) \in Seq(T)
      /\ Len(SubSeq(rk, 1, Len(rk))) = Len(SubSeq(rs, 1, Len(rk)))
  BY <1>1
<1>4. ASSUME NEW i \in 1..Len(SubSeq(rk, 1, Len(rk)))
      PROVE  SubSeq(rk, 1, Len(rk))[i] = SubSeq(rs, 1, Len(rk))[i]
  BY <1>1, <1>2
<1>5. SubSeq(rk, 1, Len(rk)) = SubSeq(rs, 1, Len(rk))
  BY <1>3, <1>4, SeqEqual
<1> QED
  BY <1>1, <1>5 DEF IsSuffix, IsPrefix, rk, rs

LEMMA LatestAreKept == MemoryHolds => ExchangesKept
<1> SUFFICES ASSUME MemoryHolds, NEW c \in Conversations
             PROVE  /\ IsSuffix(Only(remembered[c], PlainTurns(c)), Only(ended, PlainTurns(c)))
                    /\ Len(remembered[c]) < MaxRemembered =>
                         Only(remembered[c], PlainTurns(c)) = Only(ended, PlainTurns(c))
  BY DEF ExchangesKept
<1>1. Keeps(remembered[c], ended, PlainTurns(c)) /\ remembered[c] \in Seq(ChatTurns) /\ ended \in Seq(ChatTurns)
  BY DEF MemoryHolds, MemoryKeeps, MemoryTyped
<1>2. Only(remembered[c], PlainTurns(c)) \in Seq(ChatTurns) /\ Only(ended, PlainTurns(c)) \in Seq(ChatTurns)
  BY <1>1, OnlyPicks
<1> QED
  BY <1>1, <1>2, EndsIsSuffix DEF Keeps

-----------------------------------------------------------------------------
(* The kept runs *)

SaveRecords == [count : Nat, time : Nat, reached : BOOLEAN, written : BOOLEAN]

HistoryTyped ==
    /\ mirrored \in BOOLEAN /\ clock \in Nat
    /\ runAt \in [HistoryRuns -> Boxes \cup {NoBox}]
    /\ disk \in [Boxes -> [HistoryRuns -> Copies]]
    /\ mirror \in [HistoryRuns -> Copies] /\ putting \in [HistoryRuns -> Copies]
    /\ lastSave \in [HistoryRuns -> SaveRecords]

\* No copy is younger than the last save of its run, and none is of tomorrow.
CopiesAreDated ==
    \A r \in HistoryRuns :
      /\ lastSave[r].time =< clock /\ mirror[r].time =< lastSave[r].time
      /\ \A b \in Boxes : disk[b][r].time =< lastSave[r].time

\* A disk has the copies of what its session executes, of each the last that
\* was written, and what is on its way to the mirror is the last save.
CopiesAreOwn ==
    \A r \in HistoryRuns :
      /\ \A b \in Boxes : disk[b][r] # NoCopy =>
           runAt[r] = b /\ (lastSave[r].written => disk[b][r].save = lastSave[r].count)
      /\ putting[r] # NoCopy => mirrored /\ putting[r].save = lastSave[r].count

\* The runs that were saved after a run.
SavedSince(r) == {s \in HistoryRuns : lastSave[s].time > lastSave[r].time}
LastCopy(r) == [time |-> lastSave[r].time, save |-> lastSave[r].count]

\* A save that reached the mirror is there, and no disk has a later copy; one that
\* could only reach the disk is there, or was pruned for others.
LastIsKept ==
    \A r \in HistoryRuns : lastSave[r].count > 0 /\ lastSave[r].reached =>
      /\ mirrored => mirror[r] = LastCopy(r) /\ \A b \in Boxes : disk[b][r].time < lastSave[r].time
      /\ ~mirrored => \A b \in Boxes : runAt[r] = b =>
           disk[b][r] = LastCopy(r) \/ Cardinality(SavedSince(r)) >= KeptFiles

NoMirror == ~mirrored => mirror = NoCopies

\* The files of one disk are of different times, and no more than pruning keeps.
FilesAreFew ==
    \A b \in Boxes :
      /\ \A r \in Held(disk[b]), s \in Held(disk[b]) : disk[b][r].time = disk[b][s].time => r = s
      /\ Cardinality(Held(disk[b])) =< KeptFiles

HistoryHolds == HistoryTyped /\ CopiesAreDated /\ CopiesAreOwn /\ LastIsKept /\ NoMirror /\ FilesAreFew

\* A set of runs is finite, and a part of it is not larger than the whole (prune).
LEMMA FewerRuns ==
    ASSUME NEW S \in SUBSET HistoryRuns, NEW T \in SUBSET S
    PROVE  /\ IsFiniteSet(S) /\ Cardinality(S) \in Nat
           /\ Cardinality(T) \in Nat /\ Cardinality(T) =< Cardinality(S)
<1>1. IsFiniteSet(S)
  BY FS_Subset, RunHistoryAssumption
<1>2. QED
  BY <1>1, FS_Subset, FS_CardinalityType

\* The newest n of any copies are no more than n (prune's sorted(...)[keep:]).
LEMMA NewestAreFew ==
    ASSUME NEW copies \in [HistoryRuns -> Copies], NEW n \in Nat,
           \A r \in Held(copies), s \in Held(copies) : copies[r].time = copies[s].time => r = s
    PROVE  Cardinality(Newest(copies, n)) =< n
<1> DEFINE H == Newest(copies, n)
<1>0. H \in SUBSET HistoryRuns /\ IsFiniteSet(H) /\ Cardinality(H) \in Nat
  BY FewerRuns DEF Newest, Held
<1>1. CASE H = {}
  BY <1>1, FS_EmptySet
<1>2. CASE H # {}
  <2> DEFINE Ages == {copies[r].time : r \in H}
  <2>1. Ages \in SUBSET Nat /\ Ages # {}
    BY <1>2, <1>0 DEF Copies
  <2>2. PICK m \in H : \A r \in H : copies[m].time =< copies[r].time
    <3>1. PICK a \in Ages : \A x \in Ages : a =< x
      BY <2>1, LeastNumber
    <3>2. QED
      BY <3>1
  <2>3. H \ {m} \subseteq Newer(copies, m) /\ Newer(copies, m) \in SUBSET HistoryRuns
    BY <2>2, <1>0 DEF Newest, Newer, Held, Copies
  <2>4. Cardinality(H \ {m}) = Cardinality(H) - 1
    BY <1>0, <2>2, FS_RemoveElement
  <2>5. Cardinality(H \ {m}) =< Cardinality(Newer(copies, m)) /\ Cardinality(Newer(copies, m)) \in Nat
    BY <2>3, FewerRuns
  <2>6. Cardinality(Newer(copies, m)) < n
    BY <2>2 DEF Newest
  <2>7. QED
    BY <2>4, <2>5, <2>6, <1>0
<1>3. QED
  BY <1>1, <1>2

(* What pruning leaves on a disk of distinct times is what it held, and few (prune). *)
LEMMA PruneLeaves ==
    ASSUME NEW copies \in [HistoryRuns -> Copies],
           \A r \in Held(copies), s \in Held(copies) : copies[r].time = copies[s].time => r = s
    PROVE  /\ Prune(copies) \in [HistoryRuns -> Copies]
           /\ \A r \in HistoryRuns :
                \/ Prune(copies)[r] = copies[r]
                \/ Prune(copies)[r] = NoCopy /\ Cardinality(Newer(copies, r)) >= KeptFiles
           /\ \A r \in HistoryRuns : copies[r] # NoCopy /\ Newer(copies, r) = {} => Prune(copies)[r] = copies[r]
           /\ Cardinality(Held(Prune(copies))) =< KeptFiles
<1>0. KeptFiles \in Nat /\ KeptFiles >= 1 /\ NoCopy \in Copies
  <2>1. KeptFiles \in Nat /\ Limit \in 1..KeptFiles
    BY RunHistoryAssumption
  <2>2. QED
    BY <2>1 DEF NoCopy, Copies
<1>1. \A r \in HistoryRuns : Newer(copies, r) \in SUBSET HistoryRuns /\ Cardinality(Newer(copies, r)) \in Nat
  BY FewerRuns DEF Newer, Held
<1>2. \A r \in HistoryRuns : Prune(copies)[r] = IF r \in Newest(copies, KeptFiles) THEN copies[r] ELSE NoCopy
  BY DEF Prune, KeepFiles
<1>3. \A r \in HistoryRuns : r \in Newest(copies, KeptFiles) <=>
          copies[r] # NoCopy /\ Cardinality(Newer(copies, r)) < KeptFiles
  BY DEF Newest, Held
<1>4. Cardinality({}) = 0
  BY FS_EmptySet
<1>5. Prune(copies) \in [HistoryRuns -> Copies]
  BY <1>0 DEF Prune, KeepFiles
<1>6. Held(Prune(copies)) \subseteq Newest(copies, KeptFiles) /\ Newest(copies, KeptFiles) \in SUBSET HistoryRuns
  BY <1>2, <1>3 DEF Held, Newest
<1>7. Cardinality(Newest(copies, KeptFiles)) =< KeptFiles
  BY <1>0, NewestAreFew
<1>8. Cardinality(Held(Prune(copies))) =< KeptFiles
  <2>1. /\ Cardinality(Held(Prune(copies))) \in Nat /\ Cardinality(Newest(copies, KeptFiles)) \in Nat
        /\ Cardinality(Held(Prune(copies))) =< Cardinality(Newest(copies, KeptFiles))
    BY <1>6, FewerRuns
  <2>2. QED
    BY <2>1, <1>7, <1>0
<1>9. \A r \in HistoryRuns : Prune(copies)[r] = copies[r]
          \/ (Prune(copies)[r] = NoCopy /\ Cardinality(Newer(copies, r)) >= KeptFiles)
  <2> TAKE r \in HistoryRuns
  <2>1. CASE copies[r] = NoCopy
    BY <2>1, <1>2
  <2>2. CASE copies[r] # NoCopy /\ ~(Cardinality(Newer(copies, r)) < KeptFiles)
    BY <2>2, <1>0, <1>1, <1>2, <1>3
  <2>3. QED
    BY <2>1, <2>2, <1>2, <1>3
<1>10. \A r \in HistoryRuns : copies[r] # NoCopy /\ Newer(copies, r) = {} => Prune(copies)[r] = copies[r]
  <2> SUFFICES ASSUME NEW r \in HistoryRuns, copies[r] # NoCopy, Newer(copies, r) = {} PROVE r \in Newest(copies, KeptFiles)
    BY <1>2
  <2>1. Cardinality(Newer(copies, r)) < KeptFiles
    BY <1>0, <1>4
  <2>2. QED
    BY <2>1, <1>3
<1>11. QED
  BY <1>5, <1>8, <1>9, <1>10

(* One save of a run, on the disk of the session that executes it (save). *)
LEMMA SaveHolds ==
    ASSUME HistoryHolds, NEW b \in Boxes, NEW r \in HistoryRuns, NEW written \in BOOLEAN, Save(b, r, written)
    PROVE  HistoryHolds'
<1> DEFINE copy == [time |-> clock + 1, save |-> lastSave[r].count + 1]
           D == [disk[b] EXCEPT ![r] = copy]
<1>0. /\ HistoryTyped /\ CopiesAreDated /\ CopiesAreOwn /\ LastIsKept /\ NoMirror /\ FilesAreFew
      /\ KeptFiles \in Nat /\ KeptFiles >= 1 /\ NoBox \notin Boxes /\ clock \in Nat
  <2>1. KeptFiles \in Nat /\ Limit \in 1..KeptFiles
    BY RunHistoryAssumption
  <2>2. "" \notin Boxes
    BY RunHistoryAssumption
  <2>3. HistoryTyped /\ CopiesAreDated /\ CopiesAreOwn /\ LastIsKept /\ NoMirror /\ FilesAreFew
    BY DEF HistoryHolds
  <2>4. clock \in Nat
    BY <2>3 DEF HistoryTyped
  <2>5. KeptFiles >= 1
    BY <2>1
  <2>6. QED
    BY <2>1, <2>2, <2>3, <2>4, <2>5 DEF NoBox
<1>1. /\ \A s \in HistoryRuns : lastSave[s].time \in Nat /\ lastSave[s].count \in Nat
      /\ \A s \in HistoryRuns : lastSave[s].reached \in BOOLEAN /\ lastSave[s].written \in BOOLEAN
      /\ \A s \in HistoryRuns : mirror[s].time \in Nat /\ mirror[s].save \in Nat
      /\ \A s \in HistoryRuns, c \in Boxes : disk[c][s].time \in Nat /\ disk[c][s].save \in Nat
      /\ \A c \in Boxes : disk[c] \in [HistoryRuns -> Copies]
      /\ copy \in Copies /\ copy # NoCopy /\ copy.time = clock + 1 /\ copy.save = lastSave[r].count + 1
  BY <1>0 DEF HistoryTyped, SaveRecords, Copies, NoCopy
<1>2. /\ runAt[r] \in {b, NoBox} /\ putting[r] = NoCopy
      /\ runAt' = [runAt EXCEPT ![r] = b]
      /\ disk' = IF written THEN [disk EXCEPT ![b] = Prune(D)] ELSE disk
      /\ putting' = IF mirrored THEN [putting EXCEPT ![r] = copy] ELSE putting
      /\ lastSave' = [lastSave EXCEPT ![r] = [count |-> copy.save, time |-> copy.time,
                                        reached |-> written /\ ~mirrored, written |-> written]]
      /\ clock' = clock + 1 /\ mirrored' = mirrored /\ mirror' = mirror
  BY <1>0 DEF Save, HistoryTyped
<1>3. D \in [HistoryRuns -> Copies] /\ D[r] = copy /\ \A s \in HistoryRuns : s # r => D[s] = disk[b][s]
  BY <1>1
<1>4. \A s \in HistoryRuns : s # r => D[s].time =< clock
  BY <1>0, <1>1, <1>3 DEF CopiesAreDated
<1>5. \A s \in Held(D), t \in Held(D) : D[s].time = D[t].time => s = t
  <2> SUFFICES ASSUME NEW s \in Held(D), NEW t \in Held(D), s # t, D[s].time = D[t].time PROVE FALSE
    OBVIOUS
  <2>1. s \in HistoryRuns /\ t \in HistoryRuns /\ D[s] # NoCopy /\ D[t] # NoCopy
    BY DEF Held
  <2>2. CASE s = r
    BY <2>1, <2>2, <1>0, <1>1, <1>3, <1>4
  <2>3. CASE t = r
    BY <2>1, <2>3, <1>0, <1>1, <1>3, <1>4
  <2>4. CASE s # r /\ t # r
    BY <2>1, <2>4, <1>0, <1>3 DEF FilesAreFew, Held
  <2>5. QED
    BY <2>2, <2>3, <2>4
<1> HIDE DEF copy, D
<1>6. Newer(D, r) = {}
  BY <1>0, <1>1, <1>3, <1>4 DEF Newer, Held, Copies
<1>7. /\ Prune(D) \in [HistoryRuns -> Copies] /\ Prune(D)[r] = copy
      /\ \A s \in HistoryRuns :
           \/ Prune(D)[s] = D[s]
           \/ Prune(D)[s] = NoCopy /\ Cardinality(Newer(D, s)) >= KeptFiles
      /\ Cardinality(Held(Prune(D))) =< KeptFiles
  <2>1. D[r] # NoCopy
    BY <1>1, <1>3
  <2>2. QED
    BY <2>1, <1>3, <1>5, <1>6, PruneLeaves
<1>8. /\ \A s \in HistoryRuns : s # r => lastSave'[s] = lastSave[s]
      /\ lastSave'[r].count = lastSave[r].count + 1 /\ lastSave'[r].time = clock + 1
      /\ lastSave'[r].reached = (written /\ ~mirrored) /\ lastSave'[r].written = written
  BY <1>0, <1>1, <1>2 DEF HistoryTyped
<1>9. /\ \A c \in Boxes : c # b => disk'[c] = disk[c]
      /\ written => disk'[b] = Prune(D)
      /\ ~written => disk'[b] = disk[b]
  BY <1>0, <1>2 DEF HistoryTyped
<1>10. \A c \in Boxes, s \in HistoryRuns : disk'[c][s] \in {disk[c][s], NoCopy} \/ (c = b /\ s = r /\ disk'[c][s] = copy /\ written)
  <2> TAKE c \in Boxes, s \in HistoryRuns
  <2>1. CASE c = b /\ written /\ s # r
    BY <2>1, <1>3, <1>7, <1>9
  <2>2. QED
    BY <2>1, <1>3, <1>7, <1>9
<1>11. /\ runAt'[r] = b
       /\ \A s \in HistoryRuns : s # r => runAt'[s] = runAt[s]
       /\ \A s \in HistoryRuns : runAt[s] \in Boxes => runAt'[s] = runAt[s]
  BY <1>0, <1>2 DEF HistoryTyped
<1>12. HistoryTyped'
  <2>1. lastSave' \in [HistoryRuns -> SaveRecords]
    BY <1>0, <1>1, <1>2 DEF HistoryTyped, SaveRecords
  <2>2. disk' \in [Boxes -> [HistoryRuns -> Copies]]
    BY <1>0, <1>2, <1>7 DEF HistoryTyped
  <2>3. QED
    BY <1>0, <1>1, <1>2, <2>1, <2>2 DEF HistoryTyped
<1>13. CopiesAreDated'
  <2> SUFFICES ASSUME NEW s \in HistoryRuns
               PROVE  /\ lastSave'[s].time =< clock' /\ mirror'[s].time =< lastSave'[s].time
                      /\ \A c \in Boxes : disk'[c][s].time =< lastSave'[s].time
    BY DEF CopiesAreDated
  <2>1. /\ lastSave[s].time =< clock /\ mirror[s].time =< lastSave[s].time
        /\ \A c \in Boxes : disk[c][s].time =< lastSave[s].time
    BY <1>0 DEF CopiesAreDated
  <2>2. lastSave[s].time =< lastSave'[s].time /\ lastSave'[s].time =< clock' /\ lastSave'[s].time \in Nat
    BY <2>1, <1>0, <1>1, <1>2, <1>8
  <2>3. \A c \in Boxes : disk'[c][s].time =< lastSave'[s].time
    BY <2>1, <2>2, <1>0, <1>1, <1>8, <1>10 DEF NoCopy
  <2>4. QED
    BY <2>1, <2>2, <2>3, <1>1, <1>2
<1>14. CopiesAreOwn'
  <2> SUFFICES ASSUME NEW s \in HistoryRuns
               PROVE  /\ \A c \in Boxes : disk'[c][s] # NoCopy =>
                          runAt'[s] = c /\ (lastSave'[s].written => disk'[c][s].save = lastSave'[s].count)
                      /\ putting'[s] # NoCopy => mirrored' /\ putting'[s].save = lastSave'[s].count
    BY DEF CopiesAreOwn
  <2>1. /\ \A c \in Boxes : disk[c][s] # NoCopy =>
             runAt[s] = c /\ (lastSave[s].written => disk[c][s].save = lastSave[s].count)
        /\ putting[s] # NoCopy => mirrored /\ putting[s].save = lastSave[s].count
    BY <1>0 DEF CopiesAreOwn
  <2>2. putting'[s] # NoCopy => mirrored' /\ putting'[s].save = lastSave'[s].count
    BY <2>1, <1>0, <1>1, <1>2, <1>8 DEF HistoryTyped
  <2>3. ASSUME NEW c \in Boxes, disk'[c][s] # NoCopy
        PROVE  runAt'[s] = c /\ (lastSave'[s].written => disk'[c][s].save = lastSave'[s].count)
    <3>1. CASE s # r
      BY <3>1, <2>1, <2>3, <1>8, <1>10, <1>11
    <3>2. CASE s = r /\ written
      <4>1. CASE c = b
        BY <4>1, <3>2, <1>1, <1>7, <1>8, <1>9, <1>11
      <4>2. CASE c # b
        BY <4>2, <3>2, <2>1, <2>3, <1>0, <1>2, <1>9
      <4>3. QED
        BY <4>1, <4>2
    <3>3. CASE s = r /\ ~written
      <4>1. disk'[c][s] = disk[c][s]
        BY <3>3, <1>2
      <4>2. QED
        BY <4>1, <3>3, <2>1, <2>3, <1>8, <1>11
    <3>4. QED
      BY <3>1, <3>2, <3>3
  <2>4. QED
    BY <2>2, <2>3
<1>15. LastIsKept'
  <2> SUFFICES ASSUME NEW s \in HistoryRuns, lastSave'[s].count > 0, lastSave'[s].reached
               PROVE  /\ mirrored' => mirror'[s] = LastCopy(s)' /\ \A c \in Boxes : disk'[c][s].time < lastSave'[s].time
                      /\ ~mirrored' => \A c \in Boxes : runAt'[s] = c =>
                           disk'[c][s] = LastCopy(s)' \/ Cardinality(SavedSince(s)') >= KeptFiles
    BY DEF LastIsKept
  <2>1. CASE s = r
    <3>1. ~mirrored' /\ written
      BY <2>1, <1>2, <1>8
    <3>2. disk'[b][r] = LastCopy(r)'
      BY <3>1, <1>7, <1>8, <1>9 DEF LastCopy, copy
    <3>3. QED
      BY <2>1, <3>1, <3>2, <1>11
  <2>2. CASE s # r
    <3>1. /\ lastSave[s].count > 0 /\ lastSave[s].reached /\ lastSave'[s] = lastSave[s] /\ LastCopy(s)' = LastCopy(s)
      BY <2>2, <1>8 DEF LastCopy
    <3>2. /\ mirrored => mirror[s] = LastCopy(s) /\ \A c \in Boxes : disk[c][s].time < lastSave[s].time
          /\ ~mirrored => \A c \in Boxes : runAt[s] = c =>
               disk[c][s] = LastCopy(s) \/ Cardinality(SavedSince(s)) >= KeptFiles
      BY <3>1, <1>0 DEF LastIsKept
    <3>3. ASSUME mirrored
          PROVE  mirror'[s] = LastCopy(s)' /\ \A c \in Boxes : disk'[c][s].time < lastSave'[s].time
      <4>1. \A c \in Boxes : disk'[c][s] \in {disk[c][s], NoCopy}
        BY <2>2, <1>10
      <4>2. \A c \in Boxes : disk'[c][s].time < lastSave'[s].time
        BY <4>1, <3>1, <3>2, <3>3, <1>1 DEF NoCopy
      <4>3. QED
        BY <4>2, <3>1, <3>2, <3>3, <1>2
    <3>4. ASSUME ~mirrored, NEW c \in Boxes, runAt'[s] = c
          PROVE  disk'[c][s] = LastCopy(s)' \/ Cardinality(SavedSince(s)') >= KeptFiles
      <4>1. /\ SavedSince(s) \subseteq SavedSince(s)' /\ SavedSince(s)' \in SUBSET HistoryRuns
        BY <2>2, <1>0, <1>1, <1>8 DEF SavedSince, CopiesAreDated
      <4>2. Cardinality(SavedSince(s)) =< Cardinality(SavedSince(s)') /\ Cardinality(SavedSince(s)) \in Nat /\ Cardinality(SavedSince(s)') \in Nat
        BY <4>1, FewerRuns
      <4>3. CASE Cardinality(SavedSince(s)) >= KeptFiles
        BY <4>2, <4>3, <1>0
      <4>4. CASE disk[c][s] = LastCopy(s)
        <5>1. CASE disk'[c][s] = disk[c][s]
          BY <5>1, <4>4, <3>1
        <5>2. CASE disk'[c][s] # disk[c][s]
          <6>1. c = b /\ written
            BY <5>2, <1>9
          <6>2. Cardinality(Newer(D, s)) >= KeptFiles
            BY <5>2, <6>1, <2>2, <1>3, <1>7, <1>9
          <6>3. D[s].time = lastSave'[s].time
            BY <2>2, <4>4, <6>1, <1>3, <3>1 DEF LastCopy
          <6>4. \A t \in HistoryRuns : D[t].time =< lastSave'[t].time
            BY <1>0, <1>1, <1>3, <1>8 DEF CopiesAreDated
          <6>5. Newer(D, s) \subseteq SavedSince(s)'
            <7>1. \A t \in HistoryRuns : D[t].time \in Nat /\ lastSave'[t].time \in Nat
              BY <1>0, <1>1, <1>3, <1>8 DEF Copies
            <7>2. QED
              BY <7>1, <6>3, <6>4 DEF Newer, Held, SavedSince
          <6>6. Cardinality(Newer(D, s)) =< Cardinality(SavedSince(s)') /\ Cardinality(Newer(D, s)) \in Nat
            BY <6>5, <4>1, FewerRuns
          <6>7. QED
            BY <6>2, <6>6, <4>2, <1>0
        <5>3. QED
          BY <5>1, <5>2
      <4>5. runAt[s] = c
        BY <2>2, <3>4, <1>11
      <4>6. QED
        BY <4>3, <4>4, <4>5, <3>2, <3>4
    <3>5. QED
      BY <3>3, <3>4, <1>2
  <2>3. QED
    BY <2>1, <2>2
<1>16. NoMirror'
  BY <1>0, <1>2 DEF NoMirror, NoCopies
<1>17. FilesAreFew'
  <2> SUFFICES ASSUME NEW c \in Boxes
               PROVE  /\ \A s \in Held(disk'[c]), t \in Held(disk'[c]) : disk'[c][s].time = disk'[c][t].time => s = t
                      /\ Cardinality(Held(disk'[c])) =< KeptFiles
    BY DEF FilesAreFew, Held
  <2>1. CASE c # b \/ ~written
    BY <2>1, <1>0, <1>9 DEF FilesAreFew
  <2>2. CASE c = b /\ written
    <3>1. disk'[c] = Prune(D) /\ \A s \in HistoryRuns : Prune(D)[s] # NoCopy => Prune(D)[s] = D[s]
      BY <2>2, <1>7, <1>9
    <3>2. QED
      BY <3>1, <1>5, <1>7 DEF Held
  <2>3. QED
    BY <2>1, <2>2
<1>18. QED
  BY <1>12, <1>13, <1>14, <1>15, <1>16, <1>17 DEF HistoryHolds

(* The save on its way arrives at the mirror, or is lost (save). *)
LEMMA MirrorsHolds ==
    ASSUME HistoryHolds, NEW r \in HistoryRuns, NEW stored \in BOOLEAN, Mirrors(r, stored)
    PROVE  HistoryHolds'
<1>0. HistoryTyped /\ CopiesAreDated /\ CopiesAreOwn /\ LastIsKept /\ NoMirror /\ FilesAreFew
  BY DEF HistoryHolds
<1>1. /\ clock \in Nat
      /\ \A s \in HistoryRuns : lastSave[s].time \in Nat /\ lastSave[s].count \in Nat
      /\ \A s \in HistoryRuns : mirror[s].time \in Nat /\ mirror[s].save \in Nat
      /\ \A s \in HistoryRuns : putting[s].time \in Nat /\ putting[s].save \in Nat
      /\ \A s \in HistoryRuns, c \in Boxes : disk[c][s].time \in Nat
  BY <1>0 DEF HistoryTyped, SaveRecords, Copies
<1>2. mirrored /\ putting[r].save = lastSave[r].count /\ putting[r] # NoCopy
  BY <1>0 DEF CopiesAreOwn, Mirrors
<1>3. /\ \A s \in HistoryRuns : s # r => lastSave'[s] = lastSave[s] /\ putting'[s] = putting[s] /\ mirror'[s] = mirror[s]
      /\ lastSave'[r].count = lastSave[r].count /\ lastSave'[r].written = lastSave[r].written
      /\ lastSave'[r].time = clock + 1 /\ lastSave'[r].reached = stored
      /\ putting'[r] = NoCopy
      /\ stored => mirror'[r] = [time |-> clock + 1, save |-> putting[r].save]
      /\ ~stored => mirror'[r] = mirror[r]
      /\ clock' = clock + 1 /\ mirrored' = mirrored /\ runAt' = runAt /\ disk' = disk
  BY <1>0 DEF Mirrors, HistoryTyped, SaveRecords, Copies
<1>4. HistoryTyped'
  <2> DEFINE answered == [lastSave EXCEPT ![r].reached = stored]
  <2>a. answered \in [HistoryRuns -> SaveRecords]
    BY <1>0 DEF HistoryTyped, SaveRecords
  <2>b. lastSave' = [answered EXCEPT ![r].time = clock + 1]
    BY <1>0 DEF Mirrors, HistoryTyped
  <2> HIDE DEF answered
  <2>1. lastSave' \in [HistoryRuns -> SaveRecords]
    BY <2>a, <2>b, <1>1 DEF SaveRecords
  <2>2. mirror' \in [HistoryRuns -> Copies] /\ putting' \in [HistoryRuns -> Copies]
    BY <1>0, <1>1 DEF Mirrors, HistoryTyped, Copies, NoCopy
  <2>3. QED
    BY <1>0, <1>1, <1>3, <2>1, <2>2 DEF HistoryTyped
<1>5. CopiesAreDated'
  <2> SUFFICES ASSUME NEW s \in HistoryRuns
               PROVE  /\ lastSave'[s].time =< clock' /\ mirror'[s].time =< lastSave'[s].time
                      /\ \A c \in Boxes : disk'[c][s].time =< lastSave'[s].time
    BY DEF CopiesAreDated
  <2>1. /\ lastSave[s].time =< clock /\ mirror[s].time =< lastSave[s].time
        /\ \A c \in Boxes : disk[c][s].time =< lastSave[s].time
    BY <1>0 DEF CopiesAreDated
  <2>2. lastSave[s].time =< lastSave'[s].time /\ lastSave'[s].time =< clock' /\ lastSave'[s].time \in Nat
    BY <2>1, <1>1, <1>3
  <2>3. mirror'[s].time =< lastSave'[s].time
    BY <2>1, <2>2, <1>1, <1>3
  <2>4. QED
    BY <2>1, <2>2, <2>3, <1>1, <1>3
<1>6. CopiesAreOwn'
  BY <1>0, <1>3 DEF CopiesAreOwn
<1>7. LastIsKept'
  <2> SUFFICES ASSUME NEW s \in HistoryRuns, lastSave'[s].count > 0, lastSave'[s].reached
               PROVE  mirror'[s] = LastCopy(s)' /\ \A c \in Boxes : disk'[c][s].time < lastSave'[s].time
    BY <1>2, <1>3 DEF LastIsKept
  <2>1. CASE s = r
    <3>1. mirror'[s] = LastCopy(s)'
      BY <2>1, <1>2, <1>3 DEF LastCopy
    <3>2. \A c \in Boxes : disk'[c][s].time < lastSave'[s].time
      BY <2>1, <1>0, <1>1, <1>3 DEF CopiesAreDated
    <3>3. QED
      BY <3>1, <3>2
  <2>2. CASE s # r
    BY <2>2, <1>0, <1>2, <1>3 DEF LastIsKept, LastCopy
  <2>3. QED
    BY <2>1, <2>2
<1>8. NoMirror'
  BY <1>2, <1>3 DEF NoMirror
<1>9. FilesAreFew'
  BY <1>0, <1>3 DEF FilesAreFew
<1>10. QED
  BY <1>4, <1>5, <1>6, <1>7, <1>8, <1>9 DEF HistoryHolds

(* The disk of a session is replaced. *)
LEMMA RecycledHolds ==
    ASSUME HistoryHolds, NEW b \in Boxes, Recycled(b)
    PROVE  HistoryHolds'
<1>0. HistoryTyped /\ CopiesAreDated /\ CopiesAreOwn /\ LastIsKept /\ NoMirror /\ FilesAreFew
  BY DEF HistoryHolds
<1>1. /\ clock \in Nat /\ NoCopies \in [HistoryRuns -> Copies] /\ NoCopy.time = 0 /\ NoCopy \in Copies
      /\ \A s \in HistoryRuns : NoCopies[s] = NoCopy
      /\ \A s \in HistoryRuns : lastSave[s].time \in Nat /\ lastSave[s].count \in Nat
      /\ \A s \in HistoryRuns, c \in Boxes : disk[c][s].time \in Nat
      /\ Held(NoCopies) = {}
  BY <1>0 DEF HistoryTyped, SaveRecords, Copies, NoCopy, NoCopies, Held
<1>2. /\ \A c \in Boxes : c # b => disk'[c] = disk[c]
      /\ disk'[b] = NoCopies
      /\ \A s \in HistoryRuns : putting'[s] \in {NoCopy, putting[s]}
      /\ \A s \in HistoryRuns : /\ lastSave'[s].count = lastSave[s].count /\ lastSave'[s].time = lastSave[s].time
                                /\ lastSave'[s].written = lastSave[s].written
                                /\ lastSave'[s].reached = (lastSave[s].reached /\ (mirrored \/ runAt[s] # b))
      /\ mirrored' = mirrored /\ runAt' = runAt /\ mirror' = mirror /\ clock' = clock
  BY <1>0 DEF Recycled, HistoryTyped, SaveRecords
<1>3. HistoryTyped'
  <2>1. lastSave' \in [HistoryRuns -> SaveRecords]
    BY <1>0, <1>1 DEF Recycled, HistoryTyped, SaveRecords
  <2>2. disk' \in [Boxes -> [HistoryRuns -> Copies]] /\ putting' \in [HistoryRuns -> Copies]
    BY <1>0, <1>1 DEF Recycled, HistoryTyped
  <2>3. QED
    BY <1>0, <1>2, <2>1, <2>2 DEF HistoryTyped
<1>4. \A c \in Boxes, s \in HistoryRuns : disk'[c][s] \in {NoCopy, disk[c][s]}
  BY <1>1, <1>2
<1>5. CopiesAreDated'
  BY <1>0, <1>1, <1>2, <1>4 DEF CopiesAreDated
<1>6. CopiesAreOwn'
  BY <1>0, <1>2, <1>4 DEF CopiesAreOwn
<1>7. LastIsKept'
  <2> SUFFICES ASSUME NEW s \in HistoryRuns, lastSave'[s].count > 0, lastSave'[s].reached
               PROVE  /\ mirrored' => mirror'[s] = LastCopy(s)' /\ \A c \in Boxes : disk'[c][s].time < lastSave'[s].time
                      /\ ~mirrored' => \A c \in Boxes : runAt'[s] = c =>
                           disk'[c][s] = LastCopy(s)' \/ Cardinality(SavedSince(s)') >= KeptFiles
    BY DEF LastIsKept
  <2>1. /\ lastSave[s].count > 0 /\ lastSave[s].reached /\ (mirrored \/ runAt[s] # b)
        /\ LastCopy(s)' = LastCopy(s) /\ SavedSince(s)' = SavedSince(s)
    BY <1>2 DEF LastCopy, SavedSince
  <2>2. /\ mirrored => mirror[s] = LastCopy(s) /\ \A c \in Boxes : disk[c][s].time < lastSave[s].time
        /\ ~mirrored => \A c \in Boxes : runAt[s] = c => disk[c][s] = LastCopy(s) \/ Cardinality(SavedSince(s)) >= KeptFiles
    BY <2>1, <1>0 DEF LastIsKept
  <2>3. CASE mirrored
    <3>1. \A c \in Boxes : disk'[c][s].time < lastSave'[s].time
      BY <2>2, <2>3, <1>1, <1>2, <1>4
    <3>2. QED
      BY <3>1, <2>1, <2>2, <2>3, <1>2
  <2>4. CASE ~mirrored
    BY <2>1, <2>2, <2>4, <1>2
  <2>5. QED
    BY <2>3, <2>4
<1>8. NoMirror'
  BY <1>0, <1>2 DEF NoMirror
<1>9. FilesAreFew'
  <2>1. KeptFiles \in Nat /\ Cardinality({}) = 0
    BY RunHistoryAssumption, FS_EmptySet
  <2> SUFFICES ASSUME NEW c \in Boxes
               PROVE  /\ \A s \in Held(disk'[c]), t \in Held(disk'[c]) : disk'[c][s].time = disk'[c][t].time => s = t
                      /\ Cardinality(Held(disk'[c])) =< KeptFiles
    BY DEF FilesAreFew, Held
  <2>2. CASE c = b
    <3>1. Held(disk'[c]) = {}
      BY <2>2, <1>1, <1>2
    <3>2. QED
      BY <3>1, <2>1
  <2>3. CASE c # b
    BY <2>3, <1>0, <1>2 DEF FilesAreFew
  <2>4. QED
    BY <2>2, <2>3
<1>10. QED
  BY <1>3, <1>5, <1>6, <1>7, <1>8, <1>9 DEF HistoryHolds

LEMMA HistoryStart == HistoryInit => HistoryHolds
<1> SUFFICES ASSUME HistoryInit PROVE HistoryHolds
  OBVIOUS
<1>1. /\ NoCopies \in [HistoryRuns -> Copies] /\ NoCopy.time = 0 /\ NoCopy \in Copies
      /\ \A s \in HistoryRuns : NoCopies[s] = NoCopy
      /\ Held(NoCopies) = {}
  BY DEF Copies, NoCopy, NoCopies, Held
<1>2. KeptFiles \in Nat /\ Cardinality({}) = 0
  BY RunHistoryAssumption, FS_EmptySet
<1>3. HistoryTyped
  BY <1>1 DEF HistoryInit, HistoryTyped, SaveRecords
<1>4. CopiesAreDated /\ CopiesAreOwn /\ LastIsKept /\ NoMirror
  BY <1>1 DEF HistoryInit, CopiesAreDated, CopiesAreOwn, LastIsKept, NoMirror
<1>5. FilesAreFew
  <2> SUFFICES ASSUME NEW c \in Boxes
               PROVE  Held(disk[c]) = {}
    BY <1>2 DEF FilesAreFew
  <2>1. QED
    BY <1>1 DEF HistoryInit
<1>6. QED
  BY <1>3, <1>4, <1>5 DEF HistoryHolds

LEMMA HistoryHoldsStep == HistoryHolds /\ [HistoryNext]_historyVars => HistoryHolds'
<1> SUFFICES ASSUME HistoryHolds, [HistoryNext]_historyVars PROVE HistoryHolds'
  OBVIOUS
<1>1. CASE HistoryNext
  BY <1>1, SaveHolds, MirrorsHolds, RecycledHolds DEF HistoryNext
<1>2. CASE UNCHANGED historyVars
  BY <1>2 DEF historyVars, HistoryHolds, HistoryTyped, CopiesAreDated, CopiesAreOwn, LastIsKept,
     LastCopy, SavedSince, NoMirror, FilesAreFew
<1>3. QED
  BY <1>1, <1>2

(* A save that is where a session can read it is the candidate of its run, and
   whatever is newer there was saved later (recent). *)
LEMMA KeptRunsAreFound == HistoryHolds => RunsAreFound
<1> SUFFICES ASSUME HistoryHolds, NEW b \in Boxes, NEW r \in HistoryRuns,
                    lastSave[r].count > 0, lastSave[r].reached, mirrored \/ runAt[r] = b,
                    Cardinality(SavedSince(r)) < Limit
             PROVE  /\ r \in Recent(b) /\ Candidates(b)[r].save = lastSave[r].count
                    /\ lastSave[r].written => Load(b, r).save = lastSave[r].count
  BY DEF RunsAreFound, SavedSince
<1>0. HistoryTyped /\ CopiesAreDated /\ CopiesAreOwn /\ LastIsKept /\ NoMirror
  BY DEF HistoryHolds
<1>1. /\ \A s \in HistoryRuns : lastSave[s].time \in Nat /\ lastSave[s].count \in Nat
      /\ \A s \in HistoryRuns : mirror[s].time \in Nat /\ mirror[s] \in Copies
      /\ \A s \in HistoryRuns, c \in Boxes : disk[c][s].time \in Nat /\ disk[c][s] \in Copies
  BY <1>0 DEF HistoryTyped, SaveRecords, Copies
<1>2. KeptFiles \in Nat /\ Limit \in 1..KeptFiles
  BY RunHistoryAssumption
<1>3. SavedSince(r) \in SUBSET HistoryRuns /\ Cardinality(SavedSince(r)) \in Nat
  BY FewerRuns DEF SavedSince
<1>4. Candidates(b)[r] = LastCopy(r)
  <2>1. CASE mirrored
    BY <2>1, <1>0, <1>1 DEF LastIsKept, LastCopy, Candidates
  <2>2. CASE ~mirrored
    <3>1. disk[b][r] = LastCopy(r)
      BY <2>2, <1>0, <1>2, <1>3 DEF LastIsKept
    <3>2. mirror[r].time = 0
      BY <2>2, <1>0 DEF NoMirror, NoCopies, NoCopy
    <3>3. QED
      BY <3>1, <3>2, <1>1 DEF Candidates
  <2>3. QED
    BY <2>1, <2>2
<1>5. LastCopy(r) # NoCopy /\ LastCopy(r).time = lastSave[r].time /\ LastCopy(r).save = lastSave[r].count
  BY <1>1 DEF LastCopy, NoCopy
<1>6. \A s \in HistoryRuns : Candidates(b)[s].time =< lastSave[s].time /\ Candidates(b)[s].time \in Nat
  BY <1>0, <1>1 DEF Candidates, CopiesAreDated
<1>7. Newer(Candidates(b), r) \subseteq SavedSince(r)
  BY <1>1, <1>4, <1>5, <1>6 DEF Newer, Held, SavedSince
<1>8. Cardinality(Newer(Candidates(b), r)) =< Cardinality(SavedSince(r)) /\ Cardinality(Newer(Candidates(b), r)) \in Nat
  BY <1>3, <1>7, FewerRuns
<1>9. r \in Recent(b)
  <2>1. Cardinality(Newer(Candidates(b), r)) < Limit
    BY <1>2, <1>3, <1>8
  <2>2. QED
    BY <2>1, <1>4, <1>5 DEF Recent, Newest, Held
<1>10. lastSave[r].written => Load(b, r).save = lastSave[r].count
  <2>1. CASE mirrored
    BY <2>1, <1>0, <1>5 DEF LastIsKept, CopiesAreOwn, Load
  <2>2. CASE ~mirrored
    <3>1. disk[b][r] = LastCopy(r)
      BY <2>2, <1>0, <1>2, <1>3 DEF LastIsKept
    <3>2. QED
      BY <3>1, <1>5 DEF Load
  <2>3. QED
    BY <2>1, <2>2
<1>11. QED
  BY <1>4, <1>5, <1>9, <1>10

-----------------------------------------------------------------------------
(* The latency that 95 of 100 do not exceed *)

LEMMA CeilingOf ==
    ASSUME NEW n \in Nat \ {0}, NEW k, k = -((-95 * n) \div 100)
    PROVE  k \in 1..n /\ \A a \in Nat : 100 * a >= 95 * n <=> k <= a
OBVIOUS

LEMMA RankIsCeiling ==
    ASSUME NEW n \in Nat \ {0}
    PROVE  Rank(n) \in 1..n /\ \A a \in Nat : 100 * a >= 95 * n <=> Rank(n) <= a
<1> DEFINE k == -((-95 * n) \div 100)
<1>1. k \in 1..n /\ \A a \in Nat : 100 * a >= 95 * n <=> k <= a
  BY CeilingOf
<1>2. Rank(n) = Max({1, Min({n, k})})
  BY DEF Rank
<1> HIDE DEF k
<1>3. Min({n, k}) = k
  BY <1>1 DEF Min
<1>4. Max({1, k}) = k
  BY <1>1 DEF Max
<1> QED
  BY <1>1, <1>2, <1>3, <1>4

PlacesUpTo(values, x) == {i \in DOMAIN values : values[i] <= x}
PlacesBelow(values, x) == {i \in DOMAIN values : values[i] < x}

LEMMA PlacesAreCounted ==
    ASSUME NEW values \in Seq(Int), NEW x \in Int
    PROVE  /\ PlacesUpTo(values, x) \in SUBSET (1..Len(values)) /\ PlacesBelow(values, x) \in SUBSET (1..Len(values))
           /\ Cardinality(PlacesUpTo(values, x)) \in Nat /\ Cardinality(PlacesBelow(values, x)) \in Nat
           /\ Cardinality(PlacesUpTo(values, x)) <= Len(values)
           /\ IsFiniteSet(PlacesUpTo(values, x)) /\ IsFiniteSet(PlacesBelow(values, x))
<1> DEFINE places == 1..Len(values)
<1>1. Len(values) \in Nat /\ DOMAIN values = places
  OBVIOUS
<1>2. IsFiniteSet(places) /\ Cardinality(places) = Len(values)
  BY <1>1, FS_Interval
<1>3. PlacesUpTo(values, x) \in SUBSET places /\ PlacesBelow(values, x) \in SUBSET places
  BY <1>1 DEF PlacesUpTo, PlacesBelow
<1> HIDE DEF places
<1> QED
  BY <1>2, <1>3, FS_Subset, FS_CardinalityType DEF places

(* The largest of some values: the one that the fewest are above. *)
LEMMA LargestOf ==
    ASSUME NEW S \in SUBSET Int, IsFiniteSet(S), S # {}
    PROVE  \E x \in S : \A y \in S : y <= x
<1> DEFINE Larger(x) == {y \in S : x < y}
           Counts == {Cardinality(Larger(x)) : x \in S}
<1>1. \A x \in S : IsFiniteSet(Larger(x)) /\ Cardinality(Larger(x)) \in Nat
  BY FS_Subset, FS_CardinalityType
<1>2. PICK x \in S : \A z \in S : Cardinality(Larger(x)) <= Cardinality(Larger(z))
  <2>1. Counts \in SUBSET Nat /\ Counts # {}
    BY <1>1
  <2>2. PICK m \in Counts : \A y \in Counts : m <= y
    <3> HIDE DEF Counts
    <3> QED
      BY <2>1, LeastNumber
  <2> QED
    BY <2>2
<1>3. ASSUME NEW y \in S, x < y
      PROVE  FALSE
  <2>1. Larger(y) \subseteq Larger(x) /\ y \in Larger(x) /\ y \notin Larger(y)
    <3>1. x \in Int /\ y \in Int /\ \A z \in S : z \in Int
      OBVIOUS
    <3>2. Larger(x) = {z \in S : x < z} /\ Larger(y) = {z \in S : y < z}
      OBVIOUS
    <3> HIDE DEF Larger
    <3>3. y \in Larger(x) /\ y \notin Larger(y)
      BY <1>3, <3>1, <3>2
    <3>4. ASSUME NEW z \in Larger(y)
          PROVE  z \in Larger(x)
      <4>1. z \in S /\ y < z
        BY <3>2
      <4>2. z \in Int /\ x < z
        BY <1>3, <3>1, <4>1
      <4> QED
        BY <3>2, <4>1, <4>2
    <3> QED
      BY <3>3, <3>4
  <2>2. IsFiniteSet(Larger(x)) /\ Cardinality(Larger(x)) \in Nat /\ Cardinality(Larger(y)) \in Nat
    BY <1>1
  <2>3. Cardinality(Larger(x)) <= Cardinality(Larger(y))
    BY <1>2
  <2> HIDE DEF Larger
  <2>4. Cardinality(Larger(y)) <= Cardinality(Larger(x)) /\ (Cardinality(Larger(y)) = Cardinality(Larger(x)) => Larger(y) = Larger(x))
    BY <2>1, <2>2, FS_Subset
  <2> QED
    BY <2>1, <2>2, <2>3, <2>4
<1> QED
  BY <1>3

(* The place of the rank holds the smallest value that enough others do not exceed. *)
LEMMA PlaceIsLeast ==
    ASSUME NEW values \in Seq(Int), values # <<>>, NEW k \in 1..Len(values)
    PROVE  LET enough == {x \in Range(values) : k <= Cardinality(PlacesUpTo(values, x))} IN
           AtPlace(values, k) \in enough /\ \A y \in enough : AtPlace(values, k) <= y
<1> DEFINE S == Range(values)
           up(x) == Cardinality(PlacesUpTo(values, x))
           below(x) == Cardinality(PlacesBelow(values, x))
           enough == {x \in S : k <= up(x)}
<1>1. Len(values) \in Nat \ {0} /\ DOMAIN values = 1..Len(values) /\ k \in Nat /\ k >= 1
  OBVIOUS
<1>2. S \in SUBSET Int /\ S # {} /\ S = {values[i] : i \in 1..Len(values)}
  BY <1>1 DEF Range
<1>3. IsFiniteSet(S)
  <2>1. IsFiniteSet(DOMAIN values)
    BY <1>1, FS_Interval
  <2>2. values \in Surjection(DOMAIN values, S)
    <3>1. values \in [DOMAIN values -> S] /\ \A x \in S : \E i \in DOMAIN values : values[i] = x
      BY DEF Range
    <3> HIDE DEF S
    <3> QED
      BY <3>1 DEF Surjection
  <2> HIDE DEF S
  <2> QED
    BY <2>1, <2>2, FS_Surjection
<1>4. \A x \in S : up(x) \in Nat /\ below(x) \in Nat /\ up(x) <= Len(values)
  BY <1>2, PlacesAreCounted
<1>5. AtPlace(values, k) = CHOOSE x \in S : below(x) < k /\ k <= up(x)
  BY DEF AtPlace, PlacesUpTo, PlacesBelow
<1>6. enough # {}
  <2>1. PICK x \in S : \A y \in S : y <= x
    BY <1>2, <1>3, LargestOf
  <2>2. PlacesUpTo(values, x) = 1..Len(values)
    BY <1>1, <1>2, <2>1 DEF PlacesUpTo
  <2>3. up(x) = Len(values)
    <3>1. Cardinality(1..Len(values)) = Len(values)
      <4> DEFINE n == Len(values)
      <4>1. n \in Nat
        BY <1>1
      <4> HIDE DEF n
      <4>2. Cardinality(1..n) = n
        BY <4>1, FS_Interval
      <4> QED
        BY <4>2 DEF n
    <3> QED
      BY <2>2, <3>1
  <2> QED
    BY <1>1, <2>1, <2>3
<1> HIDE DEF S, up, below
<1>7. ASSUME NEW x \in S, NEW y \in S, x < y
      PROVE  up(x) <= below(y)
  <2>1. PlacesUpTo(values, x) \subseteq PlacesBelow(values, y)
    BY <1>1, <1>2, <1>7 DEF PlacesUpTo, PlacesBelow
  <2> QED
    BY <1>2, <2>1, PlacesAreCounted, FS_Subset DEF up, below
<1>8. ASSUME NEW x \in enough, below(x) < k, NEW y \in enough
      PROVE  x <= y
  <2>1. x \in S /\ y \in S /\ x \in Int /\ y \in Int /\ k <= up(y)
    BY <1>2
  <2>2. y < x => up(y) <= below(x)
    BY <1>7, <2>1
  <2> QED
    BY <1>1, <1>4, <1>8, <2>1, <2>2
<1>9. \E x \in enough : below(x) < k
  <2>2. SUFFICES ASSUME \A x \in enough : below(x) >= k
                 PROVE  FALSE
    BY <1>1, <1>4
  <2>3. \A x \in enough : \E y \in enough : y < x
    <3> SUFFICES ASSUME NEW x \in enough
                 PROVE  \E y \in enough : y < x
      OBVIOUS
    <3> DEFINE less == {y \in S : y < x}
    <3>1. less \in SUBSET Int /\ IsFiniteSet(less)
      BY <1>2, <1>3, FS_Subset
    <3>2. less # {}
      <4>1. PlacesBelow(values, x) # {}
        <5>1. below(x) >= k /\ below(x) \in Nat
          BY <1>4, <2>2
        <5>2. Cardinality({}) = 0
          BY FS_EmptySet
        <5> QED
          <6>1. below(x) = Cardinality(PlacesBelow(values, x))
            BY DEF below
          <6>2. SUFFICES ASSUME PlacesBelow(values, x) = {} PROVE FALSE
            OBVIOUS
          <6>3. below(x) = 0
            BY <5>2, <6>1, <6>2
          <6> QED
            BY <1>1, <5>1, <6>3
      <4>2. PICK i \in 1..Len(values) : values[i] < x
        BY <1>1, <4>1 DEF PlacesBelow
      <4> QED
        BY <1>2, <4>2
    <3>3. PICK y \in less : \A z \in less : z <= y
      <4> HIDE DEF less
      <4> QED
        BY <3>1, <3>2, LargestOf
    <3>4. PlacesBelow(values, x) = PlacesUpTo(values, y)
      <4>1. \A i \in 1..Len(values) : values[i] \in S /\ values[i] \in Int
        BY <1>2
      <4>2. x \in Int /\ y \in Int /\ y < x
        BY <1>2, <3>3
      <4>3. ASSUME NEW i \in 1..Len(values)
            PROVE  values[i] < x <=> values[i] <= y
        BY <3>3, <4>1, <4>2
      <4> QED
        BY <1>1, <4>3 DEF PlacesBelow, PlacesUpTo
    <3>5. up(y) = below(x)
      BY <3>4 DEF up, below
    <3> QED
      BY <2>2, <3>3, <3>5
  <2>5. enough \in SUBSET Int
    BY <1>2
  <2>6. IsFiniteSet(enough)
    BY <1>3, FS_Subset
  <2> DEFINE minus == {-z : z \in enough}
  <2>7. minus \in SUBSET Int /\ minus # {} /\ IsFiniteSet(minus)
    <3> DEFINE negated == [z \in enough |-> -z]
    <3>1. negated \in Surjection(enough, minus)
      BY DEF Surjection
    <3>2. IsFiniteSet(minus)
      <4> HIDE DEF enough, minus, negated
      <4> QED
        BY <2>6, <3>1, FS_Surjection
    <3> QED
      BY <1>6, <2>5, <3>2
  <2>8. PICK m \in minus : \A z \in minus : z <= m
    <3> HIDE DEF minus
    <3> QED
      BY <2>7, LargestOf
  <2> HIDE DEF enough
  <2>9. PICK x \in enough : m = -x
    BY <2>8
  <2>10. PICK y \in enough : y < x
    BY <2>3
  <2>11. -y <= -x
    BY <2>8, <2>9
  <2> QED
    BY <2>5, <2>10, <2>11
<1>10. below(AtPlace(values, k)) < k /\ AtPlace(values, k) \in enough
  <2>1. \E x \in S : below(x) < k /\ k <= up(x)
    BY <1>9
  <2> QED
    BY <1>5, <2>1
<1>11. \A y \in enough : AtPlace(values, k) <= y
  BY <1>8, <1>10
<1> QED
  BY <1>10, <1>11 DEF S, up

LEMMA LatencyIsPlaced ==
    ASSUME sample \in Seq(Int)
    PROVE  LatencyIsP95
<1> SUFFICES ASSUME sample # <<>>
             PROVE  LatencyIsP95
  BY DEF LatencyIsP95
<1> DEFINE AtMost(x) == Cardinality({i \in DOMAIN sample : sample[i] <= x})
           Enough == {x \in Range(sample) : 100 * AtMost(x) >= 95 * Len(sample)}
           k == Rank(Len(sample))
           p == AtPlace(sample, k)
<1>1. Len(sample) \in Nat \ {0}
  OBVIOUS
<1>2. k \in 1..Len(sample) /\ \A a \in Nat : 100 * a >= 95 * Len(sample) <=> k <= a
  BY <1>1, RankIsCeiling
<1>3. \A x \in Range(sample) : x \in Int /\ Cardinality(PlacesUpTo(sample, x)) \in Nat /\ AtMost(x) = Cardinality(PlacesUpTo(sample, x))
  <2>1. \A x \in Range(sample) : x \in Int
    BY DEF Range
  <2> QED
    BY <2>1, PlacesAreCounted DEF PlacesUpTo
<1>4. Enough = {x \in Range(sample) : k <= Cardinality(PlacesUpTo(sample, x))}
  BY <1>2, <1>3
<1>5. Percentile95(sample) = p
  BY DEF Percentile95
<1> HIDE DEF k
<1>6. p \in Enough /\ \A y \in Enough : p <= y
  BY <1>2, <1>4, PlaceIsLeast
<1>7. \A x \in Enough : x \in Int
  BY <1>3
<1>8. LatencyIsP95 <=> p = Min(Enough)
  BY <1>5 DEF LatencyIsP95
<1> HIDE DEF Enough, p
<1>9. Min(Enough) \in Enough /\ \A y \in Enough : Min(Enough) <= y
  BY <1>6 DEF Min
<1>10. p \in Int /\ Min(Enough) \in Int /\ p <= Min(Enough) /\ Min(Enough) <= p
  BY <1>6, <1>7, <1>9
<1> QED
  BY <1>8, <1>10

(* No step alters the latencies. *)
LEMMA SampleStays == [MetricsNext]_metricsVars => sample' = sample
BY DEF MetricsNext, metricsVars, RoleTurnReturns, SessionIsOver, Swept, Settled, LedgerBegins, LedgerEnds, StopBegins,
       CacheHits, CacheReturns, LedgerParsed, StoresKey, StoresRows, StopAnswered, StopCalled, StopTakes, StopErrs,
       StopMarks

-----------------------------------------------------------------------------
(* Texts and paths *)

\* The text of the first names of a path, up to each.
Joins(path, top, f) ==
    f = [n \in 0..top |-> IF n = 0 THEN <<>> ELSE Beneath(f[n - 1], path[n])]

LEMMA JoinsExists ==
    ASSUME NEW path, NEW top \in Nat
    PROVE  \E f : Joins(path, top, f)
<1> DEFINE Bad == {m \in Nat : ~\E f : Joins(path, m, f)}
<1> SUFFICES ASSUME Bad # {}
             PROVE  FALSE
  OBVIOUS
<1>1. PICK m \in Bad : \A y \in Bad : m =< y
  BY LeastNumber
<1>2. m # 0
  <2> DEFINE f == [n \in 0..0 |-> <<>>]
  <2>1. Joins(path, 0, f)
    BY DEF Joins
  <2> QED
    BY <2>1, <1>1
<1>3. m - 1 \in Nat /\ m - 1 \notin Bad
  BY <1>1, <1>2
<1>4. PICK g : Joins(path, m - 1, g)
  BY <1>3
<1> DEFINE f == [n \in 0..m |-> IF n = m THEN Beneath(g[m - 1], path[m]) ELSE g[n]]
<1>5. \A n \in 0..(m - 1) : f[n] = g[n]
  BY <1>1
<1>6. \A n \in 0..(m - 1) : g[n] = IF n = 0 THEN <<>> ELSE Beneath(g[n - 1], path[n])
  BY <1>4 DEF Joins
<1>7. \A n \in 0..m : f[n] = IF n = 0 THEN <<>> ELSE Beneath(f[n - 1], path[n])
  <2> TAKE n \in 0..m
  <2>1. CASE n = m
    BY <2>1, <1>2, <1>3, <1>5
  <2>2. CASE n # m
    <3>1. n \in 0..(m - 1) /\ (n # 0 => n - 1 \in 0..(m - 1))
      BY <2>2, <1>1
    <3> QED
      BY <3>1, <1>5, <1>6
  <2> QED
    BY <2>1, <2>2
<1> DEFINE h == [n \in 0..m |-> IF n = 0 THEN <<>> ELSE Beneath(f[n - 1], path[n])]
<1>8. f = h
  <2>1. \A n \in 0..m : f[n] = h[n]
    BY <1>7
  <2>2. f = [n \in 0..m |-> f[n]]
    OBVIOUS
  <2> HIDE DEF f
  <2> QED
    BY <2>1, <2>2
<1>9. Joins(path, m, f)
  BY <1>8 DEF Joins
<1> QED
  BY <1>1, <1>9

LEMMA TextJoins ==
    ASSUME NEW path, Len(path) \in Nat
    PROVE  \E f : /\ Text(path) = f[Len(path)] /\ f[0] = <<>>
                  /\ \A n \in 1..Len(path) : f[n] = Beneath(f[n - 1], path[n])
<1> DEFINE f == CHOOSE h : Joins(path, Len(path), h)
<1>1. Joins(path, Len(path), f)
  BY JoinsExists
<1>2. Text(path) = f[Len(path)]
  BY DEF Text, Joins
<1> HIDE DEF f
<1>3. \A n \in 0..Len(path) : f[n] = IF n = 0 THEN <<>> ELSE Beneath(f[n - 1], path[n])
  BY <1>1 DEF Joins
<1> QED
  BY <1>2, <1>3

\* The names of the first characters of a text, up to each.
Splits(text, top, f) ==
    f = [n \in 0..top |-> IF n = 0 THEN <<NoName>> ELSE Read(f[n - 1], text[n])]

LEMMA SplitsExists ==
    ASSUME NEW text, NEW top \in Nat
    PROVE  \E f : Splits(text, top, f)
<1> DEFINE Bad == {m \in Nat : ~\E f : Splits(text, m, f)}
<1> SUFFICES ASSUME Bad # {}
             PROVE  FALSE
  OBVIOUS
<1>1. PICK m \in Bad : \A y \in Bad : m =< y
  BY LeastNumber
<1>2. m # 0
  <2> DEFINE f == [n \in 0..0 |-> <<NoName>>]
  <2>1. Splits(text, 0, f)
    BY DEF Splits
  <2> QED
    BY <2>1, <1>1
<1>3. m - 1 \in Nat /\ m - 1 \notin Bad
  BY <1>1, <1>2
<1>4. PICK g : Splits(text, m - 1, g)
  BY <1>3
<1> DEFINE f == [n \in 0..m |-> IF n = m THEN Read(g[m - 1], text[m]) ELSE g[n]]
<1>5. \A n \in 0..(m - 1) : f[n] = g[n]
  BY <1>1
<1>6. \A n \in 0..(m - 1) : g[n] = IF n = 0 THEN <<NoName>> ELSE Read(g[n - 1], text[n])
  BY <1>4 DEF Splits
<1>7. \A n \in 0..m : f[n] = IF n = 0 THEN <<NoName>> ELSE Read(f[n - 1], text[n])
  <2> TAKE n \in 0..m
  <2>1. CASE n = m
    BY <2>1, <1>2, <1>3, <1>5
  <2>2. CASE n # m
    <3>1. n \in 0..(m - 1) /\ (n # 0 => n - 1 \in 0..(m - 1))
      BY <2>2, <1>1
    <3> QED
      BY <3>1, <1>5, <1>6
  <2> QED
    BY <2>1, <2>2
<1> DEFINE h == [n \in 0..m |-> IF n = 0 THEN <<NoName>> ELSE Read(f[n - 1], text[n])]
<1>8. f = h
  <2>1. \A n \in 0..m : f[n] = h[n]
    BY <1>7
  <2>2. f = [n \in 0..m |-> f[n]]
    OBVIOUS
  <2> HIDE DEF f
  <2> QED
    BY <2>1, <2>2
<1>9. Splits(text, m, f)
  BY <1>8 DEF Splits
<1> QED
  BY <1>1, <1>9

LEMMA SplitsEach ==
    ASSUME NEW text, NEW top \in Nat, NEW f, Splits(text, top, f)
    PROVE  /\ f[0] = <<NoName>>
           /\ \A n \in 1..top : f[n] = Read(f[n - 1], text[n])
<1>1. \A n \in 0..top : f[n] = IF n = 0 THEN <<NoName>> ELSE Read(f[n - 1], text[n])
  BY DEF Splits
<1> QED
  BY <1>1

LEMMA SplitIsRead ==
    ASSUME NEW text, Len(text) \in Nat
    PROVE  \E f : Splits(text, Len(text), f) /\ Split(text) = f[Len(text)]
<1> DEFINE f == CHOOSE h : Splits(text, Len(text), h)
<1>1. Splits(text, Len(text), f)
  BY SplitsExists
<1>2. Split(text) = f[Len(text)]
  BY DEF Split, Splits
<1> QED
  BY <1>1, <1>2

LEMMA SplitOfNone == Split(<<>>) = <<NoName>>
<1>1. PICK f : Splits(<<>>, 0, f) /\ Split(<<>>) = f[0]
  BY SplitIsRead
<1> QED
  BY <1>1, SplitsEach

(* One more character. *)
LEMMA SplitOfLonger ==
    ASSUME NEW T, NEW text \in Seq(T), NEW c \in T
    PROVE  Split(Append(text, c)) = Read(Split(text), c)
<1> DEFINE long == Append(text, c)
           n == Len(text)
<1>1. /\ long \in Seq(T) /\ Len(long) = n + 1 /\ n \in Nat
      /\ long[n + 1] = c /\ \A i \in 1..n : long[i] = text[i]
  OBVIOUS
<1> HIDE DEF long, n
<1>2. PICK f : Splits(long, n + 1, f) /\ Split(long) = f[n + 1]
  BY <1>1, SplitIsRead
<1>3. PICK g : Splits(text, n, g) /\ Split(text) = g[n]
  BY <1>1, SplitIsRead DEF n
<1>6. /\ f[0] = <<NoName>> /\ \A m \in 1..(n + 1) : f[m] = Read(f[m - 1], long[m])
      /\ g[0] = <<NoName>> /\ \A m \in 1..n : g[m] = Read(g[m - 1], text[m])
  <2> DEFINE end == n + 1
  <2>1. end \in Nat /\ Splits(long, end, f)
    BY <1>1, <1>2
  <2> HIDE DEF end
  <2>2. f[0] = <<NoName>> /\ \A m \in 1..end : f[m] = Read(f[m - 1], long[m])
    BY <2>1, SplitsEach
  <2>3. g[0] = <<NoName>> /\ \A m \in 1..n : g[m] = Read(g[m - 1], text[m])
    BY <1>1, <1>3, SplitsEach
  <2> QED
    BY <2>2, <2>3 DEF end
<1>4. f[n] = g[n]
  <2> DEFINE Bad == {m \in 0..n : f[m] # g[m]}
  <2>1. ASSUME Bad # {}
        PROVE  FALSE
    <3>1. PICK m \in Bad : \A y \in Bad : m =< y
      <4>1. Bad \in SUBSET Nat
        BY <1>1
      <4> HIDE DEF Bad
      <4> QED
        BY <4>1, <2>1, LeastNumber
    <3>2. m # 0
      BY <3>1, <1>6
    <3>3. m \in 1..n /\ m \in 1..(n + 1) /\ m - 1 \in 0..n /\ m - 1 < m
      BY <3>1, <3>2, <1>1
    <3>4. m - 1 \notin Bad
      BY <3>1, <3>3
    <3>5. f[m - 1] = g[m - 1]
      BY <3>3, <3>4
    <3>6. f[m] = Read(f[m - 1], long[m]) /\ g[m] = Read(g[m - 1], text[m]) /\ long[m] = text[m]
      BY <3>3, <1>1, <1>6
    <3> QED
      BY <3>1, <3>5, <3>6
  <2>2. n \in 0..n
    BY <1>1
  <2> QED
    BY <2>1, <2>2
<1>5. f[n + 1] = Read(f[n], c)
  <2>1. n + 1 \in 1..(n + 1) /\ (n + 1) - 1 = n
    BY <1>1
  <2> QED
    BY <2>1, <1>1, <1>6
<1> QED
  BY <1>2, <1>3, <1>4, <1>5 DEF long, n

(* A text is split into at least one name, none of which has a slash. *)
LEMMA SplitTyped ==
    ASSUME NEW C, NEW text \in Seq(C \cup {Slash})
    PROVE  Split(text) \in Seq(Seq(C)) /\ Split(text) # <<>>
<1> DEFINE T == C \cup {Slash}
           good == {s \in Seq(T) : Split(s) \in Seq(Seq(C)) /\ Split(s) # <<>>}
<1>1. <<>> \in good
  <2>1. <<>> \in Seq(T) /\ NoName \in Seq(C)
    BY DEF NoName
  <2>2. <<NoName>> \in Seq(Seq(C)) /\ <<NoName>> # <<>>
    BY <2>1
  <2> QED
    BY <2>1, <2>2, SplitOfNone
<1>2. ASSUME NEW s \in Seq(T), NEW c \in T, s \in good
      PROVE  Append(s, c) \in good
  <2> DEFINE names == Split(s)
  <2>1. names \in Seq(Seq(C)) /\ names # <<>> /\ Append(s, c) \in Seq(T)
    BY <1>2
  <2>2. Split(Append(s, c)) = Read(names, c)
    BY SplitOfLonger
  <2> HIDE DEF names
  <2>3. CASE c = Slash
    <3>1. Read(names, c) = Append(names, NoName)
      BY <2>3 DEF Read
    <3>2. NoName \in Seq(C)
      BY DEF NoName
    <3>3. Append(names, NoName) \in Seq(Seq(C)) /\ Append(names, NoName) # <<>>
      BY <2>1, <3>2, AppendProperties
    <3> QED
      BY <2>1, <2>2, <3>1, <3>3
  <2>4. CASE c # Slash
    <3> DEFINE last == names[Len(names)]
               longer == Append(last, c)
    <3>1. Read(names, c) = [names EXCEPT ![Len(names)] = longer]
      BY <2>4 DEF Read
    <3>2. Len(names) \in 1..Len(names) /\ last \in Seq(C) /\ c \in C
      BY <2>1, <2>4
    <3>3. longer \in Seq(C)
      BY <3>2
    <3> HIDE DEF longer, last
    <3>4. Read(names, c) \in Seq(Seq(C)) /\ Len(Read(names, c)) = Len(names)
      BY <2>1, <3>1, <3>2, <3>3, ExceptSeq
    <3> QED
      BY <2>1, <2>2, <3>4
  <2> QED
    BY <2>3, <2>4
<1> HIDE DEF good
<1>3. Seq(T) \subseteq good
  BY <1>1, <1>2, ListsGrow
<1> QED
  BY <1>3 DEF good

(* A slash and a name without one are one more name. *)
LEMMA SplitOfName ==
    ASSUME NEW C, Slash \notin C, NEW text \in Seq(C \cup {Slash}), NEW name \in Seq(C)
    PROVE  Split(Beneath(text, name)) = Append(Split(text), name)
<1> DEFINE T == C \cup {Slash}
           start == text \o <<Slash>>
           names == Split(text)
           good == {q \in Seq(C) : Split(start \o q) = Append(names, q)}
<1>1. /\ start \in Seq(T) /\ start = Append(text, Slash) /\ Slash \in T
      /\ names \in Seq(Seq(C)) /\ names # <<>> /\ NoName \in Seq(C)
  BY SplitTyped DEF NoName
<1>2. Split(start) = Append(names, NoName)
  BY <1>1, SplitOfLonger DEF Read
<1> HIDE DEF T, start, names
<1>3. <<>> \in good
  <2>1. <<>> \in Seq(C) /\ start \o <<>> = start
    BY <1>1
  <2> QED
    BY <2>1, <1>2 DEF NoName
<1>4. ASSUME NEW q \in Seq(C), NEW c \in C, q \in good
      PROVE  Append(q, c) \in good
  <2> DEFINE so == start \o q
             split == Append(names, q)
             end == Len(names) + 1
  <2>1. q \in Seq(T) /\ c \in T /\ c # Slash /\ Append(q, c) \in Seq(C)
    BY <1>4 DEF T
  <2>2. start \o Append(q, c) = Append(so, c) /\ so \in Seq(T)
    BY <1>1, <2>1, AppendLast
  <2>3. Split(so) = split
    BY <1>4
  <2>4. /\ split \in Seq(Seq(C)) /\ Len(split) = end /\ end \in 1..end /\ split[end] = q
        /\ Len(names) \in Nat /\ end = Len(names) + 1
        /\ \A i \in 1..Len(names) : split[i] = names[i]
    BY <1>1
  <2> HIDE DEF so, split, end
  <2>5. Split(Append(so, c)) = Read(split, c)
    BY <2>1, <2>2, <2>3, SplitOfLonger
  <2> DEFINE longer == Append(q, c)
             l == [split EXCEPT ![end] = longer]
             r == Append(names, longer)
  <2>6. Read(split, c) = l
    BY <2>1, <2>4 DEF Read
  <2>7. l = r
    <3> HIDE DEF longer
    <3>1. longer \in Seq(C)
      BY <2>1 DEF longer
    <3>2. l \in Seq(Seq(C)) /\ Len(l) = end
      BY <2>4, <3>1, ExceptSeq
    <3>3. r \in Seq(Seq(C)) /\ Len(r) = end /\ r[end] = longer
      BY <1>1, <2>4, <3>1
    <3>4. \A i \in 1..Len(names) : r[i] = names[i]
      BY <1>1, <2>4, <3>1
    <3>5. DOMAIN split = 1..end
      BY <2>4
    <3>6. ASSUME NEW i \in 1..end
          PROVE  l[i] = r[i]
      <4>1. CASE i = end
        BY <4>1, <3>3, <3>5
      <4>2. CASE i # end
        <5>1. i \in 1..Len(names)
          BY <2>4, <4>2
        <5> QED
          BY <5>1, <4>2, <2>4, <3>4, <3>5
      <4> QED
        BY <4>1, <4>2
    <3> HIDE DEF l, r
    <3> QED
      BY <3>2, <3>3, <3>6, SeqEqual
  <2> QED
    BY <2>1, <2>2, <2>5, <2>6, <2>7
<1> HIDE DEF good
<1>5. Seq(C) \subseteq good
  BY <1>3, <1>4, ListsGrow
<1> QED
  BY <1>5 DEF good, start, names, Beneath

(* The text of a path is made of letters and slashes, and is split into the names
   of the path, after an empty one. *)
LEMMA TextIsSplit ==
    ASSUME NEW C, Slash \notin C, NEW path \in Seq(Seq(C))
    PROVE  Text(path) \in Seq(C \cup {Slash}) /\ Split(Text(path)) = <<NoName>> \o path
<1> DEFINE T == C \cup {Slash}
           n == Len(path)
           First(m) == SubSeq(path, 1, m)
<1>1. n \in Nat /\ DOMAIN path = 1..n /\ \A m \in 1..n : path[m] \in Seq(C)
  OBVIOUS
<1>2. PICK f : /\ Text(path) = f[n] /\ f[0] = <<>>
               /\ \A m \in 1..n : f[m] = Beneath(f[m - 1], path[m])
  BY <1>1, TextJoins
<1> DEFINE Right(m) == f[m] \in Seq(T) /\ Split(f[m]) = <<NoName>> \o First(m)
           Bad == {m \in 0..n : ~Right(m)}
<1> HIDE DEF n
<1>3. ASSUME Bad # {}
      PROVE  FALSE
  <2>1. PICK m \in Bad : \A y \in Bad : m =< y
    <3>1. Bad \in SUBSET Nat
      BY <1>1
    <3> HIDE DEF Bad
    <3> QED
      BY <3>1, <1>3, LeastNumber
  <2>2. m # 0
    <3>1. First(0) = <<>> /\ <<NoName>> \o <<>> = <<NoName>> /\ <<>> \in Seq(T)
      OBVIOUS
    <3>2. Right(0)
      BY <3>1, <1>2, SplitOfNone
    <3> QED
      BY <2>1, <3>2
  <2>3. m \in 1..n /\ m - 1 \in 0..n /\ m - 1 < m /\ m - 1 \in Nat
    BY <2>1, <2>2, <1>1
  <2>4. m - 1 \notin Bad
    BY <2>1, <2>3
  <2>5. f[m - 1] \in Seq(T) /\ Split(f[m - 1]) = <<NoName>> \o First(m - 1)
    BY <2>3, <2>4
  <2> DEFINE name == path[m]
             before == f[m - 1]
             names == First(m - 1)
  <2>6. name \in Seq(C) /\ f[m] = Beneath(before, name)
    BY <1>1, <1>2, <2>3
  <2>7. names \in Seq(Seq(C)) /\ First(m) = Append(names, name)
    <3>1. names \in Seq(Seq(C)) /\ Len(names) = m - 1 /\ \A i \in 1..(m - 1) : names[i] = path[i]
      BY <1>1, <2>3 DEF n
    <3>2. First(m) \in Seq(Seq(C)) /\ Len(First(m)) = m /\ \A i \in 1..m : First(m)[i] = path[i]
      BY <1>1, <2>3 DEF n
    <3> DEFINE both == Append(names, name)
    <3>3. both \in Seq(Seq(C)) /\ Len(both) = m /\ both[m] = name /\ \A i \in 1..(m - 1) : both[i] = names[i]
      BY <3>1, <2>6, <2>3
    <3> HIDE DEF First, both
    <3>4. ASSUME NEW i \in 1..m
          PROVE  First(m)[i] = both[i]
      <4>1. i = m \/ i \in 1..(m - 1)
        BY <2>3
      <4>2. First(m)[i] = path[i]
        BY <3>2
      <4>3. CASE i = m
        BY <4>2, <4>3, <3>3
      <4>4. CASE i \in 1..(m - 1)
        BY <4>2, <4>4, <3>1, <3>3
      <4> QED
        BY <4>1, <4>3, <4>4
    <3> QED
      BY <3>1, <3>2, <3>3, <3>4, SeqEqual DEF both
  <2> HIDE DEF name, before, names, First
  <2>8. Split(f[m]) = Append(Split(before), name)
    BY <2>5, <2>6, SplitOfName DEF before
  <2>9. f[m] \in Seq(T)
    <3>1. name \in Seq(T) /\ before \in Seq(T) /\ <<Slash>> \in Seq(T)
      BY <2>5, <2>6 DEF before
    <3> QED
      BY <3>1, <2>6 DEF Beneath
  <2>10. <<NoName>> \o Append(names, name) = Append(<<NoName>> \o names, name)
    <3> DEFINE one == <<NoName>>
    <3>1. one \in Seq(Seq(C))
      BY DEF NoName
    <3> HIDE DEF one
    <3>2. \A s, q \in Seq(Seq(C)), x \in Seq(C) : s \o Append(q, x) = Append(s \o q, x)
      <4> DEFINE W == Seq(C)
      <4> HIDE DEF W
      <4>1. \A s, q \in Seq(W), x \in W : s \o Append(q, x) = Append(s \o q, x)
        BY AppendLast
      <4> QED
        BY <4>1 DEF W
    <3>3. one \o Append(names, name) = Append(one \o names, name)
      BY <3>1, <3>2, <2>6, <2>7
    <3> QED
      BY <3>3 DEF one
  <2>11. Right(m)
    BY <2>5, <2>7, <2>8, <2>9, <2>10 DEF before, names
  <2> QED
    BY <2>1, <2>11
<1>4. n \in 0..n
  BY <1>1
<1>5. Right(n)
  BY <1>3, <1>4
<1>6. First(n) = path
  BY DEF n
<1> QED
  BY <1>2, <1>5, <1>6

\* What is replaced in the first characters of a text, up to each.
Scans(text, x, y, top, f) ==
    f = [n \in 0..top |-> IF n = 0 THEN NoScan ELSE Scan(f[n - 1], text, x, y, n)]

LEMMA ScansExist ==
    ASSUME NEW text, NEW x, NEW y, NEW top \in Nat
    PROVE  \E f : Scans(text, x, y, top, f)
<1> DEFINE Bad == {m \in Nat : ~\E f : Scans(text, x, y, m, f)}
<1> SUFFICES ASSUME Bad # {}
             PROVE  FALSE
  OBVIOUS
<1>1. PICK m \in Bad : \A z \in Bad : m =< z
  BY LeastNumber
<1>2. m # 0
  <2> DEFINE f == [n \in 0..0 |-> NoScan]
  <2>1. Scans(text, x, y, 0, f)
    BY DEF Scans
  <2> QED
    BY <2>1, <1>1
<1>3. m - 1 \in Nat /\ m - 1 \notin Bad
  BY <1>1, <1>2
<1>4. PICK g : Scans(text, x, y, m - 1, g)
  BY <1>3
<1> DEFINE f == [n \in 0..m |-> IF n = m THEN Scan(g[m - 1], text, x, y, m) ELSE g[n]]
<1>5. \A n \in 0..(m - 1) : f[n] = g[n]
  BY <1>1
<1>6. \A n \in 0..(m - 1) : g[n] = IF n = 0 THEN NoScan ELSE Scan(g[n - 1], text, x, y, n)
  BY <1>4 DEF Scans
<1>7. \A n \in 0..m : f[n] = IF n = 0 THEN NoScan ELSE Scan(f[n - 1], text, x, y, n)
  <2> TAKE n \in 0..m
  <2>1. CASE n = m
    BY <2>1, <1>2, <1>3, <1>5
  <2>2. CASE n # m
    <3>1. n \in 0..(m - 1) /\ (n # 0 => n - 1 \in 0..(m - 1))
      BY <2>2, <1>1
    <3> QED
      BY <3>1, <1>5, <1>6
  <2> QED
    BY <2>1, <2>2
<1> DEFINE h == [n \in 0..m |-> IF n = 0 THEN NoScan ELSE Scan(f[n - 1], text, x, y, n)]
<1>8. f = h
  <2>1. \A n \in 0..m : f[n] = h[n]
    BY <1>7
  <2>2. f = [n \in 0..m |-> f[n]]
    OBVIOUS
  <2> HIDE DEF f
  <2> QED
    BY <2>1, <2>2
<1>9. Scans(text, x, y, m, f)
  BY <1>8 DEF Scans
<1> QED
  BY <1>1, <1>9

ScannedBy(text, x, y, f) ==
    /\ Replaced(text, x, y) = f[Len(text)].out /\ f[0] = NoScan
    /\ \A n \in 1..Len(text) : f[n] = Scan(f[n - 1], text, x, y, n)

LEMMA ReplacedScans ==
    ASSUME NEW text, NEW x, NEW y, Len(text) \in Nat
    PROVE  \E f : ScannedBy(text, x, y, f)
<1> DEFINE f == CHOOSE h : Scans(text, x, y, Len(text), h)
<1>1. Scans(text, x, y, Len(text), f)
  BY ScansExist
<1>2. Replaced(text, x, y) = f[Len(text)].out
  BY DEF Replaced, Scans
<1> HIDE DEF f
<1>3. \A n \in 0..Len(text) : f[n] = IF n = 0 THEN NoScan ELSE Scan(f[n - 1], text, x, y, n)
  BY <1>1 DEF Scans
<1> QED
  BY <1>2, <1>3 DEF ScannedBy

(* What occurs in the rest of a text occurs in the rest. *)
LEMMA OccursBehind ==
    ASSUME NEW T, NEW x \in Seq(T), NEW z \in Seq(T), NEW rest \in Seq(T), x # <<>>,
           NEW i \in Nat \ {0}, Occurs(z \o rest, x, Len(z) + i)
    PROVE  i \in 1..Len(rest) /\ Occurs(rest, x, i)
<1> DEFINE k == Len(z)
           l == Len(x)
           text == z \o rest
           part == SubSeq(text, k + i, k + i - 1 + l)
           same == SubSeq(rest, i, i - 1 + l)
<1>1. /\ k \in Nat /\ l \in Nat \ {0} /\ Len(rest) \in Nat /\ text \in Seq(T) /\ Len(text) = k + Len(rest)
      /\ \A j \in 1..Len(rest) : text[k + j] = rest[j]
  OBVIOUS
<1>2. k + i - 1 + l =< Len(text) /\ part = x
  BY DEF Occurs
<1> HIDE DEF k, l, text
<1>3. i - 1 + l =< Len(rest) /\ i \in 1..Len(rest)
  BY <1>1, <1>2
<1>4. part \in Seq(T) /\ Len(part) = l /\ \A j \in 1..l : part[j] = text[k + i - 1 + j]
  BY <1>1, <1>2
<1>5. same \in Seq(T) /\ Len(same) = l /\ \A j \in 1..l : same[j] = rest[i - 1 + j]
  BY <1>1, <1>3
<1>6. ASSUME NEW j \in 1..l
      PROVE  part[j] = same[j]
  <2>1. i - 1 + j \in 1..Len(rest) /\ k + (i - 1 + j) = k + i - 1 + j
    BY <1>1, <1>3
  <2>2. text[k + (i - 1 + j)] = rest[i - 1 + j]
    BY <2>1, <1>1
  <2> QED
    BY <2>1, <2>2, <1>4, <1>5
<1> HIDE DEF part, same
<1>7. part = same
  BY <1>1, <1>4, <1>5, <1>6, SeqEqual
<1> QED
  BY <1>2, <1>3, <1>7 DEF same, l, Occurs

(* In a text that begins with what is replaced, and has it nowhere else, the
   beginning is replaced. *)
LEMMA HeadReplaced ==
    ASSUME NEW T, NEW x \in Seq(T), x # <<>>, NEW y \in Seq(T), NEW rest \in Seq(T), ~Has(rest, x),
           NEW text, text = x \o rest
    PROVE  Replaced(text, x, y) = y \o rest
<1> DEFINE k == Len(x)
           n == Len(rest)
           First(j) == SubSeq(rest, 1, j)
<1>1. /\ k \in Nat \ {0} /\ n \in Nat /\ text \in Seq(T) /\ Len(text) = k + n
      /\ \A j \in 1..n : text[k + j] = rest[j]
  OBVIOUS
<1>2. PICK f : /\ Replaced(text, x, y) = f[k + n].out /\ f[0] = NoScan
               /\ \A m \in 1..(k + n) : f[m] = Scan(f[m - 1], text, x, y, m)
  <2> HIDE DEF k, n
  <2>1. Len(text) \in Nat
    BY <1>1
  <2>2. PICK f : ScannedBy(text, x, y, f)
    BY <2>1, ReplacedScans
  <2> QED
    BY <1>1, <2>2 DEF ScannedBy
<1>3. Occurs(text, x, 1)
  <2> DEFINE head == SubSeq(text, 1, 1 - 1 + k)
  <2>1. head \in Seq(T) /\ Len(head) = k /\ \A j \in 1..k : head[j] = x[j]
    BY <1>1
  <2> HIDE DEF head
  <2>2. head = x
    BY <1>1, <2>1, SeqEqual DEF k
  <2> QED
    BY <1>1, <2>2 DEF Occurs, head, k
<1>4. \A j \in 1..n : ~Occurs(text, x, k + j)
  <2> SUFFICES ASSUME NEW j \in 1..n, Occurs(text, x, k + j)
               PROVE  FALSE
    OBVIOUS
  <2>1. j \in Nat \ {0}
    BY <1>1
  <2>2. Occurs(rest, x, j)
    BY <2>1, OccursBehind
  <2> QED
    BY <2>2 DEF Has
<1> HIDE DEF First
<1>5. f[1] = [out |-> y, skip |-> k - 1]
  <2>1. 1 \in 1..(k + n) /\ 1 - 1 = 0 /\ <<>> \o y = y
    BY <1>1
  <2>2. f[1] = Scan(f[0], text, x, y, 1)
    BY <1>2, <2>1
  <2> QED
    BY <1>2, <1>3, <2>1, <2>2 DEF Scan, NoScan
<1> HIDE DEF k, n
<1>6. f[k] = [out |-> y, skip |-> 0]
  <2> DEFINE Bad == {m \in 1..k : f[m] # [out |-> y, skip |-> k - m]}
  <2>1. ASSUME Bad # {}
        PROVE  FALSE
    <3>1. PICK m \in Bad : \A z \in Bad : m =< z
      <4>1. Bad \in SUBSET Nat
        BY <1>1
      <4> HIDE DEF Bad
      <4> QED
        BY <4>1, <2>1, LeastNumber
    <3>2. m # 1
      BY <3>1, <1>5
    <3>3. m - 1 \in 1..k /\ m - 1 < m /\ m \in 1..(k + n)
      BY <3>1, <3>2, <1>1
    <3>4. m - 1 \notin Bad
      <4>1. m \in Int /\ m - 1 \in Int /\ ~(m =< m - 1)
        BY <3>3
      <4> HIDE DEF Bad
      <4> QED
        BY <3>1, <4>1
    <3>5. f[m - 1] = [out |-> y, skip |-> k - (m - 1)]
      BY <3>3, <3>4
    <3>6. k - (m - 1) > 0 /\ k - (m - 1) - 1 = k - m
      BY <3>1, <1>1
    <3>7. f[m] = Scan(f[m - 1], text, x, y, m)
      BY <3>3, <1>2
    <3>8. f[m] = [out |-> y, skip |-> k - m]
      BY <3>5, <3>6, <3>7 DEF Scan
    <3> QED
      BY <3>1, <3>8
  <2>2. k \in 1..k /\ k - k = 0
    BY <1>1
  <2> QED
    BY <2>1, <2>2
<1>7. First(0) = <<>> /\ First(n) = rest /\ y \o <<>> = y
  BY DEF First, n
<1>8. \A j \in 1..n : /\ First(j - 1) \in Seq(T) /\ rest[j] \in T
                       /\ First(j) = Append(First(j - 1), rest[j])
  <2> TAKE j \in 1..n
  <2> DEFINE longer == Append(First(j - 1), rest[j])
  <2>1. /\ First(j - 1) \in Seq(T) /\ Len(First(j - 1)) = j - 1 /\ rest[j] \in T
        /\ \A i \in 1..(j - 1) : First(j - 1)[i] = rest[i]
    BY <1>1 DEF First, n
  <2>2. First(j) \in Seq(T) /\ Len(First(j)) = j /\ \A i \in 1..j : First(j)[i] = rest[i]
    BY <1>1 DEF First, n
  <2>3. longer \in Seq(T) /\ Len(longer) = j /\ \A i \in 1..j : longer[i] = rest[i]
    BY <1>1, <2>1
  <2> HIDE DEF longer
  <2>4. First(j) = longer
    BY <2>2, <2>3, SeqEqual
  <2> QED
    BY <2>1, <2>4 DEF longer
<1>9. f[k + n] = [out |-> y \o First(n), skip |-> 0]
  <2> DEFINE Bad == {j \in 0..n : f[k + j] # [out |-> y \o First(j), skip |-> 0]}
  <2>1. ASSUME Bad # {}
        PROVE  FALSE
    <3>1. PICK j \in Bad : \A z \in Bad : j =< z
      <4>1. Bad \in SUBSET Nat
        BY <1>1
      <4> HIDE DEF Bad
      <4> QED
        BY <4>1, <2>1, LeastNumber
    <3>2. j # 0
      <4>1. k + 0 = k
        BY <1>1
      <4> QED
        BY <3>1, <4>1, <1>6, <1>7
    <3>3. j \in 1..n /\ j - 1 \in 0..n /\ j - 1 < j /\ k + j \in 1..(k + n) /\ (k + j) - 1 = k + (j - 1)
      BY <3>1, <3>2, <1>1
    <3>4. j - 1 \notin Bad
      <4>1. j \in Int /\ j - 1 \in Int /\ ~(j =< j - 1)
        BY <3>3
      <4> HIDE DEF Bad
      <4> QED
        BY <3>1, <4>1
    <3>5. f[k + (j - 1)] = [out |-> y \o First(j - 1), skip |-> 0]
      BY <3>3, <3>4
    <3>6. f[k + j] = Scan(f[k + (j - 1)], text, x, y, k + j)
      BY <3>3, <1>2
    <3> DEFINE before == First(j - 1)
               was == y \o before
               c == text[k + j]
               at == k + j
    <3>7. c = rest[j] /\ ~Occurs(text, x, at)
      BY <3>3, <1>1, <1>4
    <3>8. before \in Seq(T) /\ c \in T /\ First(j) = Append(before, c)
      BY <3>3, <3>7, <1>8
    <3>9. f[k + (j - 1)] = [out |-> was, skip |-> 0] /\ f[at] = Scan(f[k + (j - 1)], text, x, y, at)
      BY <3>5, <3>6
    <3> HIDE DEF before
    <3>10. Append(was, c) = y \o First(j)
      <4> HIDE DEF c
      <4>1. y \o Append(before, c) = Append(y \o before, c)
        BY <3>8, AppendLast
      <4> QED
        BY <3>8, <4>1
    <3>11. c = text[at]
      OBVIOUS
    <3> HIDE DEF was, c, at
    <3>12. f[at] = [out |-> Append(was, c), skip |-> 0]
      <4> DEFINE rec == [out |-> was, skip |-> 0]
      <4>1. f[at] = Scan(rec, text, x, y, at)
        BY <3>9
      <4>2. rec.skip = 0 /\ ~(rec.skip > 0) /\ rec.out = was
        OBVIOUS
      <4> DEFINE longer == Append(was, c)
                 next == [rec EXCEPT !.out = Append(@, text[at])]
      <4>3. next = [rec EXCEPT !.out = longer]
        <5> HIDE DEF rec
        <5> QED
          BY <3>11, <4>2
      <4> HIDE DEF longer
      <4>4. [rec EXCEPT !.out = longer] = [out |-> longer, skip |-> 0]
        OBVIOUS
      <4> HIDE DEF rec
      <4>5. f[at] = next
        BY <3>7, <4>1, <4>2, Zenon DEF Scan
      <4> HIDE DEF next
      <4> QED
        BY <4>3, <4>4, <4>5 DEF longer
    <3>13. f[k + j] = [out |-> y \o First(j), skip |-> 0]
      BY <3>10, <3>12 DEF at
    <3> QED
      BY <3>1, <3>13
  <2>2. n \in 0..n
    BY <1>1
  <2> QED
    BY <2>1, <2>2
<1> QED
  BY <1>2, <1>7, <1>9

LEMMA NamesAreWords == Names \subseteq Seq(Letters) \ {<<>>} /\ Slash \notin Letters
BY FilesAssumption

(* The way back from the text of a path, when the folder's label and its real path
   are in no name of it. *)
LEMMA TextLeadsBack ==
    ASSUME NEW path \in Seq(Names), ~Has(Text(path), Label), ~Has(Text(path), Root)
    PROVE  SafeJoin(ToVirtual(path)) = path
<1> DEFINE Words == Seq(Letters)
           T == Letters \cup {Slash}
           U == T \cup Marks
           text == Text(path)
           some == Words \ {NoName}
<1>1. path \in Seq(Words) /\ path \in Seq(some) /\ Slash \notin Letters
  BY NamesAreWords DEF NoName
<1>a. Root \in Seq(Marks) /\ Label \in Seq(Marks) /\ Root # <<>> /\ Label # <<>>
  BY FilesAssumption
<1> HIDE DEF Words, T, text
<1>2. text \in Seq(T) /\ Split(text) = <<NoName>> \o path
  BY <1>1, TextIsSplit DEF Words, T, text
<1>3. Root \in Seq(U) /\ Label \in Seq(U) /\ text \in Seq(U) /\ <<>> \in Seq(U)
  BY <1>a, <1>2
<1> HIDE DEF U
<1>4. ToVirtual(path) = Label \o text
  <2>1. ~Has(text, Root)
    BY DEF text
  <2>2. \A all : all = Root \o text => Replaced(all, Root, Label) = Label \o text
    BY <1>3, <1>a, <2>1, HeadReplaced
  <2> QED
    BY <2>2 DEF ToVirtual, text
<1>5. Replaced(Label \o text, Label, <<>>) = <<>> \o text
  <2>1. ~Has(text, Label)
    BY DEF text
  <2>2. \A all : all = Label \o text => Replaced(all, Label, <<>>) = <<>> \o text
    BY <1>3, <1>a, <2>1, HeadReplaced
  <2> QED
    BY <2>2
<1>6. <<>> \o text = text
  BY <1>2
<1>7. NoName \notin some
  OBVIOUS
<1> HIDE DEF some
<1>8. Dropping(<<NoName>> \o path, NoName) = path
  BY <1>1, <1>7, DroppingTheHead
<1> QED
  BY <1>2, <1>4, <1>5, <1>6, <1>8 DEF SafeJoin

-----------------------------------------------------------------------------
(* The tree of a session *)

LEMMA PathsAreLists ==
    /\ \A p \in Paths : p \in Seq(Names) /\ Len(p) \in 1..Depth /\ Len(p) \in Nat /\ DOMAIN p = 1..Len(p)
    /\ \A p \in Seq(Names) : Len(p) \in 1..Depth => p \in Paths
<1>1. Depth \in Nat
  BY FilesAssumption
<1>2. ASSUME NEW p \in Paths
      PROVE  p \in Seq(Names) /\ Len(p) \in 1..Depth /\ Len(p) \in Nat /\ DOMAIN p = 1..Len(p)
  <2>1. PICK n \in 1..Depth : p \in [1..n -> Names]
    BY DEF Paths
  <2>2. n \in Nat
    BY <1>1
  <2> QED
    BY <1>1, <2>1, <2>2
<1>3. ASSUME NEW p \in Seq(Names), Len(p) \in 1..Depth
      PROVE  p \in Paths
  BY <1>3 DEF Paths
<1> QED
  BY <1>2, <1>3

(* The directories above a path. *)
LEMMA AboveIsShorter ==
    ASSUME NEW p \in Paths
    PROVE  /\ Above(p) \subseteq Paths /\ p \notin Above(p)
           /\ Front(p) = <<>> \/ Front(p) \in Above(p)
           /\ \A q \in Above(p) : Front(q) = <<>> \/ Front(q) \in Above(p)
<1> DEFINE n == Len(p)
<1>1. p \in Seq(Names) /\ n \in 1..Depth /\ n \in Nat /\ Depth \in Nat
  BY PathsAreLists, FilesAssumption
<1>2. ASSUME NEW m \in 1..(n - 1)
      PROVE  /\ SubSeq(p, 1, m) \in Seq(Names) /\ Len(SubSeq(p, 1, m)) = m
             /\ Front(SubSeq(p, 1, m)) = SubSeq(p, 1, m - 1)
  <2> DEFINE q == SubSeq(p, 1, m)
             a == SubSeq(p, 1, m - 1)
             b == SubSeq(q, 1, m - 1)
  <2>1. q \in Seq(Names) /\ Len(q) = m /\ \A i \in 1..m : q[i] = p[i]
    BY <1>1
  <2>2. a \in Seq(Names) /\ Len(a) = m - 1 /\ \A i \in 1..(m - 1) : a[i] = p[i]
    BY <1>1
  <2> HIDE DEF q
  <2>3. b \in Seq(Names) /\ Len(b) = m - 1 /\ \A i \in 1..(m - 1) : b[i] = p[i]
    BY <1>1, <2>1
  <2> HIDE DEF a, b
  <2>4. a = b
    BY <2>2, <2>3, SeqEqual
  <2> QED
    BY <2>1, <2>4 DEF Front, q, a, b
<1>3. Above(p) \subseteq Paths /\ p \notin Above(p)
  <2> SUFFICES ASSUME NEW q \in Above(p)
               PROVE  q \in Paths /\ q # p
    OBVIOUS
  <2>1. PICK m \in 1..(n - 1) : q = SubSeq(p, 1, m)
    BY DEF Above
  <2>2. q \in Seq(Names) /\ Len(q) = m /\ m \in 1..Depth /\ m # n
    BY <1>1, <1>2, <2>1
  <2> QED
    BY <2>2, PathsAreLists
<1>4. Front(p) = <<>> \/ Front(p) \in Above(p)
  <2>1. CASE n = 1
    BY <1>1, <2>1 DEF Front
  <2>2. CASE n # 1
    BY <1>1, <2>2 DEF Front, Above
  <2> QED
    BY <2>1, <2>2
<1>5. ASSUME NEW q \in Above(p)
      PROVE  Front(q) = <<>> \/ Front(q) \in Above(p)
  <2>1. PICK m \in 1..(n - 1) : q = SubSeq(p, 1, m)
    BY DEF Above
  <2>2. Front(q) = SubSeq(p, 1, m - 1)
    BY <1>2, <2>1
  <2>3. CASE m = 1
    BY <1>1, <2>2, <2>3
  <2>4. CASE m # 1
    <3>1. m - 1 \in 1..(n - 1)
      BY <1>1, <2>4
    <3> QED
      BY <3>1, <2>2 DEF Above
  <2> QED
    BY <2>3, <2>4
<1> QED
  BY <1>3, <1>4, <1>5

(* What a path begins with. *)
LEMMA PrefixesAgree ==
    ASSUME NEW p \in Seq(Names), NEW q \in Seq(Names)
    PROVE  IsPrefix(p, q) <=> Len(p) <= Len(q) /\ \A i \in 1..Len(p) : p[i] = q[i]
<1>1. SubSeq(p, 1, Len(p)) = p
  OBVIOUS
<1> DEFINE a == SubSeq(q, 1, Len(p))
<1>2. ASSUME Len(p) <= Len(q)
      PROVE  a \in Seq(Names) /\ Len(a) = Len(p) /\ \A i \in 1..Len(p) : a[i] = q[i]
  BY <1>2
<1> HIDE DEF a
<1>3. ASSUME Len(p) <= Len(q)
      PROVE  p = a <=> \A i \in 1..Len(p) : p[i] = q[i]
  BY <1>2, <1>3, SeqEqual
<1> QED
  BY <1>1, <1>3 DEF IsPrefix, a

(* A tree: every entry is in a directory of the tree. *)
IsTree(t) ==
    /\ DOMAIN t \subseteq Paths
    /\ \A p \in DOMAIN t :
         /\ t[p] \in Contents \cup {Dir}
         /\ Front(p) = <<>> \/ (Front(p) \in DOMAIN t /\ t[Front(p)] = Dir)

LEMMA FilesAreATree == FilesTypeOK <=> IsTree(tree) /\ manifest \subseteq Paths
BY DEF FilesTypeOK, IsTree, IsDir

(* Directories that are made above a path. *)
LEMMA MadeIsTree ==
    ASSUME IsTree(tree), NEW p \in Paths, CanMake(p)
    PROVE  /\ IsTree(Made(tree, Above(p)))
           /\ DOMAIN Made(tree, Above(p)) = DOMAIN tree \cup Above(p)
           /\ \A q \in Above(p) : Made(tree, Above(p))[q] = Dir
           /\ \A q \in DOMAIN tree : Made(tree, Above(p))[q] = tree[q]
<1> DEFINE t == Made(tree, Above(p))
<1>1. /\ DOMAIN t = DOMAIN tree \cup Above(p)
      /\ \A q \in DOMAIN tree : t[q] = tree[q]
      /\ \A q \in Above(p) \ DOMAIN tree : t[q] = Dir
  BY DEF Made
<1>2. /\ Above(p) \subseteq Paths
      /\ \A q \in Above(p) : Front(q) = <<>> \/ Front(q) \in Above(p)
  BY AboveIsShorter
<1>3. <<>> \notin Paths
  BY PathsAreLists
<1>4. \A q \in Above(p) : t[q] = Dir
  BY <1>1, <1>2, <1>3 DEF CanMake, Exists, IsDir
<1> HIDE DEF t
<1>5. IsTree(t)
  BY <1>1, <1>2, <1>4 DEF IsTree
<1> QED
  BY <1>1, <1>4, <1>5 DEF t

(* A file or a directory that is put where there was none. *)
LEMMA PutIsTree ==
    ASSUME IsTree(tree), NEW p \in Paths, CanMake(p), ~IsDir(p), NEW c \in Contents \cup {Dir},
           NEW t, DOMAIN t = DOMAIN tree \cup Above(p) \cup {p}, t[p] = c,
           \A q \in (DOMAIN tree \cup Above(p)) \ {p} : t[q] = Made(tree, Above(p))[q]
    PROVE  IsTree(t)
<1> DEFINE made == Made(tree, Above(p))
<1>1. /\ IsTree(made) /\ DOMAIN made = DOMAIN tree \cup Above(p)
      /\ \A q \in Above(p) : made[q] = Dir
      /\ \A q \in DOMAIN tree : made[q] = tree[q]
  BY MadeIsTree
<1>2. p \notin Above(p) /\ (Front(p) = <<>> \/ Front(p) \in Above(p))
  BY AboveIsShorter
<1> HIDE DEF made
<1>3. \A q \in DOMAIN made : q # p => t[q] = made[q]
  BY <1>1 DEF made
<1>4. \A q \in DOMAIN made : made[q] = Dir => q # p
  BY <1>1, <1>2 DEF IsDir
<1>5. ASSUME NEW q \in DOMAIN t
      PROVE  /\ q \in Paths /\ t[q] \in Contents \cup {Dir}
             /\ Front(q) = <<>> \/ (Front(q) \in DOMAIN t /\ t[Front(q)] = Dir)
  <2>1. CASE q = p
    BY <2>1, <1>1, <1>2, <1>3
  <2>2. CASE q # p
    <3>1. q \in DOMAIN made
      BY <2>2, <1>1
    <3> QED
      BY <3>1, <2>2, <1>1, <1>3, <1>4 DEF IsTree
  <2> QED
    BY <2>1, <2>2
<1> QED
  BY <1>5 DEF IsTree

(* Two lists after one another, and a part of a list, place by place. *)
IsJoin(z, x, y) == z = x \o y
PartOf(z, q, m, k) == z = SubSeq(q, m, k)

LEMMA ConcatParts ==
    ASSUME NEW T, NEW x \in Seq(T), NEW y \in Seq(T), NEW z, IsJoin(z, x, y)
    PROVE  /\ z \in Seq(T) /\ Len(z) = Len(x) + Len(y)
           /\ \A i \in 1..Len(x) : z[i] = x[i]
           /\ \A i \in 1..Len(y) : z[Len(x) + i] = y[i]
<1>1. z \in Seq(T) /\ Len(z) = Len(x) + Len(y)
  BY DEF IsJoin
<1>2. \A i \in 1..Len(x) : z[i] = x[i]
  BY DEF IsJoin
<1>3. \A i \in 1..Len(y) : z[Len(x) + i] = y[i]
  BY DEF IsJoin
<1> QED
  BY <1>1, <1>2, <1>3

LEMMA PartOfSeq ==
    ASSUME NEW T, NEW q \in Seq(T), NEW m \in Nat \ {0}, NEW k \in Nat, m <= k + 1, k <= Len(q),
           NEW z, PartOf(z, q, m, k)
    PROVE  /\ z \in Seq(T) /\ Len(z) = k + 1 - m
           /\ \A i \in 1..(k + 1 - m) : z[i] = q[(m - 1) + i]
<1>1. z \in Seq(T)
  BY DEF PartOf
<1>2. Len(z) = k + 1 - m
  BY DEF PartOf
<1>3. \A i \in 1..(k + 1 - m) : z[i] = q[(m - 1) + i]
  BY DEF PartOf
<1> QED
  BY <1>1, <1>2, <1>3

LEMMA FrontIsPrefix ==
    ASSUME NEW q \in Paths
    PROVE  /\ Front(q) \in Seq(Names) /\ Len(Front(q)) = Len(q) - 1
           /\ \A i \in 1..(Len(q) - 1) : Front(q)[i] = q[i]
<1> DEFINE k == Len(q) - 1
<1>1. q \in Seq(Names) /\ k \in Nat /\ k <= Len(q)
  BY PathsAreLists
<1> HIDE DEF k
<1>2. /\ SubSeq(q, 1, k) \in Seq(Names) /\ Len(SubSeq(q, 1, k)) = k
      /\ \A i \in 1..k : SubSeq(q, 1, k)[i] = q[i]
  BY <1>1
<1> QED
  BY <1>2 DEF Front, k

(* Whatever a path of a tree begins with is a directory of the tree. *)
LEMMA TreeIsClosed ==
    ASSUME NEW t, IsTree(t), NEW p \in Paths, NEW q \in DOMAIN t, IsPrefix(p, q), p # q
    PROVE  p \in DOMAIN t /\ t[p] = Dir
<1> DEFINE Bad == {n \in Nat : \E r \in DOMAIN t : /\ Len(r) = n /\ IsPrefix(p, r) /\ p # r
                                                   /\ ~(p \in DOMAIN t /\ t[p] = Dir)}
<1>1. DOMAIN t \subseteq Paths
  BY DEF IsTree
<1>2. ASSUME Bad # {}
      PROVE  FALSE
  <2>1. PICK n \in Bad : \A y \in Bad : n =< y
    <3>1. Bad \in SUBSET Nat
      OBVIOUS
    <3> HIDE DEF Bad
    <3> QED
      BY <3>1, <1>2, LeastNumber
  <2>2. PICK r \in DOMAIN t : /\ Len(r) = n /\ IsPrefix(p, r) /\ p # r
                               /\ ~(p \in DOMAIN t /\ t[p] = Dir)
    BY <2>1
  <2>3. /\ r \in Paths /\ r \in Seq(Names) /\ p \in Seq(Names)
        /\ n \in Nat /\ Len(p) \in Nat /\ Len(p) >= 1
    BY <1>1, <2>2, PathsAreLists
  <2>4. Len(p) <= n /\ \A i \in 1..Len(p) : p[i] = r[i]
    BY <2>2, <2>3, PrefixesAgree
  <2>5. Len(p) # n
    BY <2>2, <2>3, <2>4, SeqEqual
  <2> DEFINE f == Front(r)
  <2>6. f \in Seq(Names) /\ Len(f) = n - 1 /\ \A i \in 1..(n - 1) : f[i] = r[i]
    BY <2>2, <2>3, FrontIsPrefix
  <2> HIDE DEF f
  <2>7. IsPrefix(p, f)
    <3>1. Len(p) \in Nat /\ Len(p) <= n - 1 /\ 1..Len(p) \subseteq 1..(n - 1)
      BY <2>3, <2>4, <2>5
    <3>2. Len(p) <= Len(f) /\ \A i \in 1..Len(p) : p[i] = f[i]
      BY <3>1, <2>4, <2>6
    <3> QED
      BY <3>2, <2>3, <2>6, PrefixesAgree
  <2>8. f # <<>>
    BY <2>3, <2>4, <2>5, <2>6
  <2>9. f \in DOMAIN t /\ t[f] = Dir
    BY <2>2, <2>8 DEF IsTree, f
  <2>10. CASE p = f
    BY <2>2, <2>9, <2>10
  <2>11. CASE p # f
    <3>1. n - 1 \in Nat /\ n - 1 < n
      BY <2>3, <2>4, <2>5
    <3>2. n - 1 \in Bad
      BY <3>1, <2>2, <2>6, <2>7, <2>9, <2>11
    <3> QED
      BY <3>1, <3>2, <2>1
  <2> QED
    BY <2>10, <2>11
<1>3. q \in Paths /\ Len(q) \in Nat
  BY <1>1, PathsAreLists
<1> QED
  BY <1>2, <1>3

(* Where a path below one directory is put below another. *)
Put(src, dst, r) == dst \o SubSeq(r, Len(src) + 1, Len(r))

LEMMA MovedPath ==
    ASSUME NEW src \in Paths, NEW dst \in Paths, NEW r \in Paths, IsPrefix(src, r)
    PROVE  LET s == Put(src, dst, r) IN
           /\ s \in Seq(Names) /\ Len(s) = Len(dst) + Len(r) - Len(src) /\ Len(r) >= Len(src)
           /\ IsPrefix(dst, s)
           /\ Put(dst, src, s) = r
           /\ r = src => s = dst
           /\ r # src => /\ Front(r) # <<>> /\ IsPrefix(src, Front(r))
                          /\ Front(s) = Put(src, dst, Front(r))
<1> DEFINE a == Len(src)
           b == Len(dst)
           n == Len(r)
           end == SubSeq(r, a + 1, n)
           s == Put(src, dst, r)
<1>1. /\ src \in Seq(Names) /\ dst \in Seq(Names) /\ r \in Seq(Names)
      /\ a \in Nat /\ b \in Nat /\ n \in Nat /\ a >= 1 /\ b >= 1
  BY PathsAreLists
<1>2. a <= n /\ \A i \in 1..a : src[i] = r[i]
  BY <1>1, PrefixesAgree
<1>3. end \in Seq(Names) /\ Len(end) = n - a /\ \A i \in 1..(n - a) : end[i] = r[a + i]
  BY <1>1, <1>2
<1>10. IsJoin(s, dst, end)
  BY DEF IsJoin, Put
<1> HIDE DEF end, s
<1>4. /\ s \in Seq(Names) /\ Len(s) = b + n - a
      /\ \A i \in 1..b : s[i] = dst[i]
      /\ \A i \in 1..(n - a) : s[b + i] = r[a + i]
  <2>1. /\ s \in Seq(Names) /\ Len(s) = b + Len(end)
        /\ \A i \in 1..b : s[i] = dst[i]
        /\ \A i \in 1..Len(end) : s[b + i] = end[i]
    <3>1. dst \in Seq(Names) /\ end \in Seq(Names)
      BY <1>1, <1>3
    <3> QED
      BY <3>1, <1>10, ConcatParts
  <2>3. ASSUME NEW i \in 1..(n - a)
        PROVE  s[b + i] = r[a + i]
    <3>1. i \in 1..Len(end) /\ end[i] = r[a + i]
      BY <1>3
    <3> HIDE DEF a, b, n
    <3> QED
      BY <3>1, <2>1
  <2>4. Len(s) = b + n - a
    BY <1>1, <1>2, <1>3, <2>1
  <2> HIDE DEF a, b, n
  <2> QED
    BY <2>1, <2>3, <2>4
<1>5. IsPrefix(dst, s)
  <2>1. Len(dst) <= Len(s) /\ \A i \in 1..Len(dst) : dst[i] = s[i]
    BY <1>1, <1>2, <1>4
  <2> QED
    BY <2>1, <1>1, <1>4, PrefixesAgree
<1>6. Put(dst, src, s) = r
  <2> DEFINE tail == SubSeq(s, b + 1, Len(s))
             both == src \o tail
  <2>1. tail \in Seq(Names) /\ Len(tail) = n - a /\ \A i \in 1..(n - a) : tail[i] = s[b + i]
    <3> DEFINE c == Len(s)
               d == b + 1
    <3>1. s \in Seq(Names) /\ d \in Nat \ {0} /\ c \in Nat /\ d <= c + 1 /\ c + 1 - d = n - a /\ d - 1 = b
      BY <1>1, <1>2, <1>4
    <3>3. PartOf(tail, s, d, c)
      BY DEF PartOf
    <3> HIDE DEF a, b, n, d, c, tail
    <3>2. tail \in Seq(Names) /\ Len(tail) = c + 1 - d /\ \A i \in 1..(c + 1 - d) : tail[i] = s[(d - 1) + i]
      BY <3>1, <3>3, PartOfSeq DEF c
    <3> QED
      BY <3>1, <3>2
  <2> HIDE DEF tail
  <2>2. /\ both \in Seq(Names) /\ Len(both) = n
        /\ \A i \in 1..a : both[i] = src[i]
        /\ \A i \in (a + 1)..n : both[i] = tail[i - a]
    BY <1>1, <1>2, <2>1
  <2> HIDE DEF both
  <2>3. ASSUME NEW i \in 1..n
        PROVE  both[i] = r[i]
    <3>1. CASE i <= a
      BY <3>1, <1>1, <1>2, <2>2
    <3>2. CASE i > a
      <4>1. i \in (a + 1)..n /\ i - a \in 1..(n - a) /\ a + (i - a) = i
        BY <3>2, <1>1, <1>2
      <4> QED
        BY <4>1, <1>4, <2>1, <2>2
    <3> QED
      BY <3>1, <3>2, <1>1
  <2> QED
    BY <2>2, <2>3, <1>1, SeqEqual DEF both, tail, Put
<1>7. ASSUME r = src
      PROVE  s = dst
  <2>1. Len(s) = b
    BY <1>1, <1>4, <1>7
  <2> QED
    BY <2>1, <1>1, <1>4, SeqEqual
<1>8. ASSUME r # src
      PROVE  /\ Front(r) # <<>> /\ IsPrefix(src, Front(r))
             /\ Front(s) = Put(src, dst, Front(r))
  <2>1. a < n
    BY <1>1, <1>2, <1>8, SeqEqual
  <2> DEFINE f == Front(r)
  <2>2. f \in Seq(Names) /\ Len(f) = n - 1 /\ \A i \in 1..(n - 1) : f[i] = r[i]
    BY FrontIsPrefix
  <2> HIDE DEF f
  <2>3. f # <<>>
    BY <1>1, <2>1, <2>2
  <2>4. IsPrefix(src, f)
    <3>1. Len(src) <= Len(f) /\ \A i \in 1..Len(src) : src[i] = f[i]
      BY <1>1, <1>2, <2>1, <2>2
    <3> QED
      BY <3>1, <1>1, <2>2, PrefixesAgree
  <2> DEFINE rest == SubSeq(f, a + 1, Len(f))
             u == dst \o rest
             v == SubSeq(s, 1, Len(s) - 1)
  <2>5. rest \in Seq(Names) /\ Len(rest) = n - 1 - a /\ \A i \in 1..(n - 1 - a) : rest[i] = f[a + i]
    BY <1>1, <2>1, <2>2
  <2> HIDE DEF rest
  <2>6. /\ u \in Seq(Names) /\ Len(u) = b + n - 1 - a
        /\ \A i \in 1..b : u[i] = dst[i]
        /\ \A i \in (b + 1)..(b + n - 1 - a) : u[i] = rest[i - b]
    <3>1. /\ u \in Seq(Names) /\ Len(u) = b + Len(rest) /\ \A i \in 1..b : u[i] = dst[i]
          /\ \A i \in 1..Len(rest) : u[b + i] = rest[i]
      <4>1. IsJoin(u, dst, rest)
        BY DEF IsJoin
      <4>2. dst \in Seq(Names) /\ rest \in Seq(Names)
        BY <1>1, <2>5
      <4> HIDE DEF u
      <4> QED
        BY <4>1, <4>2, ConcatParts
    <3> HIDE DEF u
    <3>2. ASSUME NEW i \in (b + 1)..(b + n - 1 - a)
          PROVE  u[i] = rest[i - b]
      <4>1. i - b \in 1..Len(rest) /\ b + (i - b) = i
        BY <1>1, <2>1, <2>5
      <4> QED
        BY <4>1, <3>1
    <3>3. Len(u) = b + n - 1 - a
      BY <3>1, <1>1, <2>1, <2>5
    <3> QED
      BY <3>1, <3>2, <3>3
  <2> HIDE DEF u
  <2>7. v \in Seq(Names) /\ Len(v) = b + n - 1 - a /\ \A i \in 1..(b + n - 1 - a) : v[i] = s[i]
    BY <1>1, <1>4, <2>1
  <2> HIDE DEF v
  <2>8. ASSUME NEW i \in 1..(b + n - 1 - a)
        PROVE  u[i] = v[i]
    <3>1. CASE i <= b
      BY <3>1, <1>1, <1>4, <2>6, <2>7
    <3>2. CASE i > b
      <4>1. /\ i - b \in 1..(n - a) /\ i - b \in 1..(n - 1 - a) /\ b + (i - b) = i
            /\ a + (i - b) \in 1..(n - 1) /\ i \in (b + 1)..(b + n - 1 - a)
        BY <3>2, <1>1, <2>1
      <4>2. u[i] = f[a + (i - b)] /\ f[a + (i - b)] = r[a + (i - b)]
        BY <4>1, <2>2, <2>5, <2>6
      <4>3. s[b + (i - b)] = r[a + (i - b)]
        BY <4>1, <1>4
      <4>4. v[i] = s[i]
        BY <2>7
      <4> QED
        BY <4>1, <4>2, <4>3, <4>4
    <3> QED
      BY <3>1, <3>2, <1>1
  <2>9. u = v
    BY <2>6, <2>7, <2>8, SeqEqual
  <2> QED
    BY <2>3, <2>4, <2>9 DEF f, u, v, rest, Front, Put
<1> QED
  BY <1>1, <1>2, <1>4, <1>5, <1>6, <1>7, <1>8 DEF s

(* What is moved, and what is left where it was, are a tree again. *)
LEMMA MovedIsTree ==
    ASSUME NEW t, IsTree(t), NEW src \in Paths, NEW dst \in Paths,
           ~IsPrefix(src, dst), src \in DOMAIN t, Replaces(t, src, dst),
           Front(dst) = <<>> \/ (Front(dst) \in DOMAIN t /\ t[Front(dst)] = Dir),
           \A q \in DOMAIN t : IsPrefix(src, q) => Len(dst) + Len(q) - Len(src) <= Depth
    PROVE  IsTree(Moved(t, src, dst))
<1> DEFINE kept == {q \in DOMAIN t : ~IsPrefix(src, q)}
           At(q) == Put(src, dst, q)
           moved == {q \in DOMAIN t : IsPrefix(src, q)}
           m == Moved(t, src, dst)
<1>1. /\ DOMAIN m = (kept \ {dst}) \cup {At(r) : r \in moved}
      /\ \A q \in DOMAIN m : m[q] = IF IsPrefix(dst, q) THEN t[Put(dst, src, q)] ELSE t[q]
  BY DEF Moved, Put
<1> HIDE DEF m
<1>2. DOMAIN t \subseteq Paths
  BY DEF IsTree
<1>3. ASSUME NEW q \in kept, q # dst
      PROVE  q \in DOMAIN m /\ ~IsPrefix(dst, q) /\ m[q] = t[q]
  <2>1. ~IsPrefix(dst, q)
    <3>1. ASSUME IsPrefix(dst, q)
          PROVE  FALSE
      <4>1. dst \in DOMAIN t /\ t[dst] = Dir
        BY <1>3, <3>1, TreeIsClosed
      <4>2. q \in {x \in DOMAIN t : IsStrictPrefix(dst, x)}
        BY <1>3, <3>1 DEF IsStrictPrefix
      <4> QED
        BY <4>1, <4>2 DEF Replaces
    <3> QED
      BY <3>1
  <2> QED
    BY <2>1, <1>1, <1>3
<1>4. ASSUME NEW r \in moved
      PROVE  At(r) \in DOMAIN m /\ At(r) \in Paths /\ m[At(r)] = t[r]
  <2> DEFINE s == At(r)
  <2>1. r \in Paths /\ IsPrefix(src, r) /\ r \in DOMAIN t
    BY <1>2
  <2>2. /\ s \in Seq(Names) /\ Len(s) = Len(dst) + Len(r) - Len(src) /\ Len(r) >= Len(src)
        /\ IsPrefix(dst, s)
        /\ Put(dst, src, s) = r
    BY <2>1, MovedPath
  <2>3. s \in DOMAIN m
    BY <1>1
  <2> HIDE DEF s
  <2>4. Len(s) \in 1..Depth
    <3>1. Len(dst) \in Nat /\ Len(src) \in Nat /\ Len(r) \in Nat /\ Len(dst) >= 1 /\ Depth \in Nat
      BY <2>1, PathsAreLists, FilesAssumption
    <3>2. Len(dst) + Len(r) - Len(src) <= Depth
      BY <2>1
    <3> QED
      BY <3>1, <3>2, <2>2
  <2>5. m[s] = t[r]
    BY <1>1, <2>2, <2>3
  <2> QED
    BY <2>2, <2>3, <2>4, <2>5, PathsAreLists DEF s
<1>5. ASSUME NEW q \in kept, q # dst
      PROVE  Front(q) = <<>> \/ (Front(q) \in DOMAIN m /\ m[Front(q)] = Dir)
  <2> SUFFICES ASSUME Front(q) # <<>>
               PROVE  Front(q) \in DOMAIN m /\ m[Front(q)] = Dir
    OBVIOUS
  <2> DEFINE f == Front(q)
  <2>1. f \in DOMAIN t /\ t[f] = Dir /\ f \in Paths /\ q \in Paths
    BY <1>2 DEF IsTree
  <2>2. f \in Seq(Names) /\ Len(f) = Len(q) - 1 /\ \A i \in 1..(Len(q) - 1) : f[i] = q[i]
    BY <2>1, FrontIsPrefix
  <2>3. /\ q \in Seq(Names) /\ Len(q) \in Nat
        /\ src \in Seq(Names) /\ Len(src) \in Nat /\ dst \in Seq(Names) /\ Len(dst) \in Nat
    BY <2>1, PathsAreLists
  <2> HIDE DEF f
  <2>4. ~IsPrefix(src, f)
    <3>1. ASSUME IsPrefix(src, f)
          PROVE  FALSE
      <4>1. Len(src) <= Len(f) /\ \A i \in 1..Len(src) : src[i] = f[i]
        BY <3>1, <2>2, <2>3, PrefixesAgree
      <4>2. Len(src) <= Len(q) /\ \A i \in 1..Len(src) : src[i] = q[i]
        BY <4>1, <2>2, <2>3
      <4> QED
        BY <4>2, <2>3, PrefixesAgree
    <3> QED
      BY <3>1
  <2>5. f # dst
    <3>1. ASSUME f = dst
          PROVE  FALSE
      <4>1. Len(dst) <= Len(q) /\ \A i \in 1..Len(dst) : dst[i] = q[i]
        BY <3>1, <2>2, <2>3
      <4>2. IsPrefix(dst, q)
        BY <4>1, <2>3, PrefixesAgree
      <4> QED
        BY <4>2, <1>3, <1>5
    <3> QED
      BY <3>1
  <2>6. f \in kept
    BY <2>1, <2>4
  <2>7. f \in DOMAIN m /\ m[f] = t[f]
    BY <2>5, <2>6, <1>3
  <2> QED
    BY <2>1, <2>7 DEF f
<1>6. Front(dst) = <<>> \/ (Front(dst) \in DOMAIN m /\ m[Front(dst)] = Dir)
  <2> SUFFICES ASSUME Front(dst) # <<>>
               PROVE  Front(dst) \in DOMAIN m /\ m[Front(dst)] = Dir
    OBVIOUS
  <2> DEFINE f == Front(dst)
  <2>1. f \in DOMAIN t /\ t[f] = Dir
    OBVIOUS
  <2>2. f \in Seq(Names) /\ Len(f) = Len(dst) - 1 /\ \A i \in 1..(Len(dst) - 1) : f[i] = dst[i]
    BY FrontIsPrefix
  <2>3. src \in Seq(Names) /\ Len(src) \in Nat /\ dst \in Seq(Names) /\ Len(dst) \in Nat
    BY PathsAreLists
  <2> HIDE DEF f
  <2>4. ~IsPrefix(src, f)
    <3>1. ASSUME IsPrefix(src, f)
          PROVE  FALSE
      <4>1. Len(src) <= Len(f) /\ \A i \in 1..Len(src) : src[i] = f[i]
        BY <3>1, <2>2, <2>3, PrefixesAgree
      <4>2. Len(src) <= Len(dst) /\ \A i \in 1..Len(src) : src[i] = dst[i]
        BY <4>1, <2>2, <2>3
      <4> QED
        BY <4>2, <2>3, PrefixesAgree
    <3> QED
      BY <3>1
  <2>5. f # dst
    BY <2>2, <2>3
  <2>6. f \in kept
    BY <2>1, <2>4
  <2>7. f \in DOMAIN m /\ m[f] = t[f]
    BY <2>5, <2>6, <1>3
  <2> QED
    BY <2>1, <2>7 DEF f
<1>7. ASSUME NEW r \in moved
      PROVE  Front(At(r)) = <<>> \/ (Front(At(r)) \in DOMAIN m /\ m[Front(At(r))] = Dir)
  <2>1. r \in Paths /\ IsPrefix(src, r) /\ r \in DOMAIN t
    BY <1>2
  <2>2. /\ r = src => At(r) = dst
        /\ r # src => /\ Front(r) # <<>> /\ IsPrefix(src, Front(r))
                       /\ Front(At(r)) = At(Front(r))
    BY <2>1, MovedPath
  <2>3. CASE r = src
    <3>1. At(r) = dst
      BY <2>2, <2>3
    <3> HIDE DEF At
    <3> QED
      BY <3>1, <1>6
  <2>4. CASE r # src
    <3>1. Front(r) \in DOMAIN t /\ t[Front(r)] = Dir
      BY <2>1, <2>2, <2>4 DEF IsTree
    <3>2. Front(r) \in moved /\ Front(At(r)) = At(Front(r))
      BY <3>1, <2>2, <2>4
    <3>3. At(Front(r)) \in DOMAIN m /\ m[At(Front(r))] = Dir
      BY <3>1, <3>2, <1>4
    <3> HIDE DEF At
    <3> QED
      BY <3>2, <3>3
  <2> QED
    BY <2>3, <2>4
<1>8. ASSUME NEW q \in DOMAIN m
      PROVE  /\ q \in Paths /\ m[q] \in Contents \cup {Dir}
             /\ Front(q) = <<>> \/ (Front(q) \in DOMAIN m /\ m[Front(q)] = Dir)
  <2>1. CASE q \in kept /\ q # dst
    <3>1. m[q] = t[q] /\ t[q] \in Contents \cup {Dir} /\ q \in Paths
      BY <2>1, <1>2, <1>3 DEF IsTree
    <3> QED
      BY <3>1, <2>1, <1>5
  <2>2. CASE ~(q \in kept /\ q # dst)
    <3>1. PICK r \in moved : q = At(r)
      BY <2>2, <1>1
    <3>2. t[r] \in Contents \cup {Dir}
      BY DEF IsTree
    <3>3. q \in Paths /\ m[q] = t[r]
      BY <3>1, <1>4
    <3> QED
      BY <3>1, <3>2, <3>3, <1>7
  <2> QED
    BY <2>1, <2>2
<1>9. IsTree(m)
  BY <1>8 DEF IsTree
<1> QED
  BY <1>9 DEF m

(* The harness files, one after the other. *)
LEMMA ScaffoldIsTree ==
    ASSUME IsTree(tree), \A p \in Harness : CanMake(p) /\ ~IsDir(p), NEW c \in Contents
    PROVE  IsTree([p \in DOMAIN tree \cup Harness \cup UNION {Above(q) : q \in Harness} |->
                     IF p \in Harness THEN c ELSE IF p \in DOMAIN tree THEN tree[p] ELSE Dir])
<1> DEFINE above == UNION {Above(q) : q \in Harness}
           t == [p \in DOMAIN tree \cup Harness \cup above |->
                   IF p \in Harness THEN c ELSE IF p \in DOMAIN tree THEN tree[p] ELSE Dir]
<1>1. /\ DOMAIN t = DOMAIN tree \cup Harness \cup above
      /\ \A p \in Harness : t[p] = c
      /\ \A p \in DOMAIN tree : p \notin Harness => t[p] = tree[p]
      /\ \A p \in above : p \notin Harness /\ p \notin DOMAIN tree => t[p] = Dir
  OBVIOUS
<1>2. Harness \subseteq Paths /\ \A p, q \in Harness : p \notin Above(q)
  BY FilesAssumption
<1>3. /\ above \subseteq Paths
      /\ \A p \in above \cup Harness : Front(p) = <<>> \/ Front(p) \in above
  BY <1>2, AboveIsShorter
<1>4. above \cap Harness = {}
  BY <1>2
<1>5. <<>> \notin Paths
  BY PathsAreLists
<1>6. \A p \in above : p \in DOMAIN tree => tree[p] = Dir
  BY <1>3, <1>5 DEF CanMake, Exists, IsDir
<1> HIDE DEF t, above
<1>7. \A p \in above : t[p] = Dir
  BY <1>1, <1>4, <1>6
<1>8. \A p \in DOMAIN tree : tree[p] = Dir => p \notin Harness
  BY DEF IsDir
<1>9. ASSUME NEW p \in DOMAIN t
      PROVE  /\ p \in Paths /\ t[p] \in Contents \cup {Dir}
             /\ Front(p) = <<>> \/ (Front(p) \in DOMAIN t /\ t[Front(p)] = Dir)
  <2>1. CASE p \in Harness \cup above
    BY <2>1, <1>1, <1>2, <1>3, <1>7
  <2>2. CASE p \notin Harness \cup above
    <3>1. p \in DOMAIN tree /\ t[p] = tree[p]
      BY <2>2, <1>1
    <3>2. /\ p \in Paths /\ tree[p] \in Contents \cup {Dir}
          /\ Front(p) = <<>> \/ (Front(p) \in DOMAIN tree /\ tree[Front(p)] = Dir)
      BY <3>1 DEF IsTree
    <3>3. ASSUME Front(p) # <<>>
          PROVE  Front(p) \in DOMAIN t /\ t[Front(p)] = Dir
      <4>1. Front(p) \in DOMAIN tree /\ tree[Front(p)] = Dir /\ Front(p) \notin Harness
        BY <3>2, <3>3, <1>8
      <4> QED
        BY <4>1, <1>1
    <3> QED
      BY <3>1, <3>2, <3>3
  <2> QED
    BY <2>1, <2>2
<1>10. IsTree(t)
  BY <1>9 DEF IsTree
<1> QED
  BY <1>10 DEF t, above

(* What is written to a path of the folder, or made there. *)
LEMMA WrittenIsTree ==
    ASSUME IsTree(tree), NEW p \in Paths, CanMake(p), ~IsDir(p), NEW c \in Contents
    PROVE  IsTree([Made(tree, Above(p) \cup {p}) EXCEPT ![p] = c])
<1> DEFINE t == [Made(tree, Above(p) \cup {p}) EXCEPT ![p] = c]
<1>1. DOMAIN t = DOMAIN tree \cup Above(p) \cup {p} /\ t[p] = c
  BY DEF Made
<1>2. \A q \in (DOMAIN tree \cup Above(p)) \ {p} : t[q] = Made(tree, Above(p))[q]
  BY DEF Made
<1> HIDE DEF t
<1>3. IsTree(t)
  BY <1>1, <1>2, PutIsTree
<1> QED
  BY <1>3 DEF t

LEMMA DirectoryIsTree ==
    ASSUME IsTree(tree), NEW p \in Paths, CanMake(p), ~Exists(p)
    PROVE  IsTree(Made(tree, Above(p) \cup {p}))
<1> DEFINE t == Made(tree, Above(p) \cup {p})
<1>1. p \notin DOMAIN tree /\ ~IsDir(p)
  BY DEF Exists, IsDir
<1>2. DOMAIN t = DOMAIN tree \cup Above(p) \cup {p} /\ t[p] = Dir
  BY <1>1 DEF Made
<1>3. \A q \in (DOMAIN tree \cup Above(p)) \ {p} : t[q] = Made(tree, Above(p))[q]
  BY DEF Made
<1> HIDE DEF t
<1>4. IsTree(t)
  BY <1>1, <1>2, <1>3, PutIsTree
<1> QED
  BY <1>4 DEF t

LEMMA DeletedIsTree ==
    ASSUME IsTree(tree), NEW p \in Paths
    PROVE  IsTree([q \in DOMAIN tree \ Below(p) |-> tree[q]])
<1> DEFINE t == [q \in DOMAIN tree \ Below(p) |-> tree[q]]
<1>1. DOMAIN t = DOMAIN tree \ Below(p) /\ \A q \in DOMAIN t : t[q] = tree[q]
  OBVIOUS
<1> HIDE DEF t
<1>2. ASSUME NEW q \in DOMAIN t
      PROVE  /\ q \in Paths /\ t[q] \in Contents \cup {Dir}
             /\ Front(q) = <<>> \/ (Front(q) \in DOMAIN t /\ t[Front(q)] = Dir)
  <2> DEFINE f == Front(q)
  <2>1. /\ q \in DOMAIN tree /\ q \in Paths /\ tree[q] \in Contents \cup {Dir}
        /\ f = <<>> \/ (f \in DOMAIN tree /\ tree[f] = Dir)
    BY <1>1 DEF IsTree
  <2>2. f \in Seq(Names) /\ Len(f) = Len(q) - 1 /\ \A i \in 1..(Len(q) - 1) : f[i] = q[i]
    BY <2>1, FrontIsPrefix
  <2>3. q \in Seq(Names) /\ Len(q) \in Nat /\ p \in Seq(Names) /\ Len(p) \in Nat
    BY <2>1, PathsAreLists
  <2> HIDE DEF f
  <2>4. IsPrefix(p, f) => IsPrefix(p, q)
    <3>1. ASSUME IsPrefix(p, f)
          PROVE  IsPrefix(p, q)
      <4>1. Len(p) <= Len(f) /\ \A i \in 1..Len(p) : p[i] = f[i]
        BY <3>1, <2>2, <2>3, PrefixesAgree
      <4>2. Len(p) <= Len(q) /\ \A i \in 1..Len(p) : p[i] = q[i]
        BY <4>1, <2>2, <2>3
      <4> QED
        BY <4>2, <2>3, PrefixesAgree
    <3> QED
      BY <3>1
  <2>5. f \in DOMAIN tree => f \in DOMAIN t
    BY <2>4, <1>1 DEF Below
  <2> QED
    BY <2>1, <2>5, <1>1 DEF f
<1>3. IsTree(t)
  BY <1>2 DEF IsTree
<1> QED
  BY <1>3 DEF t

LEMMA RenamedIsTree ==
    ASSUME IsTree(tree), NEW src \in Paths, NEW dst \in Paths, Exists(src), CanMake(dst),
           \A q \in Below(src) : Len(dst) + Len(q) - Len(src) <= Depth
    PROVE  LET made == Made(tree, Above(dst)) IN
           /\ IsTree(made)
           /\ src # dst /\ ~IsPrefix(src, dst) /\ Replaces(made, src, dst) => IsTree(Moved(made, src, dst))
<1> DEFINE made == Made(tree, Above(dst))
<1>1. /\ IsTree(made) /\ DOMAIN made = DOMAIN tree \cup Above(dst)
      /\ \A q \in Above(dst) : made[q] = Dir
  BY MadeIsTree
<1>2. src \in DOMAIN tree
  <2>1. src # <<>>
    BY PathsAreLists
  <2> QED
    BY <2>1 DEF Exists
<1> HIDE DEF made
<1>3. ASSUME src # dst, ~IsPrefix(src, dst), Replaces(made, src, dst)
      PROVE  IsTree(Moved(made, src, dst))
  <2>1. Front(dst) = <<>> \/ (Front(dst) \in DOMAIN made /\ made[Front(dst)] = Dir)
    BY <1>1, AboveIsShorter
  <2>2. ASSUME NEW q \in DOMAIN made, IsPrefix(src, q)
        PROVE  Len(dst) + Len(q) - Len(src) <= Depth
    <3>1. q \notin Above(dst)
      <4>1. ASSUME q \in Above(dst)
            PROVE  FALSE
        <5>1. q \in Paths
          BY <4>1, AboveIsShorter
        <5>2. PICK m \in 1..(Len(dst) - 1) : q = SubSeq(dst, 1, m)
          BY <4>1 DEF Above
        <5>3. /\ dst \in Seq(Names) /\ src \in Seq(Names) /\ q \in Seq(Names)
              /\ Len(dst) \in Nat /\ Len(src) \in Nat
          BY <5>1, PathsAreLists
        <5>4. Len(q) = m /\ \A i \in 1..m : q[i] = dst[i]
          BY <5>2, <5>3
        <5>5. Len(src) <= Len(q) /\ \A i \in 1..Len(src) : src[i] = q[i]
          BY <2>2, <5>3, PrefixesAgree
        <5>6. Len(src) <= Len(dst) /\ \A i \in 1..Len(src) : src[i] = dst[i]
          BY <5>3, <5>4, <5>5
        <5> QED
          BY <1>3, <5>3, <5>6, PrefixesAgree
      <4> QED
        BY <4>1
    <3>2. q \in Below(src)
      BY <1>1, <2>2, <3>1 DEF Below
    <3> QED
      BY <3>2
  <2>3. src \in DOMAIN made
    BY <1>1, <1>2
  <2> QED
    BY <1>1, <1>3, <2>1, <2>2, <2>3, MovedIsTree
<1> QED
  BY <1>1, <1>3 DEF made

LEMMA FilesStart == FilesInit => FilesTypeOK
BY DEF FilesInit, FilesTypeOK

LEMMA FilesStay ==
    ASSUME FilesTypeOK, [FilesNext]_filesVars
    PROVE  FilesTypeOK'
<1>1. IsTree(tree) /\ manifest \subseteq Paths
  BY FilesAreATree
<1>2. IsTree(tree') /\ manifest' \subseteq Paths => FilesTypeOK'
  BY DEF FilesTypeOK, IsTree, IsDir
<1>3. \A p : Exists(p) /\ p # <<>> => p \in Paths
  BY <1>1 DEF Exists, IsTree
<1>4. CASE UNCHANGED filesVars
  BY <1>1, <1>2, <1>4 DEF filesVars
<1>5. ASSUME NEW text \in Texts, NEW c \in Contents, WriteFile(text, c)
      PROVE  FilesTypeOK'
  <2> DEFINE p == SafeJoin(text)
  <2>1. /\ CanMake(p) /\ p \in Paths /\ ~IsDir(p)
        /\ tree' = [Made(tree, Above(p) \cup {p}) EXCEPT ![p] = c]
        /\ manifest' = manifest
    BY <1>5 DEF WriteFile
  <2> HIDE DEF p
  <2> QED
    BY <1>1, <1>2, <2>1, WrittenIsTree
<1>6. ASSUME NEW text \in Texts, DeleteFile(text)
      PROVE  FilesTypeOK'
  <2> DEFINE p == SafeJoin(text)
  <2>1. /\ Exists(p) /\ p # <<>> /\ manifest' = manifest
        /\ tree' = [q \in DOMAIN tree \ Below(p) |-> tree[q]]
    BY <1>6 DEF DeleteFile
  <2> HIDE DEF p
  <2> QED
    BY <1>1, <1>2, <1>3, <2>1, DeletedIsTree
<1>7. ASSUME NEW text \in Texts, MakeDir(text)
      PROVE  FilesTypeOK'
  <2> DEFINE p == SafeJoin(text)
  <2>1. /\ p \in Paths /\ ~Exists(p) /\ CanMake(p) /\ manifest' = manifest
        /\ tree' = Made(tree, Above(p) \cup {p})
    BY <1>7 DEF MakeDir
  <2> HIDE DEF p
  <2> QED
    BY <1>1, <1>2, <2>1, DirectoryIsTree
<1>8. ASSUME NEW text \in Texts, NEW to \in Texts, RenameFile(text, to)
      PROVE  FilesTypeOK'
  <2> DEFINE src == SafeJoin(text)
             dst == SafeJoin(to)
             made == Made(tree, Above(dst))
  <2>1. src \in Paths /\ dst \in Paths
    BY <1>3, <1>8 DEF RenameFile
  <2>2. /\ Exists(src) /\ CanMake(dst)
        /\ \A q \in Below(src) : Len(dst) + Len(q) - Len(src) <= Depth
        /\ tree' = IF src = dst \/ IsPrefix(src, dst) \/ ~Replaces(made, src, dst)
                   THEN made ELSE Moved(made, src, dst)
        /\ manifest' = manifest
    BY <1>8 DEF RenameFile
  <2> HIDE DEF src, dst
  <2>3. /\ IsTree(made)
        /\ src # dst /\ ~IsPrefix(src, dst) /\ Replaces(made, src, dst) => IsTree(Moved(made, src, dst))
    BY <1>1, <2>1, <2>2, RenamedIsTree
  <2> HIDE DEF made
  <2>4. IsTree(tree')
    BY <2>2, <2>3
  <2> QED
    BY <1>1, <1>2, <2>2, <2>4
<1>9. ASSUME NEW c \in Contents, ScaffoldHarness(c)
      PROVE  FilesTypeOK'
  BY <1>1, <1>2, <1>9, ScaffoldIsTree DEF ScaffoldHarness
<1>10. ASSUME NEW c \in Contents, NEW p \in Paths, CommandWrites(p, c)
       PROVE  FilesTypeOK'
  BY <1>1, <1>2, <1>10, WrittenIsTree DEF CommandWrites
<1>11. CASE DeployUpload
  <2>1. manifest' \subseteq Paths /\ tree' = tree
    BY <1>1, <1>11 DEF DeployUpload, IsTree
  <2> QED
    BY <1>1, <1>2, <2>1
<1> QED
  BY <1>4, <1>5, <1>6, <1>7, <1>8, <1>9, <1>10, <1>11 DEF FilesNext

LEMMA ShownLeadBack == FilesTypeOK => ShownPathsLeadBack
<1> SUFFICES ASSUME FilesTypeOK, NEW p \in Listed \cup Searched,
                    ~Has(Text(p), Label), ~Has(Text(p), Root)
             PROVE  LeadsBack(p)
  BY DEF ShownPathsLeadBack
<1>1. p \in DOMAIN tree /\ p \in Paths
  BY DEF Listed, Searched, FilesTypeOK
<1>2. SafeJoin(ToVirtual(p)) = p
  BY <1>1, PathsAreLists, TextLeadsBack
<1>3. ~IsDir(p) => ReadFile(ToVirtual(p)) = tree[p]
  BY <1>1, <1>2 DEF ReadFile, Exists
<1> QED
  BY <1>2, <1>3 DEF LeadsBack
=============================================================================
