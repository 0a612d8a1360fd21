----------------------------- MODULE ViewsProofs -----------------------------
(***************************************************************************)
(* Lemmas about views and the editor (ViewSpecs), for any model, view and  *)
(* form: what selecting and sorting keep of a list, that no edit loses or  *)
(* doubles a field or makes a view that is refused, and that none shows a  *)
(* field nobody has shown.  AdminSiteProofs follows the saved file.        *)
(***************************************************************************)
EXTENDS Views, Induction

-----------------------------------------------------------------------------
(* Lists. *)

\* No element is there twice.
Distinct(s) == \A i, j \in DOMAIN s : s[i] = s[j] => i = j

\* One step of Among, and of Arranged.
Keeping(list, S, E) ==
    [c \in Nat \X Seq(E) |->
        IF c[1] < Len(list) /\ list[c[1] + 1] \in S
        THEN Append(c[2], list[c[1] + 1]) ELSE c[2]]
Placing(list, Before, E) ==
    [c \in Nat \X Seq(E) |->
        IF c[1] < Len(list) THEN Placed(c[2], list[c[1] + 1], Before) ELSE c[2]]

LEMMA Elements ==
    ASSUME NEW E, NEW s \in Seq(E)
    PROVE  /\ DOMAIN s = 1..Len(s) /\ Len(s) \in Nat /\ (s # <<>> => 1 \in DOMAIN s)
           /\ \A i \in DOMAIN s : s[i] \in E
           /\ ToSet(s) \subseteq E
<1>1. DOMAIN s = 1..Len(s) /\ Len(s) \in Nat /\ (s # <<>> => 1 \in DOMAIN s)
  OBVIOUS
<1>2. \A i \in DOMAIN s : s[i] \in E
  OBVIOUS
<1>3. QED
  BY <1>1, <1>2 DEF ToSet

LEMMA Appended ==
    ASSUME NEW E, NEW s \in Seq(E), NEW x \in E
    PROVE  /\ Append(s, x) \in Seq(E) /\ ToSet(Append(s, x)) = ToSet(s) \cup {x}
           /\ Distinct(s) /\ x \notin ToSet(s) => Distinct(Append(s, x))
<1>1. /\ Append(s, x) \in Seq(E) /\ DOMAIN Append(s, x) = 1..(Len(s) + 1)
      /\ \A i \in 1..Len(s) : Append(s, x)[i] = s[i]
      /\ Append(s, x)[Len(s) + 1] = x
      /\ DOMAIN s = 1..Len(s) /\ Len(s) \in Nat
  OBVIOUS
<1>2. 1..(Len(s) + 1) = 1..Len(s) \cup {Len(s) + 1}
  BY <1>1
<1>3. ToSet(Append(s, x)) = ToSet(s) \cup {x}
  BY <1>1, <1>2 DEF ToSet
<1>4. Distinct(s) /\ x \notin ToSet(s) => Distinct(Append(s, x))
  BY <1>1, <1>2 DEF Distinct, ToSet
<1>5. QED
  BY <1>1, <1>3, <1>4

LEMMA Joined ==
    ASSUME NEW E, NEW s \in Seq(E), NEW t \in Seq(E)
    PROVE  /\ s \o t \in Seq(E) /\ ToSet(s \o t) = ToSet(s) \cup ToSet(t)
           /\ Distinct(s) /\ Distinct(t) /\ ToSet(s) \cap ToSet(t) = {} => Distinct(s \o t)
<1> DEFINE m == Len(s)
           n == Len(t)
<1>1. /\ s \o t \in Seq(E) /\ DOMAIN (s \o t) = 1..(m + n) /\ m \in Nat /\ n \in Nat
      /\ DOMAIN s = 1..m /\ DOMAIN t = 1..n
      /\ \A i \in 1..m : (s \o t)[i] = s[i]
      /\ \A i \in 1..n : (s \o t)[m + i] = t[i]
  OBVIOUS
<1> HIDE DEF m, n
<1>2. \A i \in 1..(m + n) : i \in 1..m \/ (i - m \in 1..n /\ i = m + (i - m))
  BY <1>1
<1>3. \A i \in 1..m : i \in 1..(m + n)
  BY <1>1
<1>4. \A i \in 1..n : m + i \in 1..(m + n)
  BY <1>1
<1>5. ToSet(s \o t) = ToSet(s) \cup ToSet(t)
  <2>1. ASSUME NEW y \in ToSet(s \o t) PROVE y \in ToSet(s) \cup ToSet(t)
    <3>1. PICK i \in 1..(m + n) : y = (s \o t)[i]
      BY <1>1, <2>1 DEF ToSet
    <3>2. CASE i \in 1..m
      BY <1>1, <3>1, <3>2 DEF ToSet
    <3>3. CASE i - m \in 1..n /\ i = m + (i - m)
      BY <1>1, <3>1, <3>3 DEF ToSet
    <3>4. QED
      BY <1>2, <3>2, <3>3
  <2>2. ASSUME NEW y \in ToSet(s) PROVE y \in ToSet(s \o t)
    BY <1>1, <1>3 DEF ToSet
  <2>3. ASSUME NEW y \in ToSet(t) PROVE y \in ToSet(s \o t)
    BY <1>1, <1>4 DEF ToSet
  <2>4. QED
    BY <2>1, <2>2, <2>3
<1>6. ASSUME Distinct(s), Distinct(t), ToSet(s) \cap ToSet(t) = {},
             NEW i \in 1..(m + n), NEW j \in 1..(m + n), (s \o t)[i] = (s \o t)[j]
      PROVE  i = j
  <2>1. CASE i \in 1..m /\ j \in 1..m
    BY <1>1, <1>6, <2>1 DEF Distinct
  <2>2. CASE i - m \in 1..n /\ j - m \in 1..n
    <3>1. t[i - m] = t[j - m]
      <4>1. (s \o t)[m + (i - m)] = t[i - m] /\ (s \o t)[m + (j - m)] = t[j - m]
        BY <1>1, <2>2
      <4>2. QED
        BY <1>1, <1>6, <4>1
    <3>2. i - m = j - m
      BY <1>1, <1>6, <2>2, <3>1 DEF Distinct
    <3>3. QED
      BY <1>1, <3>2
  <2>3. ASSUME NEW a \in 1..m, NEW b \in 1..n, (s \o t)[a] = (s \o t)[m + b]
        PROVE  FALSE
    BY <1>1, <1>6, <2>3 DEF ToSet
  <2>4. QED
    BY <1>2, <1>6, <2>1, <2>2, <2>3
<1>7. QED
  BY <1>1, <1>5, <1>6 DEF Distinct

LEMMA FirstOfJoined ==
    ASSUME NEW E, NEW s \in Seq(E), NEW t \in Seq(E), 1 \in DOMAIN s
    PROVE  Len(s \o t) = Len(s) + Len(t) /\ Len(t) \in Nat /\ (s \o t)[1] = s[1]
<1> DEFINE m == Len(s)
<1>1. /\ s \o t \in Seq(E) /\ Len(s \o t) = m + Len(t) /\ m \in Nat /\ Len(t) \in Nat
      /\ DOMAIN s = 1..m
      /\ \A i \in 1..m : (s \o t)[i] = s[i]
  OBVIOUS
<1> HIDE DEF m
<1>2. QED
  BY <1>1 DEF m

LEMMA AmongUnfolds ==
    ASSUME NEW E, NEW list \in Seq(E), NEW S
    PROVE  \E g \in [0..Len(list) -> Seq(E)] :
               /\ Follows(g, Len(list), <<>>, Keeping(list, S, E))
               /\ Among(list, S) = g[Len(list)]
<1> DEFINE N == Len(list)
           F == Keeping(list, S, E)
           Body(h) == [n \in 0..N |->
                         IF n = 0 THEN <<>>
                         ELSE IF list[n] \in S THEN Append(h[n - 1], list[n]) ELSE h[n - 1]]
           all == CHOOSE h : h = Body(h)
<1>1. N \in Nat /\ \A n \in 1..N : list[n] \in E
  OBVIOUS
<1>2. F \in [Nat \X Seq(E) -> Seq(E)]
  BY <1>1, Appended DEF Keeping
<1>3. <<>> \in Seq(E)
  OBVIOUS
<1>4. PICK g \in [0..N -> Seq(E)] : Follows(g, N, <<>>, F)
  <2> HIDE DEF N, F
  <2>1. QED
    BY <1>1, <1>2, <1>3, Recursion
<1>5. g = Body(g)
  <2>1. ASSUME NEW n \in 0..N
        PROVE  g[n] = IF n = 0 THEN <<>>
                      ELSE IF list[n] \in S THEN Append(g[n - 1], list[n]) ELSE g[n - 1]
    <3>1. CASE n = 0
      BY <1>4, <3>1 DEF Follows
    <3>2. CASE n # 0
      <4>1. n - 1 \in 0..N /\ n - 1 < N /\ n - 1 + 1 = n /\ n - 1 \in Nat
        BY <1>1, <3>2
      <4>2. g[n] = F[<<n - 1, g[n - 1]>>] /\ g[n - 1] \in Seq(E)
        BY <1>4, <4>1 DEF Follows
      <4>3. QED
        BY <3>2, <4>1, <4>2 DEF Keeping
    <3>3. QED
      BY <3>1, <3>2
  <2>2. QED
    BY <1>4, <2>1
<1>6. all = Body(all)
  BY <1>5
<1>7. \A n \in 0..N : all[n] = IF n = 0 THEN <<>> ELSE IF list[n] \in S THEN Append(all[n - 1], list[n]) ELSE all[n - 1]
  BY <1>6
<1>8. Among(list, S) = all[N]
  BY DEF Among
<1> HIDE DEF all
<1>0. all[0] = <<>>
  BY <1>1, <1>7
<1>9. ASSUME NEW n \in 0..N, n < N, all[n] \in Seq(E)
      PROVE  all[n + 1] = F[<<n, all[n]>>]
  <2>1. n + 1 \in 0..N /\ n + 1 # 0 /\ n + 1 - 1 = n /\ n \in Nat
    BY <1>1, <1>9
  <2>2. all[n + 1] = IF list[n + 1] \in S THEN Append(all[n], list[n + 1]) ELSE all[n]
    BY <1>7, <2>1
  <2>3. QED
    BY <1>9, <2>1, <2>2 DEF Keeping
<1> HIDE DEF N, F
<1>10. Follows(all, N, <<>>, F)
  BY <1>0, <1>1, <1>2, <1>3, <1>9, Unfolding
<1>11. all[N] = g[N]
  BY <1>1, <1>4, <1>10, FollowsOnce
<1>12. QED
  BY <1>4, <1>8, <1>11 DEF N, F

\* The elements that are in the set, and each as often as in the list.
LEMMA AmongIs ==
    ASSUME NEW E, NEW list \in Seq(E), NEW S
    PROVE  /\ Among(list, S) \in Seq(E)
           /\ ToSet(Among(list, S)) = ToSet(list) \cap S
           /\ Distinct(list) => Distinct(Among(list, S))
<1> DEFINE N == Len(list)
           Before(n) == {list[i] : i \in 1..n}
<1>1. PICK g \in [0..N -> Seq(E)] :
          Follows(g, N, <<>>, Keeping(list, S, E)) /\ Among(list, S) = g[N]
  BY AmongUnfolds
<1>2. N \in Nat /\ DOMAIN list = 1..N /\ \A n \in 1..N : list[n] \in E
  OBVIOUS
<1> DEFINE T == {n \in 0..N : /\ ToSet(g[n]) = Before(n) \cap S
                              /\ Distinct(list) => Distinct(g[n])}
<1>3. 0 \in T
  BY <1>1, <1>2 DEF Follows, ToSet, Distinct
<1>4. ASSUME NEW n \in 0..N, n < N, n \in T PROVE n + 1 \in T
  <2>1. n + 1 \in 1..N /\ n + 1 \in 0..N /\ n \in Nat /\ 1..(n + 1) = 1..n \cup {n + 1}
    BY <1>2, <1>4
  <2>2. g[n] \in Seq(E) /\ list[n + 1] \in E
    BY <1>2, <2>1
  <2>3. g[n + 1] = IF list[n + 1] \in S THEN Append(g[n], list[n + 1]) ELSE g[n]
    BY <1>1, <1>4, <2>1, <2>2 DEF Follows, Keeping
  <2>4. Before(n + 1) = Before(n) \cup {list[n + 1]}
    BY <2>1
  <2>5. Distinct(list) => list[n + 1] \notin Before(n)
    <3>1. \A i \in 1..n : i \in 1..N /\ i # n + 1
      BY <1>4
    <3>2. QED
      BY <1>2, <2>1, <3>1 DEF Distinct
  <2> HIDE DEF Before
  <2>6. CASE list[n + 1] \in S
    <3>1. ToSet(g[n + 1]) = ToSet(g[n]) \cup {list[n + 1]}
      BY <2>2, <2>3, <2>6, Appended
    <3>2. Distinct(list) => Distinct(g[n + 1])
      BY <1>4, <2>2, <2>3, <2>5, <2>6, Appended
    <3>3. QED
      BY <1>4, <2>1, <2>4, <2>6, <3>1, <3>2
  <2>7. CASE list[n + 1] \notin S
    BY <1>4, <2>1, <2>3, <2>4, <2>7
  <2>8. QED
    BY <2>6, <2>7
<1> HIDE DEF T
<1>5. 0..N \subseteq T
  BY <1>2, <1>3, <1>4, IntervalInduction
<1>6. N \in T
  BY <1>2, <1>5
<1>7. Before(N) = ToSet(list)
  BY <1>2 DEF ToSet
<1>8. QED
  BY <1>1, <1>2, <1>6, <1>7 DEF T

LEMMA PlacedIs ==
    ASSUME NEW E, NEW done \in Seq(E), NEW x \in E, NEW Before
    PROVE  /\ Placed(done, x, Before) \in Seq(E)
           /\ ToSet(Placed(done, x, Before)) = ToSet(done) \cup {x}
           /\ Distinct(done) /\ x \notin ToSet(done) => Distinct(Placed(done, x, Before))
<1> DEFINE later == {y \in ToSet(done) : <<x, y>> \in Before}
           sooner == ToSet(done) \ later
           a == Among(done, sooner)
           b == Among(done, later)
           c == a \o <<x>>
<1>1. Placed(done, x, Before) = c \o b
  BY DEF Placed
<1>2. later \subseteq ToSet(done) /\ sooner = ToSet(done) \ later
  OBVIOUS
<1> HIDE DEF later, sooner
<1>3. a \in Seq(E) /\ ToSet(a) = ToSet(done) \cap sooner /\ (Distinct(done) => Distinct(a))
  BY AmongIs
<1>4. b \in Seq(E) /\ ToSet(b) = ToSet(done) \cap later /\ (Distinct(done) => Distinct(b))
  BY AmongIs
<1> HIDE DEF a, b
<1>5. <<x>> \in Seq(E) /\ ToSet(<<x>>) = {x} /\ Distinct(<<x>>)
  BY DEF ToSet, Distinct
<1>6. c \in Seq(E) /\ ToSet(c) = ToSet(a) \cup ToSet(<<x>>)
  BY <1>3, <1>5, Joined
<1>7. Distinct(done) /\ x \notin ToSet(done) => Distinct(c)
  <2> SUFFICES ASSUME Distinct(done), x \notin ToSet(done) PROVE Distinct(c)
    OBVIOUS
  <2>1. ToSet(a) \cap ToSet(<<x>>) = {} /\ Distinct(a)
    BY <1>2, <1>3, <1>5
  <2>2. QED
    BY <1>3, <1>5, <2>1, Joined
<1> HIDE DEF c
<1>8. c \o b \in Seq(E) /\ ToSet(c \o b) = ToSet(c) \cup ToSet(b)
  BY <1>4, <1>6, Joined
<1>9. Distinct(done) /\ x \notin ToSet(done) => Distinct(c \o b)
  <2> SUFFICES ASSUME Distinct(done), x \notin ToSet(done) PROVE Distinct(c \o b)
    OBVIOUS
  <2>1. ToSet(c) \cap ToSet(b) = {} /\ Distinct(b) /\ Distinct(c)
    BY <1>2, <1>3, <1>4, <1>5, <1>6, <1>7
  <2>2. QED
    BY <1>4, <1>6, <2>1, Joined
<1>10. QED
  BY <1>1, <1>2, <1>3, <1>4, <1>5, <1>6, <1>8, <1>9

LEMMA ArrangedUnfolds ==
    ASSUME NEW E, NEW list \in Seq(E), NEW Before
    PROVE  \E g \in [0..Len(list) -> Seq(E)] :
               /\ Follows(g, Len(list), <<>>, Placing(list, Before, E))
               /\ Arranged(list, Before) = g[Len(list)]
<1> DEFINE N == Len(list)
           F == Placing(list, Before, E)
           Body(h) == [n \in 0..N |-> IF n = 0 THEN <<>> ELSE Placed(h[n - 1], list[n], Before)]
           all == CHOOSE h : h = Body(h)
<1>1. N \in Nat /\ \A n \in 1..N : list[n] \in E
  OBVIOUS
<1>2. F \in [Nat \X Seq(E) -> Seq(E)]
  BY <1>1, PlacedIs DEF Placing
<1>3. <<>> \in Seq(E)
  OBVIOUS
<1>4. PICK g \in [0..N -> Seq(E)] : Follows(g, N, <<>>, F)
  <2> HIDE DEF N, F
  <2>1. QED
    BY <1>1, <1>2, <1>3, Recursion
<1>5. g = Body(g)
  <2>1. ASSUME NEW n \in 0..N
        PROVE  g[n] = IF n = 0 THEN <<>> ELSE Placed(g[n - 1], list[n], Before)
    <3>1. CASE n = 0
      BY <1>4, <3>1 DEF Follows
    <3>2. CASE n # 0
      <4>1. n - 1 \in 0..N /\ n - 1 < N /\ n - 1 + 1 = n /\ n - 1 \in Nat
        BY <1>1, <3>2
      <4>2. g[n] = F[<<n - 1, g[n - 1]>>] /\ g[n - 1] \in Seq(E)
        BY <1>4, <4>1 DEF Follows
      <4>3. QED
        BY <3>2, <4>1, <4>2 DEF Placing
    <3>3. QED
      BY <3>1, <3>2
  <2>2. QED
    BY <1>4, <2>1
<1>6. all = Body(all)
  BY <1>5
<1>7. \A n \in 0..N : all[n] = IF n = 0 THEN <<>> ELSE Placed(all[n - 1], list[n], Before)
  BY <1>6
<1>8. Arranged(list, Before) = all[N]
  BY DEF Arranged
<1> HIDE DEF all
<1>0. all[0] = <<>>
  BY <1>1, <1>7
<1>9. ASSUME NEW n \in 0..N, n < N, all[n] \in Seq(E)
      PROVE  all[n + 1] = F[<<n, all[n]>>]
  <2>1. n + 1 \in 0..N /\ n + 1 # 0 /\ n + 1 - 1 = n /\ n \in Nat
    BY <1>1, <1>9
  <2>2. all[n + 1] = Placed(all[n], list[n + 1], Before)
    BY <1>7, <2>1
  <2>3. QED
    BY <1>9, <2>1, <2>2 DEF Placing
<1> HIDE DEF N, F
<1>10. Follows(all, N, <<>>, F)
  BY <1>0, <1>1, <1>2, <1>3, <1>9, Unfolding
<1>11. all[N] = g[N]
  BY <1>1, <1>4, <1>10, FollowsOnce
<1>12. QED
  BY <1>4, <1>8, <1>11 DEF N, F

\* The same elements in some order.
LEMMA ArrangedIs ==
    ASSUME NEW E, NEW list \in Seq(E), NEW Before
    PROVE  /\ Arranged(list, Before) \in Seq(E)
           /\ ToSet(Arranged(list, Before)) = ToSet(list)
           /\ Distinct(list) => Distinct(Arranged(list, Before))
<1> DEFINE N == Len(list)
           Earlier(n) == {list[i] : i \in 1..n}
<1>1. PICK g \in [0..N -> Seq(E)] :
          Follows(g, N, <<>>, Placing(list, Before, E)) /\ Arranged(list, Before) = g[N]
  BY ArrangedUnfolds
<1>2. N \in Nat /\ DOMAIN list = 1..N /\ \A n \in 1..N : list[n] \in E
  OBVIOUS
<1> DEFINE T == {n \in 0..N : /\ ToSet(g[n]) = Earlier(n)
                              /\ Distinct(list) => Distinct(g[n])}
<1>3. 0 \in T
  BY <1>1, <1>2 DEF Follows, ToSet, Distinct
<1>4. ASSUME NEW n \in 0..N, n < N, n \in T PROVE n + 1 \in T
  <2>1. n + 1 \in 1..N /\ n + 1 \in 0..N /\ n \in Nat /\ 1..(n + 1) = 1..n \cup {n + 1}
    BY <1>2, <1>4
  <2>2. g[n] \in Seq(E) /\ list[n + 1] \in E
    BY <1>2, <2>1
  <2>3. g[n + 1] = Placed(g[n], list[n + 1], Before)
    BY <1>1, <1>4, <2>1, <2>2 DEF Follows, Placing
  <2>4. Earlier(n + 1) = Earlier(n) \cup {list[n + 1]}
    BY <2>1
  <2>5. Distinct(list) => list[n + 1] \notin Earlier(n)
    <3>1. \A i \in 1..n : i \in 1..N /\ i # n + 1
      BY <1>4
    <3>2. QED
      BY <1>2, <2>1, <3>1 DEF Distinct
  <2>6. ToSet(g[n]) = Earlier(n) /\ (Distinct(list) => Distinct(g[n]))
    BY <1>4
  <2> HIDE DEF Earlier
  <2>7. ToSet(g[n + 1]) = Earlier(n + 1) /\ (Distinct(list) => Distinct(g[n + 1]))
    <3>1. /\ ToSet(g[n + 1]) = ToSet(g[n]) \cup {list[n + 1]}
          /\ Distinct(g[n]) /\ list[n + 1] \notin ToSet(g[n]) => Distinct(g[n + 1])
      BY <2>2, <2>3, PlacedIs
    <3>2. QED
      BY <2>4, <2>5, <2>6, <3>1
  <2>8. QED
    BY <2>1, <2>7
<1> HIDE DEF T
<1>5. 0..N \subseteq T
  BY <1>2, <1>3, <1>4, IntervalInduction
<1>6. N \in T
  BY <1>2, <1>5
<1>7. Earlier(N) = ToSet(list)
  BY <1>2 DEF ToSet
<1>8. QED
  BY <1>1, <1>2, <1>6, <1>7 DEF T
-----------------------------------------------------------------------------
(* What a view shows. *)

FieldRecords == [source : Sources, role : Roles, merge : Seq(Sources), filterable : BOOLEAN]

LEMMA ColumnsThere ==
    /\ Sources # {} /\ Columns \in Seq([name : STRING, kind : Kinds])
    /\ \A i \in DOMAIN Columns : Columns[i].name \in Sources /\ Columns[i].kind \in Kinds
    /\ \A i, j \in DOMAIN Columns : Columns[i].name = Columns[j].name => i = j
<1>1. Columns \in Seq([name : STRING, kind : Kinds]) /\ Columns # <<>>
  BY ColumnsAssumption
<1>2. 1 \in DOMAIN Columns
  BY <1>1, Elements
<1>3. \A i \in DOMAIN Columns : Columns[i] \in [name : STRING, kind : Kinds]
  BY <1>1, Elements
<1>4. \A i, j \in DOMAIN Columns : Columns[i].name = Columns[j].name => i = j
  BY ColumnsAssumption, Zenon
<1>5. QED
  BY <1>1, <1>2, <1>3, <1>4 DEF Sources

\* A list shows no more than what was put on the page, and fields of the model.
LEMMA ShownIs ==
    ASSUME NEW v, Complete(v), NEW layout \in Layouts
    PROVE  Shown(v, layout) \subseteq Put(v) /\ Shown(v, layout) \subseteq Sources
<1> DEFINE visible == {f \in FieldSpecs(v) : f.role # "hidden"}
           chosen == {f \in FieldSpecs(v) : f.role \in RolesFor(layout)}
<1>1. v.fields \in Seq(FieldRecords) /\ FieldSpecs(v) \subseteq FieldRecords
  <2>1. v.fields \in Seq(FieldRecords)
    BY DEF Complete, FieldRecords
  <2>2. QED
    BY <2>1, Elements DEF FieldSpecs
<1>2. chosen \subseteq visible
  <2>1. "hidden" \notin RolesFor(layout)
    BY DEF Layouts, RolesFor
  <2>2. QED
    BY <2>1
<1> HIDE DEF visible, chosen
<1>3. /\ Among(v.fields, chosen) \in Seq(FieldRecords)
      /\ ToSet(Among(v.fields, chosen)) = ToSet(v.fields) \cap chosen
  BY <1>1, AmongIs
<1>4. /\ Among(v.fields, visible) \in Seq(FieldRecords)
      /\ ToSet(Among(v.fields, visible)) = ToSet(v.fields) \cap visible
  BY <1>1, AmongIs
<1>5. Selected(v, layout) = IF Among(v.fields, chosen) # <<>> \/ Among(v.fields, visible) = <<>>
                            THEN Among(v.fields, chosen) ELSE <<Head(Among(v.fields, visible))>>
  BY DEF Selected, chosen, visible
<1>6. ToSet(Selected(v, layout)) \subseteq visible
  <2>1. CASE Selected(v, layout) = Among(v.fields, chosen)
    BY <1>2, <1>3, <2>1
  <2>2. CASE Among(v.fields, visible) # <<>> /\ Selected(v, layout) = <<Head(Among(v.fields, visible))>>
    <3> DEFINE all == Among(v.fields, visible)
    <3> HIDE DEF all
    <3>1. all \in Seq(FieldRecords) /\ all # <<>> => Head(all) = all[1] /\ 1 \in DOMAIN all
      OBVIOUS
    <3>2. Head(all) \in ToSet(all)
      BY <1>4, <2>2, <3>1 DEF ToSet, all
    <3>3. ToSet(<<Head(all)>>) = {Head(all)}
      BY DEF ToSet
    <3>4. QED
      BY <1>4, <2>2, <3>2, <3>3 DEF all
  <2>3. QED
    BY <1>5, <2>1, <2>2
<1>7. ASSUME NEW f \in visible
      PROVE  CellSources(f) \subseteq Put(v) /\ CellSources(f) \subseteq Sources
  <2>1. f \in FieldSpecs(v) /\ f.role # "hidden" /\ f \in FieldRecords
    BY <1>1 DEF visible
  <2>2. f.source \in Put(v) /\ ToSet(f.merge) \subseteq Put(v)
    BY <2>1 DEF Put
  <2>3. f.source \in Sources /\ f.merge \in Seq(Sources)
    BY <2>1 DEF FieldRecords
  <2>4. ToSet(f.merge) \subseteq Sources
    BY <2>3 DEF ToSet
  <2>5. QED
    BY <2>2, <2>3, <2>4 DEF CellSources
<1>8. QED
  BY <1>6, <1>7 DEF Shown

\* The first place of a field is its own, so that no two fields have one source;
\* and there are fields.
LEMMA CompleteIs ==
    ASSUME NEW v, Complete(v)
    PROVE  /\ v.fields \in Seq(FieldRecords) /\ v.fields # <<>>
           /\ FieldSpecs(v) \subseteq FieldRecords
           /\ \A i \in DOMAIN v.fields :
                /\ 1 \in DOMAIN Places(v.fields[i])
                /\ Places(v.fields[i])[1] = v.fields[i].source
           /\ \A i, j \in DOMAIN v.fields : v.fields[i].source = v.fields[j].source => i = j
           /\ \A f \in FieldSpecs(v) : Places(f) \in Seq(Sources) /\ Distinct(Places(f))
<1>1. v.fields \in Seq(FieldRecords) /\ FieldSpecs(v) \subseteq FieldRecords
  <2>1. v.fields \in Seq(FieldRecords)
    BY DEF Complete, FieldRecords
  <2>2. QED
    BY <2>1, Elements DEF FieldSpecs
<1>2. v.fields # <<>>
  <2>1. v.fields = <<>> => UNION {ToSet(Places(f)) : f \in FieldSpecs(v)} = {}
    BY DEF FieldSpecs, ToSet
  <2>2. QED
    BY <2>1, ColumnsThere DEF Complete, Covers
<1>3. ASSUME NEW f \in FieldSpecs(v)
      PROVE  /\ Places(f) \in Seq(Sources) /\ 1 \in DOMAIN Places(f) /\ Places(f)[1] = f.source
  <2>1. f.merge \in Seq(Sources) /\ f.source \in Sources
    BY <1>1, <1>3 DEF FieldRecords
  <2>2. CASE f.merge = NoMerge
    BY <2>1, <2>2 DEF Places
  <2>3. CASE f.merge # NoMerge
    <3>1. f.merge[1] = f.source
      BY <2>3 DEF Complete
    <3>2. 1 \in DOMAIN f.merge
      BY <2>1, <2>3 DEF NoMerge
    <3>3. QED
      BY <2>1, <2>3, <3>1, <3>2 DEF Places
  <2>4. QED
    BY <2>2, <2>3
<1>4. \A i \in DOMAIN v.fields : v.fields[i] \in FieldSpecs(v)
  BY DEF FieldSpecs, ToSet
<1>5. \A f \in FieldSpecs(v) : \E i \in DOMAIN v.fields : f = v.fields[i]
  BY DEF FieldSpecs, ToSet
<1>6. \A i, j \in DOMAIN v.fields :
        \A k \in DOMAIN Places(v.fields[i]), l \in DOMAIN Places(v.fields[j]) :
            Places(v.fields[i])[k] = Places(v.fields[j])[l] => i = j /\ k = l
  BY DEF Complete, Covers
<1>7. \A i, j \in DOMAIN v.fields : v.fields[i].source = v.fields[j].source => i = j
  BY <1>3, <1>4, <1>6, ZenonT(40)
<1>8. \A f \in FieldSpecs(v) : Distinct(Places(f))
  BY <1>5, <1>6, SMTT(20) DEF Distinct
<1>9. QED
  BY <1>1, <1>2, <1>3, <1>4, <1>7, <1>8

\* The derived view: complete, valid, and without what its shape keeps out.
LEMMA DerivedIs == Complete(Derived) /\ Valid(Derived) /\ Put(Derived) \cap Secrets = {}
<1> DEFINE fs == Derived.fields
<1>1. /\ DOMAIN Derived = {"layout", "fields", "filters", "language", "labels", "values"}
      /\ Derived.layout = "list" /\ Derived.labels = {} /\ Derived.values = {}
      /\ fs = [i \in DOMAIN Columns |->
                    [source |-> Columns[i].name, role |-> Classify(Columns[i]),
                     merge |-> NoMerge, filterable |-> Columns[i].kind = "status"]]
      /\ Derived.filters = {Columns[i].name : i \in {j \in DOMAIN Columns : Columns[j].kind = "status"}}
  BY DEF Derived
<1> HIDE DEF fs
<1>2. ASSUME NEW c PROVE Classify(c) \in Roles
  BY DEF Classify, Roles
<1>3. ASSUME NEW i \in DOMAIN Columns
      PROVE  fs[i] \in FieldRecords /\ fs[i].merge = NoMerge /\ fs[i].source = Columns[i].name
  BY <1>1, <1>2, ColumnsThere DEF FieldRecords, NoMerge
<1>4. fs \in Seq(FieldRecords) /\ DOMAIN fs = DOMAIN Columns
  <2>1. DOMAIN Columns = 1..Len(Columns) /\ Len(Columns) \in Nat
    BY ColumnsThere
  <2>2. fs \in [1..Len(Columns) -> FieldRecords]
    BY <1>1, <1>3, <2>1
  <2>3. QED
    BY <2>1, <2>2
<1>5. FieldSpecs(Derived) = {fs[i] : i \in DOMAIN Columns}
  BY <1>4 DEF FieldSpecs, ToSet, fs
<1>6. \A i \in DOMAIN Columns : Places(fs[i]) = <<Columns[i].name>>
  BY <1>3 DEF Places
<1>7. Covers(Derived)
  <2>1. \A i \in DOMAIN Columns : ToSet(Places(fs[i])) = {Columns[i].name}
    BY <1>6 DEF ToSet
  <2>2. UNION {ToSet(Places(f)) : f \in FieldSpecs(Derived)} = Sources
    BY <1>5, <2>1 DEF Sources
  <2>3. \A i \in DOMAIN Columns : DOMAIN Places(fs[i]) = {1} /\ Places(fs[i])[1] = Columns[i].name
    BY <1>6
  <2>4. QED
    BY <1>4, <2>2, <2>3, ColumnsAssumption DEF Covers, fs
<1>8. Complete(Derived)
  BY <1>1, <1>3, <1>4, <1>5, <1>7 DEF Complete, FieldRecords, Layouts, fs
<1>9. Valid(Derived)
  <2>1. Derived.filters \subseteq FiltersOf(Derived.fields)
    <3>1. ASSUME NEW i \in DOMAIN Columns, Columns[i].kind = "status"
          PROVE  Columns[i].name \in FiltersOf(fs)
      <4>1. fs[i].filterable /\ fs[i] \in ToSet(fs)
        BY <1>1, <1>4, <3>1 DEF ToSet
      <4>2. QED
        BY <1>3, <4>1 DEF FiltersOf
    <3>2. QED
      BY <1>1, <3>1 DEF fs
  <2>2. \A f \in FieldSpecs(Derived) : f.merge = NoMerge
    BY <1>3, <1>5
  <2>3. {l[1] : l \in Derived.labels \cup Derived.values} = {}
    BY <1>1
  <2>4. QED
    BY <1>8, <2>1, <2>2, <2>3, CompleteIs DEF Valid
<1>10. ASSUME NEW i \in DOMAIN Columns, fs[i].source \in Secrets
       PROVE  fs[i].role = "hidden"
  <2>1. PICK d \in ToSet(Columns) : d.kind \in {"secret", "opaque", "id"} /\ d.name = fs[i].source
    BY <1>10 DEF Secrets
  <2>2. PICK j \in DOMAIN Columns : d = Columns[j]
    BY <2>1 DEF ToSet
  <2>3. i = j
    <3>1. Columns[i].name = Columns[j].name
      BY <1>3, <2>1, <2>2
    <3>2. QED
      BY <3>1, ColumnsThere
  <2>4. Classify(Columns[i]) = "hidden"
    BY <2>1, <2>2, <2>3 DEF Classify
  <2>5. QED
    BY <1>1, <2>4
<1>11. Put(Derived) \cap Secrets = {}
  <2>1. \A f \in FieldSpecs(Derived) : ToSet(f.merge) = {}
    BY <1>3, <1>5 DEF ToSet, NoMerge
  <2>2. QED
    BY <1>5, <1>10, <2>1 DEF Put
<1>12. QED
  BY <1>8, <1>9, <1>11

-----------------------------------------------------------------------------
(* The rows of the editor. *)

EntryRecords == [source : Sources, role : Roles, merge : Seq(Sources), order : Nat,
                 pos : Nat, filterable : BOOLEAN]

\* What is visible by the form.
Revealed(form) == {s \in DOMAIN form.role : form.role[s] # "hidden"}

LEMMA EntryIs ==
    ASSUME NEW u \in FieldRecords, NEW i \in Nat \ {0}, NEW form, EditForm(form),
           Entry(u, i, form).role \in Roles
    PROVE  LET e == Entry(u, i, form)
           IN /\ e \in EntryRecords /\ e.source = u.source /\ e.merge = u.merge /\ e.pos = i
              /\ e.role # "hidden" => u.role # "hidden" \/ u.source \in Revealed(form)
              /\ "filters" \notin form.sent => e.filterable = u.filterable
<1> DEFINE role == Given(form.role, u.source, u.role)
           order == Given(form.order, u.source, i - 1)
           filterable == IF "filters" \in form.sent
                         THEN u.source \in form.filterable /\ role # "hidden"
                         ELSE u.filterable
<1>1. Entry(u, i, form) = [source |-> u.source, role |-> role, merge |-> u.merge,
                           order |-> order, pos |-> i, filterable |-> filterable]
  BY DEF Entry
<1>2. role \in Roles
  BY <1>1
<1>3. order \in Nat
  <2>1. i - 1 \in Nat
    OBVIOUS
  <2>2. \A s \in DOMAIN form.order : form.order[s] \in Nat
    BY DEF EditForm
  <2>3. QED
    BY <2>1, <2>2 DEF Given
<1>4. filterable \in BOOLEAN
  <2>1. u.filterable \in BOOLEAN
    BY DEF FieldRecords
  <2>2. QED
    BY <2>1
<1>5. role # "hidden" => u.role # "hidden" \/ u.source \in Revealed(form)
  BY DEF Given, Revealed
<1>6. "filters" \notin form.sent => filterable = u.filterable
  OBVIOUS
<1>7. u.source \in Sources /\ u.merge \in Seq(Sources)
  BY DEF FieldRecords
<1> HIDE DEF role, order, filterable
<1>8. QED
  BY <1>1, <1>2, <1>3, <1>4, <1>5, <1>6, <1>7 DEF EntryRecords

LEMMA EntriesAre ==
    ASSUME NEW us \in Seq(FieldRecords), NEW form, EditForm(form), ~Garbage(us, form)
    PROVE  /\ Entries(us, form) \in Seq(EntryRecords) /\ Distinct(Entries(us, form))
           /\ DOMAIN Entries(us, form) = DOMAIN us
           /\ \A i \in DOMAIN us :
                LET e == Entries(us, form)[i]
                IN /\ e \in EntryRecords /\ e.source = us[i].source /\ e.merge = us[i].merge
                   /\ e.role # "hidden" => us[i].role # "hidden" \/ us[i].source \in Revealed(form)
                   /\ "filters" \notin form.sent => e.filterable = us[i].filterable
<1> DEFINE es == Entries(us, form)
<1>1. DOMAIN us = 1..Len(us) /\ Len(us) \in Nat /\ \A i \in DOMAIN us : us[i] \in FieldRecords
  BY Elements
<1>2. DOMAIN es = DOMAIN us /\ \A i \in DOMAIN us : es[i] = Entry(us[i], i, form)
  BY DEF Entries
<1>3. ASSUME NEW i \in DOMAIN us
      PROVE  /\ es[i] \in EntryRecords /\ es[i].source = us[i].source
             /\ es[i].merge = us[i].merge /\ es[i].pos = i
             /\ es[i].role # "hidden" => us[i].role # "hidden" \/ us[i].source \in Revealed(form)
             /\ "filters" \notin form.sent => es[i].filterable = us[i].filterable
  <2>1. Entry(us[i], i, form).role \in Roles
    BY DEF Garbage
  <2>2. us[i] \in FieldRecords /\ i \in Nat \ {0}
    BY <1>1
  <2>3. QED
    BY <1>2, <2>1, <2>2, EntryIs
<1>4. es \in Seq(EntryRecords)
  <2>1. es \in [1..Len(us) -> EntryRecords]
    BY <1>1, <1>2, <1>3 DEF Entries
  <2>2. QED
    BY <1>1, <2>1
<1>5. Distinct(es)
  BY <1>2, <1>3 DEF Distinct
<1>6. QED
  BY <1>2, <1>3, <1>4, <1>5

LEMMA FieldsAre ==
    ASSUME NEW es \in Seq(EntryRecords)
    PROVE  /\ FieldsOf(es) \in Seq(FieldRecords) /\ DOMAIN FieldsOf(es) = DOMAIN es
           /\ \A i \in DOMAIN es :
                /\ FieldsOf(es)[i].source = es[i].source /\ FieldsOf(es)[i].role = es[i].role
                /\ FieldsOf(es)[i].merge = es[i].merge
                /\ FieldsOf(es)[i].filterable = es[i].filterable
                /\ Places(FieldsOf(es)[i]) = Places(es[i])
<1> DEFINE fs == FieldsOf(es)
<1>1. DOMAIN es = 1..Len(es) /\ Len(es) \in Nat /\ \A i \in DOMAIN es : es[i] \in EntryRecords
  BY Elements
<1>2. DOMAIN fs = DOMAIN es
  BY DEF FieldsOf
<1>3. ASSUME NEW i \in DOMAIN es
      PROVE  /\ fs[i] \in FieldRecords
             /\ fs[i].source = es[i].source /\ fs[i].role = es[i].role
             /\ fs[i].merge = es[i].merge /\ fs[i].filterable = es[i].filterable
  <2>1. fs[i] = [source |-> es[i].source, role |-> es[i].role,
                 merge |-> es[i].merge, filterable |-> es[i].filterable]
    BY DEF FieldsOf
  <2>2. /\ es[i].source \in Sources /\ es[i].role \in Roles
        /\ es[i].merge \in Seq(Sources) /\ es[i].filterable \in BOOLEAN
    BY <1>1 DEF EntryRecords
  <2> HIDE DEF fs
  <2>3. QED
    BY <2>1, <2>2 DEF FieldRecords
<1>4. fs \in Seq(FieldRecords)
  <2>1. fs \in [1..Len(es) -> FieldRecords]
    BY <1>1, <1>2, <1>3 DEF FieldsOf
  <2>2. QED
    BY <1>1, <2>1
<1> HIDE DEF fs
<1>5. \A i \in DOMAIN es : Places(fs[i]) = Places(es[i])
  BY <1>3 DEF Places
<1>6. QED
  BY <1>2, <1>3, <1>4, <1>5 DEF fs

-----------------------------------------------------------------------------
(* Every field. *)

\* No element is there twice, nor two of one field.
Single(us) == Distinct(us) /\ \A f, g \in ToSet(us) : f.source = g.source => f = g

LEMMA AloneIs ==
    ASSUME NEW s \in Sources
    PROVE  Alone(s) \in FieldRecords /\ Alone(s).source = s /\ Alone(s).role = "meta"
<1>1. "meta" \in Roles /\ <<>> \in Seq(Sources)
  BY DEF Roles
<1>2. QED
  BY <1>1 DEF Alone, FieldRecords, NoMerge

\* The members that are added after a field.
Added(us, f) == ToSet(f.merge) \ ({u.source : u \in ToSet(us)} \cup {f.source})

LEMMA WithMembersTyped ==
    ASSUME NEW us \in Seq(FieldRecords), NEW f \in FieldRecords
    PROVE  /\ WithMembers(us, f) \in Seq(FieldRecords)
           /\ ToSet(WithMembers(us, f)) = ToSet(us) \cup {f} \cup {Alone(s) : s \in Added(us, f)}
           /\ Added(us, f) \subseteq Sources
<1> DEFINE met == {u.source : u \in ToSet(us)} \cup {f.source}
           new == ToSet(f.merge) \ met
           members == Among(f.merge, new)
           t == [j \in DOMAIN members |-> Alone(members[j])]
<1>1. WithMembers(us, f) = us \o <<f>> \o t
  BY DEF WithMembers
<1>2. f.merge \in Seq(Sources)
  BY DEF FieldRecords
<1>3. new = Added(us, f) /\ new \subseteq ToSet(f.merge)
  BY DEF Added
<1> HIDE DEF met, new
<1>4. members \in Seq(Sources) /\ ToSet(members) = ToSet(f.merge) \cap new
  BY <1>2, AmongIs
<1> HIDE DEF members
<1>5. /\ DOMAIN members = 1..Len(members) /\ Len(members) \in Nat
      /\ \A i \in DOMAIN members : members[i] \in Sources
      /\ ToSet(members) \subseteq Sources
  BY <1>4, Elements
<1>6. t \in Seq(FieldRecords)
  <2>1. t \in [1..Len(members) -> FieldRecords]
    BY <1>5, AloneIs
  <2>2. QED
    BY <1>5, <2>1
<1>7. ToSet(t) = {Alone(s) : s \in new}
  <2>1. ToSet(t) = {Alone(s) : s \in ToSet(members)}
    BY DEF ToSet
  <2>2. QED
    BY <1>3, <1>4, <2>1
<1> HIDE DEF t
<1> DEFINE one == <<f>>
           c == us \o one
<1>8. one \in Seq(FieldRecords) /\ ToSet(one) = {f}
  BY DEF ToSet
<1>9. WithMembers(us, f) = c \o t
  BY <1>1
<1> HIDE DEF one
<1>10. c \in Seq(FieldRecords) /\ ToSet(c) = ToSet(us) \cup {f}
  BY <1>8, Joined
<1> HIDE DEF c
<1>11. c \o t \in Seq(FieldRecords) /\ ToSet(c \o t) = ToSet(c) \cup ToSet(t)
  BY <1>6, <1>10, Joined
<1>12. QED
  BY <1>3, <1>4, <1>5, <1>7, <1>9, <1>10, <1>11

LEMMA WithMembersSingle ==
    ASSUME NEW us \in Seq(FieldRecords), NEW f \in FieldRecords, Single(us), Distinct(f.merge),
           \A u \in ToSet(us) : u.source # f.source
    PROVE  Single(WithMembers(us, f))
<1> DEFINE met == {u.source : u \in ToSet(us)} \cup {f.source}
           new == ToSet(f.merge) \ met
           members == Among(f.merge, new)
           t == [j \in DOMAIN members |-> Alone(members[j])]
           one == <<f>>
           c == us \o one
           w == WithMembers(us, f)
<1>1. w = c \o t
  BY DEF WithMembers
<1>2. f.merge \in Seq(Sources)
  BY DEF FieldRecords
<1>3. new = Added(us, f)
  BY DEF Added
<1> HIDE DEF met, new
<1>4. /\ members \in Seq(Sources) /\ ToSet(members) = ToSet(f.merge) \cap new
      /\ Distinct(members)
  BY <1>2, AmongIs
<1> HIDE DEF members
<1>5. /\ DOMAIN members = 1..Len(members) /\ Len(members) \in Nat
      /\ \A i \in DOMAIN members : members[i] \in Sources /\ members[i] \in new
  BY <1>4, Elements DEF ToSet
<1>6. t \in Seq(FieldRecords)
  <2>1. t \in [1..Len(members) -> FieldRecords]
    BY <1>5, AloneIs
  <2>2. QED
    BY <1>5, <2>1
<1>7. Distinct(t) /\ \A a \in ToSet(t) : a.source \in new
  <2>1. DOMAIN t = DOMAIN members /\ \A i \in DOMAIN members : t[i].source = members[i]
    BY <1>5, AloneIs
  <2>2. Distinct(t)
    BY <1>4, <2>1 DEF Distinct
  <2>3. QED
    BY <1>5, <2>1, <2>2 DEF ToSet
<1> HIDE DEF t
<1>8. \A u \in ToSet(us) \cup {f} : u.source \notin new
  BY <1>3 DEF Added
<1>9. one \in Seq(FieldRecords) /\ ToSet(one) = {f} /\ Distinct(one)
  BY DEF ToSet, Distinct
<1> HIDE DEF one
<1>10. c \in Seq(FieldRecords) /\ ToSet(c) = ToSet(us) \cup {f} /\ Distinct(c)
  <2>1. ToSet(us) \cap ToSet(one) = {} /\ Distinct(us)
    BY <1>9 DEF Single
  <2>2. QED
    BY <1>9, <2>1, Joined
<1> HIDE DEF c
<1>11. Distinct(c \o t)
  <2>1. ToSet(c) \cap ToSet(t) = {}
    BY <1>7, <1>8, <1>10
  <2>2. QED
    BY <1>6, <1>7, <1>10, <2>1, Joined
<1>12. ASSUME NEW a \in ToSet(w), NEW b \in ToSet(w), a.source = b.source
       PROVE  a = b
  <2>1. /\ ToSet(w) = ToSet(us) \cup {f} \cup {Alone(s) : s \in Added(us, f)}
        /\ Added(us, f) \subseteq Sources
    BY WithMembersTyped
  <2>2. ASSUME NEW s \in Added(us, f) PROVE Alone(s).source = s
    BY <2>1, AloneIs
  <2>3. CASE a \in ToSet(us) \cup {f} /\ b \in ToSet(us) \cup {f}
    BY <1>12, <2>3 DEF Single
  <2>4. CASE a \in {Alone(s) : s \in Added(us, f)} /\ b \in {Alone(s) : s \in Added(us, f)}
    BY <1>12, <2>2, <2>4
  <2>5. ASSUME NEW x \in ToSet(us) \cup {f}, NEW s \in Added(us, f)
        PROVE  x.source # Alone(s).source
    BY <1>3, <1>8, <2>2
  <2>6. QED
    BY <1>12, <2>1, <2>3, <2>4, <2>5
<1>13. QED
  BY <1>1, <1>11, <1>12 DEF Single

\* One step of Universe.
Gathering(v) ==
    [c \in Nat \X Seq(FieldRecords) |->
        IF c[1] < Len(v.fields) THEN WithMembers(c[2], v.fields[c[1] + 1]) ELSE c[2]]

LEMMA UniverseUnfolds ==
    ASSUME NEW v, v.fields \in Seq(FieldRecords)
    PROVE  \E g \in [0..Len(v.fields) -> Seq(FieldRecords)] :
               /\ Follows(g, Len(v.fields), <<>>, Gathering(v))
               /\ Universe(v) = g[Len(v.fields)]
<1> DEFINE N == Len(v.fields)
           E == FieldRecords
           F == Gathering(v)
           Body(h) == [n \in 0..N |-> IF n = 0 THEN <<>> ELSE WithMembers(h[n - 1], v.fields[n])]
           all == CHOOSE h : h = Body(h)
<1>1. N \in Nat /\ \A n \in 1..N : v.fields[n] \in E
  BY Elements
<1>2. F \in [Nat \X Seq(E) -> Seq(E)]
  <2>1. ASSUME NEW n \in Nat, NEW us \in Seq(E), n < N
        PROVE  WithMembers(us, v.fields[n + 1]) \in Seq(E)
    <3>1. v.fields[n + 1] \in E
      BY <1>1, <2>1
    <3>2. QED
      BY <3>1, WithMembersTyped
  <2>2. QED
    BY <2>1 DEF Gathering
<1>3. <<>> \in Seq(E)
  OBVIOUS
<1>4. PICK g \in [0..N -> Seq(E)] : Follows(g, N, <<>>, F)
  <2> HIDE DEF N, F, E
  <2>1. QED
    BY <1>1, <1>2, <1>3, Recursion
<1>5. g = Body(g)
  <2>1. ASSUME NEW n \in 0..N
        PROVE  g[n] = IF n = 0 THEN <<>> ELSE WithMembers(g[n - 1], v.fields[n])
    <3>1. CASE n = 0
      BY <1>4, <3>1 DEF Follows
    <3>2. CASE n # 0
      <4>1. n - 1 \in 0..N /\ n - 1 < N /\ n - 1 + 1 = n /\ n - 1 \in Nat
        BY <1>1, <3>2
      <4>2. g[n] = F[<<n - 1, g[n - 1]>>] /\ g[n - 1] \in Seq(E)
        BY <1>4, <4>1 DEF Follows
      <4>3. QED
        BY <3>2, <4>1, <4>2 DEF Gathering
    <3>3. QED
      BY <3>1, <3>2
  <2>2. QED
    BY <1>4, <2>1
<1>6. all = Body(all)
  BY <1>5
<1>7. \A n \in 0..N : all[n] = IF n = 0 THEN <<>> ELSE WithMembers(all[n - 1], v.fields[n])
  BY <1>6
<1>8. Universe(v) = all[N]
  BY DEF Universe
<1> HIDE DEF all
<1>0. all[0] = <<>>
  BY <1>1, <1>7
<1>9. ASSUME NEW n \in 0..N, n < N, all[n] \in Seq(E)
      PROVE  all[n + 1] = F[<<n, all[n]>>]
  <2>1. n + 1 \in 0..N /\ n + 1 # 0 /\ n + 1 - 1 = n /\ n \in Nat
    BY <1>1, <1>9
  <2>2. all[n + 1] = WithMembers(all[n], v.fields[n + 1])
    BY <1>7, <2>1
  <2>3. QED
    BY <1>9, <2>1, <2>2 DEF Gathering
<1> HIDE DEF N, F, E
<1>10. Follows(all, N, <<>>, F)
  BY <1>0, <1>1, <1>2, <1>3, <1>9, Unfolding
<1>11. all[N] = g[N]
  BY <1>1, <1>4, <1>10, FollowsOnce
<1>12. QED
  BY <1>4, <1>8, <1>11 DEF N, F, E

\* Each field of the model once; and nothing visible that the view did not put there.
LEMMA UniverseIs ==
    ASSUME NEW v, Complete(v)
    PROVE  /\ Universe(v) \in Seq(FieldRecords) /\ Single(Universe(v))
           /\ {u.source : u \in ToSet(Universe(v))} = Sources
           /\ \A u \in ToSet(Universe(v)) : u.role # "hidden" => u.source \in Put(v)
           /\ \A u \in ToSet(Universe(v)) : ToSet(u.merge) \subseteq Put(v)
<1> DEFINE N == Len(v.fields)
           E == FieldRecords
           Met(n) == UNION {ToSet(Places(v.fields[i])) : i \in 1..n}
<1>0. v.fields \in Seq(E) /\ FieldSpecs(v) = ToSet(v.fields)
  BY CompleteIs DEF FieldSpecs
<1>1. PICK g \in [0..N -> Seq(E)] :
          Follows(g, N, <<>>, Gathering(v)) /\ Universe(v) = g[N]
  BY <1>0, UniverseUnfolds
<1>2. /\ N \in Nat /\ DOMAIN v.fields = 1..N
      /\ \A n \in 1..N : v.fields[n] \in E /\ v.fields[n] \in FieldSpecs(v)
  BY <1>0, Elements DEF ToSet
<1> DEFINE T == {n \in 0..N : /\ Single(g[n])
                              /\ {u.source : u \in ToSet(g[n])} = Met(n)
                              /\ \A u \in ToSet(g[n]) : u.role # "hidden" => u.source \in Put(v)
                              /\ \A u \in ToSet(g[n]) : ToSet(u.merge) \subseteq Put(v)}
<1>3. 0 \in T
  <2>1. g[0] = <<>> /\ ToSet(g[0]) = {} /\ Distinct(g[0])
    BY <1>1 DEF Follows, ToSet, Distinct
  <2>2. Met(0) = {}
    OBVIOUS
  <2>3. QED
    BY <1>2, <2>1, <2>2 DEF Single
<1>4. ASSUME NEW n \in 0..N, n < N, n \in T PROVE n + 1 \in T
  <2> DEFINE us == g[n]
             f == v.fields[n + 1]
             w == WithMembers(us, f)
  <2>1. n + 1 \in 1..N /\ n + 1 \in 0..N /\ n \in Nat /\ 1..(n + 1) = 1..n \cup {n + 1}
    BY <1>2, <1>4
  <2>2. us \in Seq(E) /\ f \in E /\ f \in FieldSpecs(v)
    BY <1>2, <2>1
  <2>3. g[n + 1] = w
    BY <1>1, <1>4, <2>1, <2>2 DEF Follows, Gathering
  <2>4. Met(n + 1) = Met(n) \cup ToSet(Places(f))
    BY <2>1
  <2>5. f.source \notin Met(n)
    <3>1. ASSUME NEW i \in 1..n, NEW k \in DOMAIN Places(v.fields[i]),
                 Places(v.fields[i])[k] = f.source
          PROVE  FALSE
      <4>1. i \in DOMAIN v.fields /\ n + 1 \in DOMAIN v.fields /\ i # n + 1
        BY <1>2, <1>4, <2>1
      <4>2. 1 \in DOMAIN Places(f) /\ Places(f)[1] = f.source
        BY <4>1, CompleteIs
      <4>3. QED
        BY <3>1, <4>1, <4>2 DEF Complete, Covers
    <3>2. QED
      BY <3>1 DEF ToSet
  <2>6. /\ Single(us) /\ {u.source : u \in ToSet(us)} = Met(n)
        /\ \A u \in ToSet(us) : u.role # "hidden" => u.source \in Put(v)
        /\ \A u \in ToSet(us) : ToSet(u.merge) \subseteq Put(v)
    BY <1>4
  <2> HIDE DEF Met, us, f
  <2>7. Distinct(f.merge) /\ ToSet(Places(f)) = {f.source} \cup ToSet(f.merge)
    <3>1. CASE f.merge = NoMerge
      BY <3>1 DEF NoMerge, Places, Distinct, ToSet
    <3>2. CASE f.merge # NoMerge
      <4>1. Places(f) = f.merge /\ f.merge[1] = f.source
        BY <2>2, <3>2 DEF Places, Complete
      <4>2. Distinct(f.merge) /\ f.merge \in Seq(Sources)
        BY <2>2, <4>1, CompleteIs
      <4>3. 1 \in DOMAIN f.merge
        BY <3>2, <4>2, Elements DEF NoMerge
      <4>4. QED
        BY <4>1, <4>2, <4>3 DEF ToSet
    <3>3. QED
      BY <3>1, <3>2
  <2>8. /\ w \in Seq(E)
        /\ ToSet(w) = ToSet(us) \cup {f} \cup {Alone(s) : s \in Added(us, f)}
        /\ Added(us, f) \subseteq Sources
    BY <2>2, WithMembersTyped
  <2>9. Single(w)
    BY <2>2, <2>5, <2>6, <2>7, WithMembersSingle
  <2> HIDE DEF w
  <2>10. \A s \in Added(us, f) : /\ Alone(s).source = s /\ s \in ToSet(f.merge)
                                 /\ Alone(s).merge = <<>>
    BY <2>8, AloneIs DEF Added, Alone, NoMerge
  <2>11. {u.source : u \in ToSet(w)} = Met(n + 1)
    <3>1. ASSUME NEW u \in ToSet(w) PROVE u.source \in Met(n + 1)
      BY <2>4, <2>6, <2>7, <2>8, <2>10, <3>1
    <3>2. ASSUME NEW s \in Met(n + 1) PROVE \E u \in ToSet(w) : u.source = s
      <4>1. CASE s \in Met(n)
        BY <2>6, <2>8, <4>1
      <4>2. CASE s = f.source
        BY <2>8, <4>2
      <4>3. CASE s \in ToSet(f.merge) /\ s # f.source /\ s \notin Met(n)
        <5>1. s \in Added(us, f)
          BY <2>6, <4>3 DEF Added
        <5>2. QED
          BY <2>8, <2>10, <5>1
      <4>4. QED
        BY <2>4, <2>7, <4>1, <4>2, <4>3
    <3>3. QED
      BY <3>1, <3>2
  <2>12. /\ f.role # "hidden" => f.source \in Put(v)
         /\ ToSet(f.merge) \subseteq Put(v)
    BY <2>2 DEF Put
  <2>13. \A u \in ToSet(w) : u.role # "hidden" => u.source \in Put(v)
    BY <2>6, <2>8, <2>10, <2>12
  <2>14. \A u \in ToSet(w) : ToSet(u.merge) \subseteq Put(v)
    <3>1. ToSet(<<>>) = {}
      BY DEF ToSet
    <3>2. QED
      BY <2>6, <2>8, <2>10, <2>12, <3>1
  <2>15. QED
    BY <2>1, <2>3, <2>9, <2>11, <2>13, <2>14
<1> HIDE DEF T
<1>5. 0..N \subseteq T
  BY <1>2, <1>3, <1>4, IntervalInduction
<1>6. N \in T
  BY <1>2, <1>5
<1>7. Met(N) = Sources
  <2> DEFINE P(f) == ToSet(Places(f))
  <2>1. Met(N) = UNION {P(f) : f \in FieldSpecs(v)}
    <3>1. FieldSpecs(v) = {v.fields[i] : i \in 1..N}
      BY <1>0, <1>2 DEF ToSet
    <3>2. Met(N) = UNION {P(v.fields[i]) : i \in 1..N}
      OBVIOUS
    <3> HIDE DEF P, Met
    <3>3. QED
      BY <3>1, <3>2
  <2>2. QED
    BY <2>1 DEF Complete, Covers
<1>8. Universe(v) \in Seq(E)
  BY <1>1, <1>2
<1>9. QED
  BY <1>1, <1>6, <1>7, <1>8 DEF T

-----------------------------------------------------------------------------
(* Laying out. *)

\* Each field of the model has one place in a set of rows; and a merge begins
\* with the field it is merged into.
Divides(S) ==
    /\ UNION {ToSet(Places(e)) : e \in S} = Sources
    /\ \A d, e \in S : \A k \in DOMAIN Places(d), l \in DOMAIN Places(e) :
           Places(d)[k] = Places(e)[l] => d = e /\ k = l
    /\ \A e \in S : e.merge # NoMerge => e.merge[1] = e.source

\* Such rows make a complete view, in whatever order.
LEMMA LaidOut ==
    ASSUME NEW es \in Seq(EntryRecords), Distinct(es), Divides(ToSet(es)), NEW w,
           DOMAIN w = {"layout", "fields", "filters", "language", "labels", "values"},
           w.layout \in Layouts, w.fields = FieldsOf(InOrder(es))
    PROVE  /\ Complete(w)
           /\ \A f \in FieldSpecs(w) : \E e \in ToSet(es) :
                f.source = e.source /\ f.role = e.role /\ f.merge = e.merge
           /\ \A e \in ToSet(es) : \E f \in FieldSpecs(w) :
                f.source = e.source /\ f.filterable = e.filterable
<1> DEFINE Before == {p \in ToSet(es) \X ToSet(es) : p[1].order < p[2].order}
           os == InOrder(es)
           fs == w.fields
<1>1. os \in Seq(EntryRecords) /\ ToSet(os) = ToSet(es) /\ Distinct(os)
  <2> HIDE DEF Before
  <2>1. os = Arranged(es, Before)
    BY DEF InOrder, Before
  <2>2. QED
    BY <2>1, ArrangedIs
<1> HIDE DEF os
<1>2. /\ fs \in Seq(FieldRecords) /\ DOMAIN fs = DOMAIN os
      /\ \A i \in DOMAIN os :
            /\ fs[i].source = os[i].source /\ fs[i].role = os[i].role
            /\ fs[i].merge = os[i].merge /\ fs[i].filterable = os[i].filterable
            /\ Places(fs[i]) = Places(os[i])
  BY <1>1, FieldsAre DEF os
<1>3. FieldSpecs(w) = {fs[i] : i \in DOMAIN os}
  BY <1>2 DEF FieldSpecs, ToSet
<1>4. ToSet(es) = {os[i] : i \in DOMAIN os}
  BY <1>1 DEF ToSet
<1>5. UNION {ToSet(Places(f)) : f \in FieldSpecs(w)} = Sources
  <2> DEFINE P(f) == ToSet(Places(f))
  <2>1. UNION {P(f) : f \in FieldSpecs(w)} = UNION {P(fs[i]) : i \in DOMAIN os}
    <3> HIDE DEF P
    <3>1. QED
      BY <1>3
  <2>2. UNION {P(e) : e \in ToSet(es)} = UNION {P(os[i]) : i \in DOMAIN os}
    <3> HIDE DEF P
    <3>1. QED
      BY <1>4
  <2>3. \A i \in DOMAIN os : P(fs[i]) = P(os[i])
    BY <1>2
  <2>4. UNION {P(e) : e \in ToSet(es)} = Sources
    BY DEF Divides
  <2> HIDE DEF P
  <2>5. UNION {P(f) : f \in FieldSpecs(w)} = Sources
    BY <2>1, <2>2, <2>3, <2>4
  <2>6. QED
    BY <2>5 DEF P
<1>6. ASSUME NEW i \in DOMAIN fs, NEW j \in DOMAIN fs,
             NEW k \in DOMAIN Places(fs[i]), NEW l \in DOMAIN Places(fs[j]),
             Places(fs[i])[k] = Places(fs[j])[l]
      PROVE  i = j /\ k = l
  <2>1. /\ i \in DOMAIN os /\ j \in DOMAIN os
        /\ Places(fs[i]) = Places(os[i]) /\ Places(fs[j]) = Places(os[j])
    BY <1>2
  <2>2. os[i] \in ToSet(es) /\ os[j] \in ToSet(es)
    BY <1>4, <2>1
  <2>3. os[i] = os[j] /\ k = l
    BY <1>6, <2>1, <2>2 DEF Divides
  <2>4. QED
    BY <1>1, <2>1, <2>3 DEF Distinct
<1>7. \A f \in FieldSpecs(w) : f.merge # NoMerge => f.merge[1] = f.source
  BY <1>2, <1>3, <1>4 DEF Divides
<1>8. Covers(w)
  BY <1>5, <1>6 DEF Covers
<1>9. Complete(w)
  BY <1>2, <1>7, <1>8 DEF Complete, FieldRecords
<1>10. QED
  BY <1>2, <1>3, <1>4, <1>9

\* Leaving the merges as they are.
LEMMA RearrangedIs ==
    ASSUME NEW v, Complete(v), Valid(v), NEW form, EditForm(form), ~Garbage(v.fields, form)
    PROVE  LET w == Rearranged(v, form)
           IN /\ Complete(w)
              /\ \A f \in FieldSpecs(w) : f.merge # NoMerge => Len(f.merge) >= 2
              /\ w.filters \subseteq FiltersOf(w.fields)
              /\ Put(w) \subseteq Put(v) \cup Revealed(form)
<1> DEFINE es == Entries(v.fields, form)
           fields == FieldsOf(InOrder(es))
           w == Rearranged(v, form)
<1>1. /\ v.fields \in Seq(FieldRecords) /\ FieldSpecs(v) = {v.fields[i] : i \in DOMAIN v.fields}
      /\ DOMAIN v = {"layout", "fields", "filters", "language", "labels", "values"}
      /\ v.layout \in Layouts
  BY CompleteIs DEF FieldSpecs, ToSet, Complete
<1>2. /\ es \in Seq(EntryRecords) /\ Distinct(es) /\ DOMAIN es = DOMAIN v.fields
      /\ \A i \in DOMAIN v.fields :
            /\ es[i].source = v.fields[i].source /\ es[i].merge = v.fields[i].merge
            /\ es[i].role # "hidden" =>
                  v.fields[i].role # "hidden" \/ v.fields[i].source \in Revealed(form)
            /\ "filters" \notin form.sent => es[i].filterable = v.fields[i].filterable
  BY <1>1, EntriesAre
<1>3. /\ w.fields = fields /\ w.layout = v.layout
      /\ DOMAIN w = {"layout", "fields", "filters", "language", "labels", "values"}
      /\ w.filters = IF "filters" \in form.sent THEN FiltersOf(fields) ELSE v.filters
  BY <1>1 DEF Rearranged
<1> HIDE DEF es, fields, w
<1>4. ToSet(es) = {es[i] : i \in DOMAIN v.fields}
  BY <1>2 DEF ToSet
<1>5. \A i \in DOMAIN v.fields : Places(es[i]) = Places(v.fields[i])
  BY <1>2 DEF Places
<1>6. Divides(ToSet(es))
  <2>1. UNION {ToSet(Places(e)) : e \in ToSet(es)} = Sources
    <3> DEFINE P(f) == ToSet(Places(f))
    <3>1. UNION {P(e) : e \in ToSet(es)} = UNION {P(es[i]) : i \in DOMAIN v.fields}
      <4> HIDE DEF P
      <4>1. QED
        BY <1>4
    <3>2. UNION {P(f) : f \in FieldSpecs(v)} = UNION {P(v.fields[i]) : i \in DOMAIN v.fields}
      <4> HIDE DEF P
      <4>1. QED
        BY <1>1
    <3>3. \A i \in DOMAIN v.fields : P(es[i]) = P(v.fields[i])
      BY <1>5
    <3>4. UNION {P(f) : f \in FieldSpecs(v)} = Sources
      BY DEF Complete, Covers
    <3> HIDE DEF P
    <3>5. UNION {P(e) : e \in ToSet(es)} = Sources
      BY <3>1, <3>2, <3>3, <3>4
    <3>6. QED
      BY <3>5 DEF P
  <2>2. ASSUME NEW i \in DOMAIN v.fields, NEW j \in DOMAIN v.fields,
               NEW k \in DOMAIN Places(es[i]), NEW l \in DOMAIN Places(es[j]),
               Places(es[i])[k] = Places(es[j])[l]
        PROVE  es[i] = es[j] /\ k = l
    <3>1. i = j /\ k = l
      BY <1>5, <2>2 DEF Complete, Covers
    <3>2. QED
      BY <3>1
  <2>3. \A i \in DOMAIN v.fields : es[i].merge # NoMerge => es[i].merge[1] = es[i].source
    BY <1>1, <1>2 DEF Complete
  <2>4. QED
    BY <1>4, <2>1, <2>2, <2>3 DEF Divides
<1>7. /\ Complete(w)
      /\ \A f \in FieldSpecs(w) : \E e \in ToSet(es) :
           f.source = e.source /\ f.role = e.role /\ f.merge = e.merge
      /\ \A e \in ToSet(es) : \E f \in FieldSpecs(w) :
           f.source = e.source /\ f.filterable = e.filterable
  BY <1>1, <1>2, <1>3, <1>6, LaidOut DEF fields
<1>8. \A f \in FieldSpecs(w) : \E i \in DOMAIN v.fields :
          /\ f.source = v.fields[i].source /\ f.merge = v.fields[i].merge
          /\ v.fields[i] \in FieldSpecs(v)
          /\ f.role # "hidden" =>
                v.fields[i].role # "hidden" \/ v.fields[i].source \in Revealed(form)
  BY <1>1, <1>2, <1>4, <1>7
<1>9. \A f \in FieldSpecs(w) : f.merge # NoMerge => Len(f.merge) >= 2
  BY <1>8 DEF Valid
<1>10. w.filters \subseteq FiltersOf(w.fields)
  <2>1. CASE "filters" \in form.sent
    BY <1>3, <2>1
  <2>2. CASE "filters" \notin form.sent
    <3>1. ASSUME NEW s \in v.filters PROVE s \in FiltersOf(w.fields)
      <4>1. PICK g \in FieldSpecs(v) : g.filterable /\ g.source = s
        BY DEF Valid, FiltersOf, FieldSpecs
      <4>2. PICK i \in DOMAIN v.fields : g = v.fields[i]
        BY <1>1
      <4>3. es[i].filterable /\ es[i].source = s /\ es[i] \in ToSet(es)
        BY <1>2, <1>4, <2>2, <4>1, <4>2
      <4>4. PICK f \in FieldSpecs(w) : f.source = s /\ f.filterable
        BY <1>7, <4>3
      <4>5. QED
        BY <4>4 DEF FiltersOf, FieldSpecs
    <3>2. QED
      BY <1>3, <2>2, <3>1
  <2>3. QED
    BY <2>1, <2>2
<1>11. Put(w) \subseteq Put(v) \cup Revealed(form)
  <2>1. ASSUME NEW f \in FieldSpecs(w), f.role # "hidden"
        PROVE  f.source \in Put(v) \cup Revealed(form)
    BY <1>8, <2>1 DEF Put
  <2>2. ASSUME NEW f \in FieldSpecs(w) PROVE ToSet(f.merge) \subseteq Put(v)
    BY <1>8 DEF Put
  <2>3. QED
    BY <2>1, <2>2 DEF Put
<1>12. QED
  BY <1>7, <1>9, <1>10, <1>11 DEF w

-----------------------------------------------------------------------------
(* Merging. *)

\* Those that a form merges into an anchor.
Joining(e, es, form) ==
    {m \in ToSet(es) : Joins(m, es, form) /\ Target(m, form) = e.source}

LEMMA MergeIs ==
    ASSUME NEW es \in Seq(EntryRecords), Single(es), NEW e \in ToSet(es), NEW form
    PROVE  LET mg == MergeOf(e, es, form)
           IN /\ mg \in Seq(Sources)
              /\ Joining(e, es, form) # {} => mg # NoMerge
              /\ mg # NoMerge =>
                    /\ Joining(e, es, form) # {} /\ Len(mg) >= 2 /\ mg[1] = e.source
                    /\ ToSet(mg) = {e.source} \cup {m.source : m \in Joining(e, es, form)}
                    /\ Distinct(mg)
<1> DEFINE joining == Joining(e, es, form)
           Before == {p \in joining \X joining :
                        \/ p[1].order < p[2].order
                        \/ p[1].order = p[2].order /\ Rank[p[1].source] < Rank[p[2].source]}
           rows == Among(es, joining)
           members == Arranged(rows, Before)
           rest == [i \in DOMAIN members |-> members[i].source]
           one == <<e.source>>
           mg == MergeOf(e, es, form)
<1>1. mg = IF members = <<>> THEN NoMerge ELSE one \o rest
  BY DEF MergeOf, Joining
<1>2. joining \subseteq ToSet(es) /\ \A m \in joining : m.source # e.source
  BY DEF Joining, Joins
<1> HIDE DEF joining, Before
<1>3. rows \in Seq(EntryRecords) /\ ToSet(rows) = joining /\ Distinct(rows)
  <2>1. /\ rows \in Seq(EntryRecords) /\ ToSet(rows) = ToSet(es) \cap joining
        /\ Distinct(es) => Distinct(rows)
    BY AmongIs
  <2>2. QED
    BY <1>2, <2>1 DEF Single
<1> HIDE DEF rows
<1>4. members \in Seq(EntryRecords) /\ ToSet(members) = joining /\ Distinct(members)
  BY <1>3, ArrangedIs
<1> HIDE DEF members
<1>5. /\ DOMAIN members = 1..Len(members) /\ Len(members) \in Nat
      /\ \A i \in DOMAIN members : members[i] \in EntryRecords /\ members[i] \in joining
      /\ members # <<>> => 1 \in DOMAIN members
  BY <1>4, Elements DEF ToSet
<1>6. e.source \in Sources
  <2>1. ToSet(es) \subseteq EntryRecords
    BY Elements
  <2>2. QED
    BY <2>1 DEF EntryRecords
<1>7. rest \in Seq(Sources)
  <2>1. rest \in [1..Len(members) -> Sources]
    BY <1>5 DEF EntryRecords
  <2>2. QED
    BY <1>5, <2>1
<1>8. Distinct(rest)
  <2>1. ASSUME NEW i \in DOMAIN members, NEW j \in DOMAIN members,
               members[i].source = members[j].source
        PROVE  i = j
    <3>1. members[i] \in ToSet(es) /\ members[j] \in ToSet(es)
      BY <1>2, <1>5
    <3>2. members[i] = members[j]
      BY <2>1, <3>1 DEF Single
    <3>3. QED
      BY <1>4, <3>2 DEF Distinct
  <2>2. QED
    BY <2>1 DEF Distinct
<1>9. ToSet(rest) = {m.source : m \in joining}
  BY <1>4 DEF ToSet
<1>10. DOMAIN rest = DOMAIN members
  OBVIOUS
<1>11. one \in Seq(Sources) /\ ToSet(one) = {e.source} /\ Distinct(one) /\ Len(one) = 1
       /\ one[1] = e.source
  BY <1>6 DEF ToSet, Distinct
<1> HIDE DEF rest, one
<1>12. one \o rest \in Seq(Sources) /\ ToSet(one \o rest) = ToSet(one) \cup ToSet(rest)
  BY <1>7, <1>11, Joined
<1>13. Distinct(one \o rest)
  <2>1. ToSet(one) \cap ToSet(rest) = {}
    BY <1>2, <1>9, <1>11
  <2>2. QED
    BY <1>7, <1>8, <1>11, <2>1, Joined
<1>14. Len(one \o rest) = 1 + Len(rest) /\ Len(rest) \in Nat /\ (one \o rest)[1] = e.source
  <2>1. 1 \in DOMAIN one
    BY <1>11, Elements
  <2>2. QED
    BY <1>7, <1>11, <2>1, FirstOfJoined
<1>15. joining # {} <=> members # <<>>
  <2>1. members # <<>> => members[1] \in joining
    BY <1>5
  <2>2. members = <<>> => ToSet(members) = {}
    BY DEF ToSet
  <2>3. QED
    BY <1>4, <2>1, <2>2
<1>16. members # <<>> => Len(rest) >= 1
  <2>1. members # <<>> => 1 \in DOMAIN rest
    BY <1>5, <1>10
  <2>2. DOMAIN rest = 1..Len(rest)
    BY <1>7
  <2>3. QED
    BY <1>14, <2>1, <2>2
<1>17. CASE members = <<>>
  <2>1. mg = NoMerge /\ NoMerge \in Seq(Sources)
    BY <1>1, <1>17 DEF NoMerge
  <2>2. QED
    BY <1>15, <1>17, <2>1 DEF joining
<1>18. CASE members # <<>>
  <2>1. mg = one \o rest /\ Len(mg) >= 2
    BY <1>1, <1>14, <1>16, <1>18
  <2>2. mg # NoMerge
    BY <2>1 DEF NoMerge
  <2>3. ToSet(mg) = {e.source} \cup {m.source : m \in joining}
    BY <1>9, <1>11, <1>12, <2>1
  <2> HIDE DEF mg
  <2>4. QED
    BY <1>12, <1>13, <1>14, <1>15, <1>18, <2>1, <2>2, <2>3 DEF joining, mg
<1>19. QED
  BY <1>17, <1>18

\* Each field stays with its row, or goes to the row that it is merged into.
LEMMA MergingDivides ==
    ASSUME NEW es \in Seq(EntryRecords), Single(es), {e.source : e \in ToSet(es)} = Sources,
           NEW form, NEW S,
           S = {[e EXCEPT !.merge = MergeOf(e, es, form)] :
                    e \in {d \in ToSet(es) : ~Joins(d, es, form)}}
    PROVE  Divides(S)
<1> DEFINE kept == {d \in ToSet(es) : ~Joins(d, es, form)}
           M(e) == [e EXCEPT !.merge = MergeOf(e, es, form)]
<1>1. ToSet(es) \subseteq EntryRecords
  BY Elements
<1>2. ASSUME NEW e \in kept
      PROVE  /\ M(e).source = e.source /\ M(e).merge = MergeOf(e, es, form)
             /\ Places(M(e)) \in Seq(Sources) /\ Distinct(Places(M(e)))
             /\ ToSet(Places(M(e))) = {e.source} \cup {m.source : m \in Joining(e, es, form)}
             /\ M(e).merge # NoMerge => M(e).merge[1] = M(e).source
  <2>1. e \in ToSet(es) /\ e \in EntryRecords
    BY <1>1
  <2> DEFINE mg == MergeOf(e, es, form)
             joining == Joining(e, es, form)
             r == M(e)
  <2>2. r.source = e.source /\ r.merge = mg /\ e.source \in Sources
    BY <2>1 DEF EntryRecords
  <2>3. /\ mg \in Seq(Sources)
        /\ joining # {} => mg # NoMerge
        /\ mg # NoMerge => /\ Len(mg) >= 2 /\ mg[1] = e.source
                           /\ ToSet(mg) = {e.source} \cup {m.source : m \in joining}
                           /\ Distinct(mg)
    BY <2>1, MergeIs
  <2> HIDE DEF mg, joining, r
  <2>4. CASE mg = NoMerge
    <3>1. Places(r) = <<e.source>>
      BY <2>2, <2>4 DEF Places
    <3>2. Places(r) \in Seq(Sources) /\ Distinct(Places(r)) /\ ToSet(Places(r)) = {e.source}
      BY <2>2, <3>1 DEF Distinct, ToSet
    <3>3. {m.source : m \in joining} = {}
      BY <2>3, <2>4
    <3>4. QED
      BY <2>2, <2>4, <3>2, <3>3 DEF mg, joining, r
  <2>5. CASE mg # NoMerge
    <3>1. Places(r) = mg
      BY <2>2, <2>5 DEF Places
    <3>2. QED
      BY <2>2, <2>3, <2>5, <3>1 DEF mg, joining, r
  <2>6. QED
    BY <2>4, <2>5
<1>3. S = {M(e) : e \in kept}
  OBVIOUS
<1> HIDE DEF M
<1>4. ASSUME NEW x \in Sources
      PROVE  \E e \in kept : x \in ToSet(Places(M(e)))
  <2>1. PICK d \in ToSet(es) : d.source = x
    OBVIOUS
  <2>2. CASE ~Joins(d, es, form)
    BY <1>2, <2>1, <2>2
  <2>3. CASE Joins(d, es, form)
    <3>1. PICK i \in DOMAIN es : es[i].source = Target(d, form) /\ Target(es[i], form) = None
      BY <2>3 DEF Joins
    <3>2. es[i] \in kept
      BY <3>1 DEF Joins, ToSet
    <3>3. d \in Joining(es[i], es, form)
      BY <2>1, <2>3, <3>1 DEF Joining
    <3>4. QED
      BY <1>2, <2>1, <3>2, <3>3
  <2>4. QED
    BY <2>2, <2>3
<1>5. UNION {ToSet(Places(f)) : f \in S} = Sources
  <2> DEFINE P(f) == ToSet(Places(f))
  <2>1. UNION {P(f) : f \in S} = UNION {P(M(e)) : e \in kept}
    <3> HIDE DEF P
    <3>1. QED
      BY <1>3
  <2>2. \A e \in kept : P(M(e)) \subseteq Sources
    BY <1>2, Elements
  <2>3. \A x \in Sources : \E e \in kept : x \in P(M(e))
    BY <1>4
  <2> HIDE DEF P
  <2>4. UNION {P(f) : f \in S} = Sources
    BY <2>1, <2>2, <2>3
  <2>5. QED
    BY <2>4 DEF P
<1>6. ASSUME NEW d \in kept, NEW e \in kept, NEW x \in ToSet(Places(M(d))), x \in ToSet(Places(M(e)))
      PROVE  d = e
  <2>1. d \in ToSet(es) /\ e \in ToSet(es) /\ ~Joins(d, es, form) /\ ~Joins(e, es, form)
    OBVIOUS
  <2>2. /\ x = d.source \/ \E m \in Joining(d, es, form) : x = m.source
        /\ x = e.source \/ \E m \in Joining(e, es, form) : x = m.source
    BY <1>2, <1>6
  <2>3. ASSUME NEW c \in kept, NEW m \in Joining(c, es, form)
        PROVE  m \in ToSet(es) /\ Joins(m, es, form) /\ Target(m, form) = c.source
    BY DEF Joining
  <2>4. CASE x = d.source /\ x = e.source
    BY <2>1, <2>4 DEF Single
  <2>5. ASSUME NEW c \in kept, NEW b \in kept, x = c.source,
               NEW m \in Joining(b, es, form), x = m.source
        PROVE  FALSE
    <3>1. m = c
      BY <2>3, <2>5 DEF Single
    <3>2. QED
      BY <2>3, <3>1
  <2>6. ASSUME NEW m \in Joining(d, es, form), NEW n \in Joining(e, es, form),
               x = m.source, x = n.source
        PROVE  d = e
    <3>1. m = n
      BY <2>3, <2>6 DEF Single
    <3>2. d.source = e.source
      BY <2>3, <3>1
    <3>3. QED
      BY <2>1, <3>2 DEF Single
  <2>7. QED
    BY <2>2, <2>4, <2>5, <2>6
<1>7. ASSUME NEW d \in kept, NEW e \in kept,
             NEW k \in DOMAIN Places(M(d)), NEW l \in DOMAIN Places(M(e)),
             Places(M(d))[k] = Places(M(e))[l]
      PROVE  M(d) = M(e) /\ k = l
  <2>1. d = e
    BY <1>6, <1>7 DEF ToSet
  <2>2. QED
    BY <1>2, <1>7, <2>1 DEF Distinct
<1> HIDE DEF kept
<1>8. \A d, e \in S : \A k \in DOMAIN Places(d), l \in DOMAIN Places(e) :
           Places(d)[k] = Places(e)[l] => d = e /\ k = l
  BY <1>3, <1>7
<1>9. \A f \in S : f.merge # NoMerge => f.merge[1] = f.source
  BY <1>2, <1>3
<1>10. QED
  BY <1>5, <1>8, <1>9 DEF Divides

LEMMA MergedIs ==
    ASSUME NEW v, Complete(v), NEW form, EditForm(form), ~Garbage(Universe(v), form)
    PROVE  LET w == Merged(v, form)
           IN /\ Complete(w)
              /\ \A f \in FieldSpecs(w) : f.merge # NoMerge => Len(f.merge) >= 2
              /\ w.filters \subseteq FiltersOf(w.fields)
              /\ Put(w) \subseteq Put(v) \cup Revealed(form)
<1> DEFINE us == Universe(v)
           es == Entries(us, form)
           stay == {e \in ToSet(es) : ~Joins(e, es, form)}
           kept == Among(es, stay)
           M(e) == [e EXCEPT !.merge = MergeOf(e, es, form)]
           rows == [i \in DOMAIN kept |-> M(kept[i])]
           fields == FieldsOf(InOrder(rows))
           w == Merged(v, form)
<1>1. /\ DOMAIN v = {"layout", "fields", "filters", "language", "labels", "values"}
      /\ v.layout \in Layouts
  BY DEF Complete
<1>2. /\ w.fields = fields /\ w.layout = v.layout /\ w.filters = FiltersOf(fields)
      /\ DOMAIN w = {"layout", "fields", "filters", "language", "labels", "values"}
  BY <1>1 DEF Merged
<1> HIDE DEF fields, w
<1>3. /\ us \in Seq(FieldRecords) /\ Single(us)
      /\ {u.source : u \in ToSet(us)} = Sources
      /\ \A u \in ToSet(us) : u.role # "hidden" => u.source \in Put(v)
  BY UniverseIs
<1> HIDE DEF us
<1>4. /\ es \in Seq(EntryRecords) /\ Distinct(es) /\ DOMAIN es = DOMAIN us
      /\ \A i \in DOMAIN us :
            /\ es[i].source = us[i].source
            /\ es[i].role # "hidden" => us[i].role # "hidden" \/ us[i].source \in Revealed(form)
  BY <1>3, EntriesAre DEF us
<1> HIDE DEF es
<1>5. ToSet(es) = {es[i] : i \in DOMAIN us} /\ ToSet(us) = {us[i] : i \in DOMAIN us}
  BY <1>4 DEF ToSet
<1>6. Single(es)
  <2>1. ASSUME NEW i \in DOMAIN us, NEW j \in DOMAIN us, es[i].source = es[j].source
        PROVE  i = j
    BY <1>3, <1>4, <1>5, <2>1 DEF Single, Distinct
  <2>2. QED
    BY <1>4, <1>5, <2>1 DEF Single
<1>7. {e.source : e \in ToSet(es)} = Sources
  BY <1>3, <1>4, <1>5
<1>8. \A e \in ToSet(es) : e.role # "hidden" => e.source \in Put(v) \cup Revealed(form)
  BY <1>3, <1>4, <1>5
<1>9. ToSet(es) \subseteq EntryRecords
  BY <1>4, Elements
<1> HIDE DEF stay
<1>10. kept \in Seq(EntryRecords) /\ ToSet(kept) = stay /\ Distinct(kept)
  <2>1. /\ kept \in Seq(EntryRecords) /\ ToSet(kept) = ToSet(es) \cap stay
        /\ Distinct(es) => Distinct(kept)
    BY <1>4, AmongIs
  <2>2. QED
    BY <1>4, <2>1 DEF stay
<1> HIDE DEF kept
<1>11. /\ DOMAIN kept = 1..Len(kept) /\ Len(kept) \in Nat
       /\ \A i \in DOMAIN kept : kept[i] \in EntryRecords /\ kept[i] \in stay
  BY <1>10, Elements DEF ToSet
<1>12. ASSUME NEW e \in stay
       PROVE  /\ M(e) \in EntryRecords /\ M(e).source = e.source /\ M(e).role = e.role
              /\ M(e).merge = MergeOf(e, es, form)
  <2>1. e \in ToSet(es) /\ e \in EntryRecords
    BY <1>9 DEF stay
  <2>2. MergeOf(e, es, form) \in Seq(Sources)
    BY <1>4, <1>6, <2>1, MergeIs
  <2> DEFINE mg == MergeOf(e, es, form)
  <2> HIDE DEF mg
  <2>3. /\ [e EXCEPT !.merge = mg] \in EntryRecords
        /\ [e EXCEPT !.merge = mg].source = e.source /\ [e EXCEPT !.merge = mg].role = e.role
        /\ [e EXCEPT !.merge = mg].merge = mg
    BY <2>1, <2>2 DEF EntryRecords, mg
  <2>4. QED
    BY <2>3 DEF mg
<1> HIDE DEF M
<1>13. rows \in Seq(EntryRecords)
  <2>1. rows \in [1..Len(kept) -> EntryRecords]
    BY <1>11, <1>12
  <2>2. QED
    BY <1>11, <2>1
<1>14. Distinct(rows)
  <2>1. ASSUME NEW i \in DOMAIN kept, NEW j \in DOMAIN kept, M(kept[i]) = M(kept[j])
        PROVE  i = j
    <3>1. kept[i].source = kept[j].source
      BY <1>11, <1>12, <2>1
    <3>2. kept[i] \in ToSet(es) /\ kept[j] \in ToSet(es)
      BY <1>11 DEF stay
    <3>3. kept[i] = kept[j]
      BY <1>6, <3>1, <3>2 DEF Single
    <3>4. QED
      BY <1>10, <3>3 DEF Distinct
  <2>2. QED
    BY <2>1 DEF Distinct
<1>15. ToSet(rows) = {M(e) : e \in stay}
  <2>1. ToSet(rows) = {M(kept[i]) : i \in DOMAIN kept}
    BY DEF ToSet
  <2>2. stay = {kept[i] : i \in DOMAIN kept}
    BY <1>10 DEF ToSet
  <2>3. QED
    BY <2>1, <2>2
<1>16. Divides(ToSet(rows))
  BY <1>4, <1>6, <1>7, <1>15, MergingDivides DEF M, stay
<1> HIDE DEF rows
<1>17. /\ Complete(w)
       /\ \A f \in FieldSpecs(w) : \E r \in ToSet(rows) :
            f.source = r.source /\ f.role = r.role /\ f.merge = r.merge
  BY <1>1, <1>2, <1>13, <1>14, <1>16, LaidOut DEF fields
<1>18. \A f \in FieldSpecs(w) : \E e \in stay :
          f.source = e.source /\ f.role = e.role /\ f.merge = MergeOf(e, es, form)
  BY <1>12, <1>15, <1>17
<1>19. ASSUME NEW e \in stay, MergeOf(e, es, form) # NoMerge
       PROVE  /\ Len(MergeOf(e, es, form)) >= 2
              /\ ToSet(MergeOf(e, es, form)) \subseteq Put(v) \cup Revealed(form)
  <2>1. e \in ToSet(es)
    BY DEF stay
  <2>2. /\ Joining(e, es, form) # {} /\ Len(MergeOf(e, es, form)) >= 2
        /\ ToSet(MergeOf(e, es, form))
             = {e.source} \cup {m.source : m \in Joining(e, es, form)}
    BY <1>4, <1>6, <1>19, <2>1, MergeIs
  <2>3. \A m \in Joining(e, es, form) : m.source \in Put(v) \cup Revealed(form)
    BY <1>8 DEF Joining, Joins
  <2>4. e.source \in Put(v) \cup Revealed(form)
    <3>1. PICK m \in ToSet(es) : Joins(m, es, form) /\ Target(m, form) = e.source
      BY <2>2 DEF Joining
    <3>2. PICK i \in DOMAIN es : es[i].source = e.source /\ es[i].role # "hidden"
      BY <3>1 DEF Joins
    <3>3. es[i] = e
      BY <1>6, <2>1, <3>2 DEF Single, ToSet
    <3>4. QED
      BY <1>8, <2>1, <3>2, <3>3
  <2>5. QED
    BY <2>2, <2>3, <2>4
<1>20. \A f \in FieldSpecs(w) : f.merge # NoMerge => Len(f.merge) >= 2
  BY <1>18, <1>19
<1>21. Put(w) \subseteq Put(v) \cup Revealed(form)
  <2>1. ASSUME NEW f \in FieldSpecs(w), f.role # "hidden"
        PROVE  f.source \in Put(v) \cup Revealed(form)
    <3>1. PICK e \in stay : f.source = e.source /\ f.role = e.role
      BY <1>18
    <3>2. QED
      BY <1>8, <2>1, <3>1 DEF stay
  <2>2. ASSUME NEW f \in FieldSpecs(w)
        PROVE  ToSet(f.merge) \subseteq Put(v) \cup Revealed(form)
    <3>1. ToSet(NoMerge) = {}
      BY DEF ToSet, NoMerge
    <3>2. QED
      BY <1>18, <1>19, <3>1
  <2>3. QED
    BY <2>1, <2>2 DEF Put
<1>22. QED
  BY <1>2, <1>17, <1>20, <1>21 DEF w

-----------------------------------------------------------------------------
(* Any form. *)

LEMMA LabelledIs ==
    ASSUME NEW v, Complete(v), NEW form, v.filters \subseteq FiltersOf(v.fields),
           \A f \in FieldSpecs(v) : f.merge # NoMerge => Len(f.merge) >= 2
    PROVE  LET w == Labelled(v, form)
           IN Complete(w) /\ Valid(w) /\ Put(w) = Put(v)
<1> DEFINE lang == IF form.language = None THEN v.language ELSE form.language
           live == SourcesOf(v)
           labels == IF "labels" \in form.sent
                       THEN Relabel(v.labels, live, form.label, lang) ELSE v.labels
           values == IF "values" \in form.sent
                       THEN Relabel(v.values, live \cap form.offered, form.value, lang)
                       ELSE v.values
           language == IF form.makeDefault THEN lang ELSE v.language
           named == {l \in labels : l[1] \in live}
           valued == {l \in values : l[1] \in live}
           w == Labelled(v, form)
<1>1. /\ DOMAIN v = {"layout", "fields", "filters", "language", "labels", "values"}
      /\ v.layout \in Layouts
  BY DEF Complete
<1>2. w = [v EXCEPT !.language = language, !.labels = named, !.values = valued]
  BY DEF Labelled
<1> HIDE DEF w, named, valued, language
<1>3. /\ DOMAIN w = {"layout", "fields", "filters", "language", "labels", "values"}
      /\ w.layout = v.layout /\ w.fields = v.fields /\ w.filters = v.filters
      /\ w.labels = named /\ w.values = valued
  BY <1>1, <1>2
<1>4. FieldSpecs(w) = FieldSpecs(v) /\ SourcesOf(w) = live
  BY <1>3 DEF FieldSpecs, SourcesOf
<1>5. Covers(w)
  BY <1>3, <1>4 DEF Complete, Covers
<1>6. Complete(w)
  BY <1>3, <1>4, <1>5 DEF Complete
<1>7. {l[1] : l \in w.labels \cup w.values} \subseteq SourcesOf(w)
  BY <1>3, <1>4 DEF named, valued
<1>8. Valid(w)
  <2>1. /\ w.fields # <<>>
        /\ \A i, j \in DOMAIN w.fields : w.fields[i].source = w.fields[j].source => i = j
    BY <1>6, CompleteIs
  <2>2. QED
    BY <1>3, <1>4, <1>7, <2>1 DEF Valid
<1>9. Put(w) = Put(v)
  BY <1>4 DEF Put
<1>10. QED
  BY <1>6, <1>8, <1>9 DEF w

\* A form that is not rejected makes a valid view of all the fields, and puts no
\* more on the page than was there or than it gives a visible role.
LEMMA EditedIs ==
    ASSUME NEW v, Complete(v), Valid(v), NEW form, EditForm(form), ~Rejected(v, form)
    PROVE  LET w == Edited(v, form)
           IN Complete(w) /\ Valid(w) /\ Put(w) \subseteq Put(v) \cup Revealed(form)
<1> DEFINE u == IF "merge" \in form.sent THEN Merged(v, form) ELSE Rearranged(v, form)
<1>1. /\ Complete(u)
      /\ \A f \in FieldSpecs(u) : f.merge # NoMerge => Len(f.merge) >= 2
      /\ u.filters \subseteq FiltersOf(u.fields)
      /\ Put(u) \subseteq Put(v) \cup Revealed(form)
  <2>1. CASE "merge" \in form.sent
    BY <2>1, MergedIs DEF Rejected
  <2>2. CASE "merge" \notin form.sent
    BY <2>2, RearrangedIs DEF Rejected
  <2>3. QED
    BY <2>1, <2>2
<1>2. Edited(v, form) = Labelled(u, form)
  BY DEF Edited
<1> HIDE DEF u
<1>3. LET w == Labelled(u, form) IN Complete(w) /\ Valid(w) /\ Put(w) = Put(u)
  BY <1>1, LabelledIs
<1>4. QED
  BY <1>1, <1>2, <1>3
=============================================================================
