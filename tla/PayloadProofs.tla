----------------------------- MODULE PayloadProofs -----------------------------
(***************************************************************************)
(* Theorems about Payload, for any number of processes and file causes, any *)
(* caps and every spawn relation, cyclic ones included.                     *)
(***************************************************************************)
EXTENDS Payload, ListProofs

LEMMA Sizes ==
  /\ N \in Nat /\ N >= 1 /\ F \in Nat /\ N + F \in Nat
  /\ Process \subseteq Item /\ 0 \notin Item
  /\ IsFiniteSet(Process) /\ Cardinality(Process) = N
  /\ IsFiniteSet(Item) /\ Cardinality(Item) = N + F
  /\ \A x \in Item : x \in Nat /\ x >= 1
<1>1. N \in Nat /\ N >= 1 /\ F \in Nat /\ N + F \in Nat
  BY PayloadAssumption
<1>2. IsFiniteSet(1..N) /\ Cardinality(1..N) = N
  BY <1>1, FS_Interval
<1>3. IsFiniteSet(1..(N + F)) /\ Cardinality(1..(N + F)) = N + F
  <2> DEFINE m == N + F
  <2>1. m \in Nat /\ m >= 1
    BY <1>1
  <2>2. IsFiniteSet(1..m) /\ Cardinality(1..m) = m
    <3> HIDE DEF m
    <3>q. QED BY <2>1, FS_Interval
  <2>q. QED BY <2>2
<1>q. QED BY <1>1, <1>2, <1>3 DEF Process, Item

-----------------------------------------------------------------------------
(* Lists. *)

(* The first n: as many as there are, and a beginning of the list.          *)
LEMMA FirstProperties ==
  ASSUME NEW A, NEW s \in Seq(A), NEW n \in Nat
  PROVE  /\ First(s, n) \in Seq(A) /\ Len(First(s, n)) <= n /\ Len(First(s, n)) <= Len(s)
         /\ \A i \in 1..Len(First(s, n)) : First(s, n)[i] = s[i]
         /\ Len(s) <= n => First(s, n) = s
         /\ Len(s) >= n => Len(First(s, n)) = n
         /\ Elements(First(s, n)) \subseteq Elements(s)
         /\ Distinct(s) => Distinct(First(s, n))
<1> DEFINE l == Len(s)
           m == IF l < n THEN l ELSE n
           t == First(s, n)
<1>1. /\ l \in Nat /\ DOMAIN s = 1..l /\ m \in Nat /\ m <= l /\ m <= n
      /\ l <= n => m = l
      /\ l >= n => m = n
  BY LenProperties
<1>2. t = SubSeq(s, 1, m)
  BY DEF First
<1>3. t \in Seq(A) /\ Len(t) = m /\ \A i \in 1..m : t[i] = s[i]
  <2>1. \A i \in 1..l : s[i] \in A
    BY ElementOfSeq
  <2> HIDE DEF m, t, l
  <2>2. 1 \in Int /\ m \in Int /\ \A i \in 1..m : s[i] \in A
    BY <1>1, <2>1
  <2>3. /\ t \in Seq(A) /\ Len(t) = IF 1 <= m THEN m - 1 + 1 ELSE 0
        /\ \A i \in 1..(m - 1 + 1) : t[i] = s[1 + i - 1]
    BY <1>2, <2>2, SubSeqProperties
  <2>4. m - 1 + 1 = m /\ (IF 1 <= m THEN m - 1 + 1 ELSE 0) = m /\ \A i \in 1..m : 1 + i - 1 = i
    BY <1>1
  <2>q. QED BY <2>3, <2>4
<1>4. DOMAIN t = 1..m /\ \A i \in 1..m : i \in 1..l
  <2>1. DOMAIN t = 1..m
    <3> HIDE DEF m, t
    <3>q. QED BY <1>3, LenProperties
  <2> HIDE DEF m, t, l
  <2>q. QED BY <1>1, <2>1
<1>5. m = l => t = s
  <2>1. SubSeq(s, 1, Len(s)) = s
    BY SubSeqFull
  <2> HIDE DEF t, m
  <2>q. QED BY <1>2, <2>1
<1>6. Elements(t) \subseteq Elements(s) /\ (Distinct(s) => Distinct(t))
  <2> HIDE DEF t, m, l
  <2>q. QED BY <1>1, <1>3, <1>4 DEF Elements, Distinct
<1>q. QED
  <2>1. t = First(s, n) /\ l = Len(s)
    OBVIOUS
  <2> HIDE DEF t, m, l
  <2>q. QED BY <1>1, <1>3, <1>5, <1>6, <2>1

(* t is s without its first d elements.                                     *)
EndsAt(t, s, d) == d \in Nat /\ Len(t) + d = Len(s) /\ \A i \in 1..Len(t) : t[i] = s[i + d]

(* The last n: as many as there are, and an end of the list.                *)
LEMMA LastProperties ==
  ASSUME NEW A, NEW s \in Seq(A), NEW n \in Nat, n >= 1, Len(s) >= 1
  PROVE  /\ Last(s, n) \in Seq(A) /\ Len(Last(s, n)) <= n
         /\ \E d : EndsAt(Last(s, n), s, d)
         /\ Len(s) <= n => Last(s, n) = s
         /\ s[Len(s)] \in Elements(Last(s, n))
         /\ Elements(Last(s, n)) \subseteq Elements(s)
         /\ Distinct(s) => Distinct(Last(s, n))
<1> DEFINE d == IF Len(s) < n THEN 0 ELSE Len(s) - n
           l == Len(s)
           t == Last(s, n)
<1>1. /\ l \in Nat /\ l >= 1 /\ DOMAIN s = 1..l /\ d \in Nat /\ d < l /\ l - d <= n
      /\ l <= n => d = 0
      /\ (IF Len(s) < n THEN 1 ELSE Len(s) - n + 1) = d + 1
  BY LenProperties
<1>2. t = SubSeq(s, d + 1, l)
  <2> HIDE DEF d
  <2>q. QED BY <1>1 DEF Last
<1>3. t \in Seq(A) /\ Len(t) = l - d /\ \A i \in 1..(l - d) : t[i] = s[i + d]
  <2>1. \A i \in 1..l : s[i] \in A
    BY ElementOfSeq
  <2> HIDE DEF d, t, l
  <2>2. d + 1 \in Int /\ l \in Int /\ \A i \in (d + 1)..l : s[i] \in A
    BY <1>1, <2>1
  <2>3. /\ t \in Seq(A) /\ Len(t) = IF d + 1 <= l THEN l - (d + 1) + 1 ELSE 0
        /\ \A i \in 1..(l - (d + 1) + 1) : t[i] = s[d + 1 + i - 1]
    BY <1>2, <2>2, SubSeqProperties
  <2>4. /\ l - (d + 1) + 1 = l - d /\ (IF d + 1 <= l THEN l - (d + 1) + 1 ELSE 0) = l - d
        /\ \A i \in 1..(l - d) : d + 1 + i - 1 = i + d
    BY <1>1
  <2>q. QED BY <2>3, <2>4
<1>4. DOMAIN t = 1..(l - d)
  <2> HIDE DEF t
  <2>q. QED BY <1>3, LenProperties
<1>5. l <= n => t = s
  <2>1. SubSeq(s, 1, Len(s)) = s
    BY SubSeqFull
  <2> HIDE DEF t, d
  <2>q. QED BY <1>1, <1>2, <2>1
<1>6. /\ \A i \in 1..(l - d) : i + d \in 1..l
      /\ l - d \in 1..(l - d) /\ (l - d) + d = l
      /\ \A i, j \in 1..(l - d) : i + d = j + d => i = j
  <2> HIDE DEF d, l
  <2>q. QED BY <1>1
<1>7. /\ s[l] \in Elements(t) /\ Elements(t) \subseteq Elements(s)
      /\ Distinct(s) => Distinct(t)
  <2> HIDE DEF t, d, l
  <2>1. s[l] \in Elements(t)
    <3>1. t[l - d] = s[l] /\ l - d \in DOMAIN t
      <4>1. t[l - d] = s[(l - d) + d]
        BY <1>3, <1>6
      <4>q. QED BY <1>4, <1>6, <4>1
    <3>q. QED BY <3>1 DEF Elements
  <2>2. Elements(t) \subseteq Elements(s)
    <3> SUFFICES ASSUME NEW i \in 1..(l - d) PROVE t[i] \in Elements(s)
      BY <1>4 DEF Elements
    <3>1. t[i] = s[i + d] /\ i + d \in DOMAIN s
      BY <1>1, <1>3, <1>6
    <3>q. QED BY <3>1 DEF Elements
  <2>3. Distinct(s) => Distinct(t)
    <3> SUFFICES ASSUME Distinct(s), NEW i \in 1..(l - d), NEW j \in 1..(l - d), t[i] = t[j] PROVE i = j
      BY <1>4 DEF Distinct
    <3>1. /\ t[i] = s[i + d] /\ t[j] = s[j + d] /\ i + d \in DOMAIN s /\ j + d \in DOMAIN s
      BY <1>1, <1>3, <1>6
    <3>2. i + d = j + d
      BY <3>1 DEF Distinct
    <3>q. QED BY <1>6, <3>2
  <2>q. QED BY <2>1, <2>2, <2>3
<1>q. QED
  <2>1. Len(t) <= n /\ EndsAt(t, s, d)
    <3> HIDE DEF t, d
    <3>q. QED BY <1>1, <1>3 DEF EndsAt
  <2> HIDE DEF t, d
  <2>2. t = Last(s, n)
    BY DEF t
  <2>q. QED BY <1>3, <1>5, <1>7, <2>1, <2>2

(* Every set of nodes is listed without duplicates.                         *)
LEMMA InOrderProperties ==
  ASSUME NEW X, X \subseteq Item
  PROVE  /\ InOrder(X) \in Seq(X) /\ InOrder(X) \in Seq(Item)
         /\ Elements(InOrder(X)) = X /\ Distinct(InOrder(X))
         /\ IsFiniteSet(X) /\ Len(InOrder(X)) = Cardinality(X)
<1> DEFINE m == N + F
           s == [i \in 1..m |-> i]
<1>1. InOrder(X) = Keep(s, X)
  BY DEF InOrder, Listed, Item
<1>2. m \in Nat
  BY Sizes
<1> HIDE DEF m
<1>3. s \in Seq(1..m) /\ Len(s) = m /\ DOMAIN s = 1..m /\ \A i \in 1..m : s[i] = i
  BY <1>2
<1>4. X \subseteq 1..m
  BY DEF Item, m
<1> HIDE DEF s
<1>5. Keep(s, X) \in Seq(1..m) /\ Elements(Keep(s, X)) = {s[i] : i \in X \cap (1..Len(s))}
  BY <1>3, KeepElements
<1>6. {s[i] : i \in X \cap (1..Len(s))} = X
  BY <1>3, <1>4
<1>7. Distinct(s)
  BY <1>3 DEF Distinct
<1>8. Distinct(Keep(s, X))
  BY <1>3, <1>7, KeepDistinct
<1>9. IsFiniteSet(X) /\ Len(Keep(s, X)) = Cardinality(X)
  <2>1. Elements(Keep(s, X)) = X
    BY <1>5, <1>6
  <2>q. QED BY <1>5, <1>8, <2>1, DistinctCount
<1>10. Keep(s, X) \in Seq(X)
  BY <1>5, <1>6, SeqOfElements
<1>11. Keep(s, X) \in Seq(Item)
  BY <1>5 DEF Item, m
<1>q. QED BY <1>1, <1>5, <1>6, <1>8, <1>9, <1>10, <1>11

(* A set of places that lacks none before one that it has is a beginning.   *)
LEMMA InitialPlaces ==
  ASSUME NEW n \in Nat, NEW J \in SUBSET (1..n),
         \A i \in J : \A j \in 1..n : j < i => j \in J
  PROVE  Cardinality(J) \in 0..n /\ J = 1..Cardinality(J)
<1> DEFINE T == {k \in Nat : k <= n => 1..k \subseteq J \/ \E m \in 0..k : J = 1..m}
<1>1. 0 \in T
  OBVIOUS
<1>2. ASSUME NEW k \in Nat, k \in T PROVE k + 1 \in T
  <2> SUFFICES ASSUME k + 1 <= n PROVE 1..(k + 1) \subseteq J \/ \E m \in 0..(k + 1) : J = 1..m
    OBVIOUS
  <2>1. CASE \E m \in 0..k : J = 1..m
    BY <2>1
  <2>2. CASE 1..k \subseteq J /\ k + 1 \in J
    <3>1. \A i \in 1..(k + 1) : i \in 1..k \/ i = k + 1
      OBVIOUS
    <3>q. QED BY <2>2, <3>1
  <2>3. CASE 1..k \subseteq J /\ k + 1 \notin J
    <3>1. \A i \in J : i \in 1..k
      <4> SUFFICES ASSUME NEW i \in J PROVE i \in 1..k
        OBVIOUS
      <4>1. ~(k + 1 < i)
        BY <2>3
      <4>q. QED BY <2>3, <4>1
    <3>2. J = 1..k
      BY <2>3, <3>1
    <3>q. QED BY <3>2
  <2>4. 1..k \subseteq J \/ \E m \in 0..k : J = 1..m
    BY <1>2
  <2>q. QED BY <2>1, <2>2, <2>3, <2>4
<1>3. n \in T
  <2> HIDE DEF T
  <2>q. QED BY <1>1, <1>2, InductionOverNat
<1>4. PICK m \in 0..n : J = 1..m
  <2>1. 1..n \subseteq J \/ \E m \in 0..n : J = 1..m
    BY <1>3
  <2>2. n \in 0..n
    OBVIOUS
  <2>3. 1..n \subseteq J => J = 1..n
    OBVIOUS
  <2>q. QED BY <2>1, <2>2, <2>3
<1>5. Cardinality(1..m) = m
  <2>1. m \in Int /\ 1 \in Int /\ m \in Nat
    OBVIOUS
  <2>2. Cardinality(1..m) = IF 1 > m THEN 0 ELSE m - 1 + 1
    BY <2>1, FS_Interval
  <2>q. QED BY <2>1, <2>2
<1>q. QED BY <1>4, <1>5

(* The places of the first i that hold what s lacks.                        *)
Fresh(xs, i, s) == {j \in 1..i : xs[j] \notin Elements(s)}

LEMMA FreshProperties ==
  ASSUME NEW xs, NEW s, NEW i \in Nat
  PROVE  /\ IsFiniteSet(Fresh(xs, i, s)) /\ Cardinality(Fresh(xs, i, s)) \in Nat
         /\ Fresh(xs, 0, s) = {}
         /\ \A j \in 0..i : Cardinality(Fresh(xs, j, s)) <= Cardinality(Fresh(xs, i, s))
         /\ Cardinality(Fresh(xs, i + 1, s)) <= Cardinality(Fresh(xs, i, s)) + 1
<1>1. ASSUME NEW k \in Nat PROVE IsFiniteSet(Fresh(xs, k, s)) /\ Cardinality(Fresh(xs, k, s)) \in Nat
  <2>1. IsFiniteSet(1..k)
    BY FS_Interval
  <2>2. Fresh(xs, k, s) \in SUBSET (1..k)
    BY DEF Fresh
  <2>q. QED BY <2>1, <2>2, FS_Subset, FS_CardinalityType
<1>2. Fresh(xs, 0, s) = {}
  BY DEF Fresh
<1>3. ASSUME NEW j \in 0..i PROVE Cardinality(Fresh(xs, j, s)) <= Cardinality(Fresh(xs, i, s))
  <2>1. Fresh(xs, j, s) \in SUBSET Fresh(xs, i, s)
    BY DEF Fresh
  <2>q. QED BY <1>1, <2>1, FS_Subset
<1>4. Cardinality(Fresh(xs, i + 1, s)) <= Cardinality(Fresh(xs, i, s)) + 1
  <2> DEFINE A == Fresh(xs, i, s)
             B == Fresh(xs, i + 1, s)
  <2>1. B \in SUBSET (A \cup {i + 1})
    BY DEF Fresh
  <2>2. IsFiniteSet(A) /\ Cardinality(A) \in Nat /\ Cardinality(B) \in Nat
    BY <1>1
  <2> HIDE DEF A, B
  <2>3. IsFiniteSet(A \cup {i + 1}) /\ Cardinality(A \cup {i + 1}) \in Nat
        /\ Cardinality(A \cup {i + 1}) <= Cardinality(A) + 1
    <3>1. /\ IsFiniteSet(A \cup {i + 1})
          /\ Cardinality(A \cup {i + 1}) = IF i + 1 \in A THEN Cardinality(A) ELSE Cardinality(A) + 1
      BY <2>2, FS_AddElement
    <3>q. QED BY <2>2, <3>1
  <2>4. Cardinality(B) <= Cardinality(A \cup {i + 1})
    BY <2>1, <2>3, FS_Subset
  <2>5. Cardinality(B) <= Cardinality(A) + 1
    BY <2>2, <2>3, <2>4
  <2>q. QED BY <2>5 DEF A, B
<1>q. QED BY <1>1, <1>2, <1>3, <1>4

(* What add takes of xs: its first m, none if there is no room, and less    *)
(* than all only if they fill the room.                                     *)
TakesFirst(xs, m) ==
  /\ m \in 0..Len(xs) /\ Taken(xs) = SubSeq(xs, 1, m)
  /\ Len(sel) + Cardinality(Fresh(xs, m, sel)) <= cap
  /\ m = Len(xs) \/ Len(sel) + Cardinality(Fresh(xs, m, sel)) = cap
  /\ Len(sel) >= cap => m = 0

LEMMA TakenProperties ==
  ASSUME sel \in Seq(Item), cap \in Nat, Len(sel) <= cap, NEW A, NEW xs \in Seq(A)
  PROVE  \E m : TakesFirst(xs, m)
<1> DEFINE l == Len(xs)
           room == cap - Len(sel)
           C(i) == Cardinality(Fresh(xs, i, sel))
           J == {i \in 1..l : C(i - 1) < room}
           m == Cardinality(J)
<1>1. l \in Nat /\ DOMAIN xs = 1..l /\ Len(sel) \in Nat /\ room \in Nat
  BY LenProperties
<1>2. /\ \A i \in 0..l : C(i) \in Nat /\ C(i + 1) <= C(i) + 1
      /\ \A i \in 0..l : \A j \in 0..i : C(j) <= C(i)
      /\ C(0) = 0
  <2>1. \A i \in 0..l : i \in Nat
    BY <1>1
  <2> HIDE DEF l
  <2>2. C(0) = 0
    BY FreshProperties, FS_EmptySet
  <2>q. QED BY <2>1, <2>2, FreshProperties
<1>3. Taken(xs) = SubSeq(xs, 1, m)
  <2>1. J = {i \in DOMAIN xs : Cardinality({j \in 1..(i - 1) : xs[j] \notin Elements(sel)}) < cap - Len(sel)}
    BY <1>1 DEF Fresh
  <2>q. QED BY <2>1 DEF Taken
<1> HIDE DEF C, l, room
<1>4. m \in 0..l /\ J = 1..m
  <2>1. \A i \in J : \A j \in 1..l : j < i => j \in J
    <3> SUFFICES ASSUME NEW i \in J, NEW j \in 1..l, j < i PROVE C(j - 1) < room
      OBVIOUS
    <3>1. i - 1 \in 0..l /\ j - 1 \in 0..(i - 1) /\ j - 1 \in 0..l
      BY <1>1
    <3>2. C(j - 1) <= C(i - 1) /\ C(i - 1) \in Nat /\ C(j - 1) \in Nat
      BY <1>2, <3>1
    <3>q. QED BY <1>1, <3>2
  <2>2. J \in SUBSET (1..l)
    OBVIOUS
  <2> HIDE DEF J
  <2>q. QED BY <1>1, <2>1, <2>2, InitialPlaces
<1>5. \A i \in 1..l : i \in 1..m <=> C(i - 1) < room
  BY <1>4
<1> HIDE DEF J, m
<1>6. C(m) <= room /\ C(m) \in Nat
  <2>1. CASE m = 0
    BY <1>1, <1>2, <2>1
  <2>2. CASE m # 0
    <3>1. m \in 1..m /\ m \in 1..l /\ m - 1 \in 0..l /\ (m - 1) + 1 = m
      BY <1>1, <1>4, <2>2
    <3>2. C(m - 1) < room /\ C(m) <= C(m - 1) + 1 /\ C(m) \in Nat /\ C(m - 1) \in Nat
      BY <1>2, <1>4, <1>5, <3>1
    <3>q. QED BY <1>1, <3>2
  <2>q. QED BY <2>1, <2>2
<1>7. m = l \/ C(m) >= room
  <2> SUFFICES ASSUME m # l PROVE C(m) >= room
    OBVIOUS
  <2>1. m + 1 \in 1..l /\ m + 1 \notin 1..m /\ (m + 1) - 1 = m
    BY <1>1, <1>4
  <2>2. ~(C(m) < room)
    BY <1>5, <2>1
  <2>q. QED BY <1>1, <1>6, <2>2
<1>8. Len(sel) >= cap => m = 0
  <2> SUFFICES ASSUME Len(sel) >= cap, m # 0 PROVE FALSE
    OBVIOUS
  <2>1. room = 0
    BY <1>1 DEF room
  <2>2. 1 \in 1..m /\ 1 \in 1..l /\ 1 - 1 = 0
    BY <1>1, <1>4
  <2>q. QED BY <1>2, <1>5, <2>1, <2>2
<1>9. /\ Len(sel) + Cardinality(Fresh(xs, m, sel)) <= cap
      /\ m = Len(xs) \/ Len(sel) + Cardinality(Fresh(xs, m, sel)) = cap
  <2>1. room = cap - Len(sel) /\ l = Len(xs) /\ C(m) = Cardinality(Fresh(xs, m, sel))
    BY DEF room, l, C
  <2>q. QED BY <1>1, <1>6, <1>7, <2>1
<1>10. l = Len(xs)
  BY DEF l
<1>11. TakesFirst(xs, m)
  BY <1>3, <1>4, <1>8, <1>9, <1>10 DEF TakesFirst
<1>q. QED BY <1>11

(* The effect of add: what was there stays in place, what is taken is there *)
(* in the end, all of xs unless the view is then full; nothing is twice.    *)
AddEffect(xs) ==
  /\ sel' \in Seq(Item) /\ Len(sel') <= cap /\ Distinct(sel')
  /\ Len(sel) <= Len(sel') /\ \A i \in 1..Len(sel) : sel'[i] = sel[i]
  /\ Elements(sel') = Elements(sel) \cup Elements(Taken(xs))
  /\ \A i \in (Len(sel) + 1)..Len(sel') : sel'[i] \in Elements(Taken(xs))
  /\ Taken(xs) = xs \/ Len(sel') >= cap
  /\ Len(Taken(xs)) <= Len(xs) /\ \A i \in 1..Len(Taken(xs)) : Taken(xs)[i] = xs[i]
  /\ Elements(Taken(xs)) \subseteq Elements(xs)
  /\ Len(sel) >= cap => Taken(xs) = <<>> /\ sel' = sel
  /\ sel = <<>> /\ Len(sel') >= 1 => sel'[1] = xs[1]

LEMMA AddProperties ==
  ASSUME sel \in Seq(Item), cap \in Nat, Len(sel) <= cap, Distinct(sel),
         NEW xs \in Seq(Item), Distinct(xs), Add(xs)
  PROVE  AddEffect(xs)
<1> DEFINE ys == Taken(xs)
           I == {i \in DOMAIN ys : ys[i] \notin Elements(sel)}
           new == Keep(ys, I)
           n == Len(sel)
           l == Len(xs)
<1>1. PICK m : TakesFirst(xs, m)
  BY TakenProperties
<1>2. /\ m \in 0..Len(xs) /\ ys = SubSeq(xs, 1, m)
      /\ n + Cardinality(Fresh(xs, m, sel)) <= cap
      /\ m = Len(xs) \/ n + Cardinality(Fresh(xs, m, sel)) = cap
      /\ n >= cap => m = 0
  BY <1>1 DEF TakesFirst
<1>3. /\ l \in Nat /\ DOMAIN xs = 1..l /\ n \in Nat /\ m \in Nat /\ m <= l /\ DOMAIN sel = 1..n
      /\ n <= cap /\ l = Len(xs) /\ n = Len(sel)
  BY <1>2, LenProperties
<1>4. ys = First(xs, m)
  <2>1. (IF Len(xs) < m THEN Len(xs) ELSE m) = m
    <3>1. l \in Nat /\ m \in Nat /\ m <= l
      BY <1>3
    <3>2. (IF l < m THEN l ELSE m) = m
      <4> HIDE DEF l, n
      <4>q. QED BY <3>1, SMT
    <3>q. QED BY <3>2
  <2>2. First(xs, m) = SubSeq(xs, 1, m)
    BY <2>1, Zenon DEF First
  <2> HIDE DEF ys
  <2>q. QED BY <1>2, <2>2
<1>5. /\ ys \in Seq(Item) /\ Len(ys) = m /\ \A i \in 1..m : ys[i] = xs[i]
      /\ m = Len(xs) => ys = xs
      /\ Elements(ys) \subseteq Elements(xs) /\ Distinct(ys)
  <2> HIDE DEF ys
  <2>1. /\ ys \in Seq(Item) /\ Len(ys) <= m
        /\ \A i \in 1..Len(ys) : ys[i] = xs[i]
        /\ Len(xs) <= m => ys = xs
        /\ Len(xs) >= m => Len(ys) = m
        /\ Elements(ys) \subseteq Elements(xs)
        /\ Distinct(ys)
    <3>1. /\ First(xs, m) \in Seq(Item) /\ Len(First(xs, m)) <= m
          /\ \A i \in 1..Len(First(xs, m)) : First(xs, m)[i] = xs[i]
          /\ Len(xs) <= m => First(xs, m) = xs
          /\ Len(xs) >= m => Len(First(xs, m)) = m
          /\ Elements(First(xs, m)) \subseteq Elements(xs)
          /\ Distinct(First(xs, m))
      <4> HIDE DEF l
      <4>q. QED BY <1>3, FirstProperties
    <3>q. QED BY <1>4, <3>1
  <2>2. Len(xs) >= m /\ (m = Len(xs) => Len(xs) <= m)
    <3> HIDE DEF l
    <3>q. QED BY <1>3
  <2>q. QED BY <2>1, <2>2
<1>6. sel' = sel \o new
  BY DEF Add, NotIn
<1> HIDE DEF ys
<1>7. DOMAIN ys = 1..m
  BY <1>5, LenProperties
<1>8. I = Fresh(xs, m, sel) /\ I \subseteq 1..m /\ I \cap (1..Len(ys)) = I
  <2>1. \A i \in 1..m : ys[i] = xs[i]
    BY <1>5
  <2>q. QED BY <1>5, <1>7, <2>1 DEF Fresh
<1> HIDE DEF I
<1>9. /\ new \in Seq(Item) /\ Elements(new) = {ys[i] : i \in I} /\ Distinct(new)
      /\ Len(new) = Cardinality(I)
  <2>1. new \in Seq(Item) /\ Elements(new) = {ys[i] : i \in I \cap (1..Len(ys))}
    BY <1>5, KeepElements
  <2>2. Distinct(new)
    BY <1>5, KeepDistinct
  <2>3. Len(new) = Cardinality(I \cap (1..Len(ys)))
    BY <1>5, KeepProperties
  <2> HIDE DEF new
  <2>q. QED BY <1>8, <2>1, <2>2, <2>3
<1>10. /\ {ys[i] : i \in I} \subseteq Elements(ys)
       /\ {ys[i] : i \in I} \cap Elements(sel) = {}
       /\ Elements(ys) \subseteq Elements(sel) \cup {ys[i] : i \in I}
  BY <1>7 DEF I, Elements
<1>11. sel = <<>> /\ Len(new) >= 1 => new[1] = xs[1]
  <2> SUFFICES ASSUME sel = <<>>, Len(new) >= 1 PROVE new[1] = xs[1]
    OBVIOUS
  <2>1. PICK f : Places(f, new, ys, I, Len(ys))
    BY <1>5, KeepProperties
  <2>2. Elements(sel) = {} /\ I = 1..m
    BY <1>7 DEF Elements, I
  <2>3. Len(new) \in Nat
    BY <1>9
  <2> HIDE DEF new
  <2>4. /\ \A i \in 1..Len(new) : f[i] \in 1..m /\ new[i] = ys[f[i]]
        /\ \A i, j \in 1..Len(new) : i < j => f[i] < f[j]
        /\ \A p \in 1..m : \E i \in 1..Len(new) : f[i] = p
    BY <1>5, <1>8, <2>1, <2>2 DEF Places
  <2>5. 1 \in 1..Len(new)
    BY <2>3
  <2>6. f[1] \in 1..m /\ 1 \in 1..m
    BY <1>3, <2>4, <2>5
  <2>7. PICK i \in 1..Len(new) : f[i] = 1
    BY <2>4, <2>6
  <2>8. ~(1 < i)
    <3> SUFFICES ASSUME 1 < i PROVE FALSE
      OBVIOUS
    <3>1. f[1] < f[i]
      BY <2>4, <2>5
    <3>q. QED BY <1>3, <2>6, <2>7, <3>1
  <2>9. i = 1
    BY <2>3, <2>8
  <2>q. QED BY <1>5, <2>4, <2>5, <2>6, <2>7, <2>9
<1> HIDE DEF new
<1>12. Len(new) \in Nat /\ DOMAIN new = 1..Len(new)
  BY <1>9, LenProperties
<1>13. /\ sel' \in Seq(Item) /\ Len(sel') = n + Len(new) /\ DOMAIN sel' = 1..(n + Len(new))
       /\ \A i \in 1..(n + Len(new)) : sel'[i] = IF i <= n THEN sel[i] ELSE new[i - n]
  <2>1. /\ sel \o new \in Seq(Item) /\ Len(sel \o new) = Len(sel) + Len(new)
        /\ \A i \in 1..(Len(sel) + Len(new)) : (sel \o new)[i] = IF i <= Len(sel) THEN sel[i] ELSE new[i - Len(sel)]
    BY <1>9, ConcatProperties
  <2>2. DOMAIN (sel \o new) = 1..Len(sel \o new)
    BY <2>1, LenProperties
  <2>q. QED BY <1>6, <2>1, <2>2
<1>14. Elements(sel') = Elements(sel) \cup Elements(ys)
  <2>1. Elements(sel') = Elements(sel) \cup Elements(new)
    BY <1>6, <1>9, ConcatElements
  <2>q. QED BY <1>9, <1>10, <2>1
<1>15. /\ \A i \in 1..n : i \in 1..(n + Len(new)) /\ i <= n
       /\ \A i \in (n + 1)..(n + Len(new)) : i \in 1..(n + Len(new)) /\ ~(i <= n) /\ i - n \in 1..Len(new)
       /\ \A i \in 1..(n + Len(new)) : i \in 1..n \/ i \in (n + 1)..(n + Len(new))
       /\ \A i, j \in (n + 1)..(n + Len(new)) : i - n = j - n => i = j
  BY <1>3, <1>12
<1>16. \A i \in 1..n : sel'[i] = sel[i] /\ sel'[i] \in Elements(sel)
  BY <1>3, <1>13, <1>15 DEF Elements
<1>17. \A i \in (n + 1)..(n + Len(new)) : sel'[i] = new[i - n] /\ sel'[i] \in Elements(new)
  BY <1>12, <1>13, <1>15 DEF Elements
<1>18. Distinct(sel')
  <2>1. Elements(sel) \cap Elements(new) = {}
    BY <1>9, <1>10
  <2>q. QED BY <1>6, <1>9, <2>1, ConcatDistinct
<1>19. Len(sel') <= cap /\ n <= Len(sel') /\ (ys = xs \/ Len(sel') >= cap)
  <2>1. Len(sel') = n + Cardinality(Fresh(xs, m, sel)) /\ Len(sel') \in Nat
    BY <1>8, <1>9, <1>12, <1>13, <1>3
  <2>2. ys = xs \/ Len(sel') = cap
    BY <1>2, <1>5, <2>1
  <2>3. Len(sel') = n + Len(new)
    BY <1>13
  <2>4. Len(sel') <= cap
    BY <1>2, <2>1
  <2> HIDE DEF n, l
  <2>q. QED BY <1>3, <1>12, <2>2, <2>3, <2>4
<1>20. n >= cap => ys = <<>> /\ sel' = sel
  <2> SUFFICES ASSUME n >= cap PROVE ys = <<>> /\ sel' = sel
    OBVIOUS
  <2>1. Len(ys) = 0
    BY <1>2, <1>5
  <2>2. ys = <<>>
    BY <1>5, <2>1, EmptySeq
  <2>3. Elements(new) \subseteq Elements(ys) /\ Elements(ys) = {}
    <3>1. Elements(<<>>) = {}
      BY DEF Elements
    <3>q. QED BY <1>9, <1>10, <2>2, <3>1
  <2>4. new = <<>>
    <3>1. ~(1 \in DOMAIN new)
      BY <2>3 DEF Elements
    <3>2. Len(new) = 0
      BY <1>12, <3>1
    <3>q. QED BY <1>9, <3>2, EmptySeq
  <2>q. QED BY <1>6, <2>2, <2>4, ConcatEmptySeq
<1>21. sel = <<>> /\ Len(sel') >= 1 => sel'[1] = xs[1]
  <2> SUFFICES ASSUME sel = <<>>, Len(sel') >= 1 PROVE sel'[1] = xs[1]
    OBVIOUS
  <2>1. sel' = new
    BY <1>6, <1>9, ConcatEmptySeq
  <2>q. QED BY <1>11, <2>1
<1>22. ys = Taken(xs) /\ n = Len(sel)
  BY DEF ys, n
<1>23. /\ \A i \in (Len(sel) + 1)..Len(sel') : sel'[i] \in Elements(Taken(xs))
       /\ Len(Taken(xs)) <= Len(xs) /\ \A i \in 1..Len(Taken(xs)) : Taken(xs)[i] = xs[i]
  <2>1. Elements(new) \subseteq Elements(ys)
    BY <1>9, <1>10
  <2>2. Len(ys) <= Len(xs) /\ \A i \in 1..Len(ys) : ys[i] = xs[i]
    BY <1>3, <1>5
  <2>3. \A i \in (n + 1)..Len(sel') : sel'[i] \in Elements(ys)
    BY <1>13, <1>17, <2>1
  <2>q. QED BY <1>22, <2>2, <2>3
<1>q. QED BY <1>5, <1>13, <1>14, <1>16, <1>18, <1>19, <1>20, <1>21, <1>22, <1>23 DEF AddEffect

-----------------------------------------------------------------------------
(* The spawn relation: up, and down. *)

Relation == parent \in [Process -> 0..N] /\ \A p \in Process : parent[p] # p

LEMMA UpProperties ==
  ASSUME Relation, NEW k \in 0..N
  PROVE  /\ Up(k) \in [0..N -> 0..N] /\ Up(k)[0] = k
         /\ \A n \in 1..N : Up(k)[n] = ParentOf[Up(k)[n - 1]]
<1> DEFINE Def(f) == [n \in 0..N |-> IF n = 0 THEN k ELSE ParentOf[f[n - 1]]]
           Move == [n \in 1..N |-> ParentOf]
           up == CHOOSE f : f = Def(f)
           S == 0..N
<1>1. Up(k) = up
  BY DEF Up
<1>2. ParentOf \in [S -> S] /\ N \in Nat /\ k \in S /\ Move \in [1..N -> [S -> S]]
  <2>1. N \in Nat /\ 0 \in S
    BY Sizes
  <2>2. \A x \in S : (IF x = 0 THEN 0 ELSE parent[x]) \in S
    BY <2>1 DEF Relation, Process
  <2>3. ParentOf \in [S -> S]
    BY <2>2 DEF ParentOf
  <2> HIDE DEF S
  <2>q. QED BY <2>1, <2>3 DEF S
<1>3. PICK f : Solves(f, S, N, k, Move)
  <2> HIDE DEF S, Move
  <2>q. QED BY <1>2, RecursionExists
<1>4. f = Def(f)
  <2>1. f = [n \in 0..N |-> f[n]] /\ f[0] = k /\ \A n \in 1..N : f[n] = Move[n][f[n - 1]]
    BY <1>3 DEF Solves
  <2>2. \A n \in 1..N : Move[n] = ParentOf
    OBVIOUS
  <2>3. \A n \in 0..N : n = 0 \/ n \in 1..N
    BY <1>2
  <2> HIDE DEF Move
  <2>4. \A n \in 0..N : f[n] = IF n = 0 THEN k ELSE ParentOf[f[n - 1]]
    BY <2>1, <2>2, <2>3
  <2>q. QED BY <2>1, <2>4, Zenon
<1>5. up = Def(up)
  <2> HIDE DEF Def
  <2>q. QED BY <1>4
<1>6. up = [n \in 0..N |-> up[n]] /\ up[0] = k /\ \A n \in 1..N : up[n] = ParentOf[up[n - 1]]
  <2> HIDE DEF up
  <2>1. up = [n \in 0..N |-> up[n]] /\ \A n \in 0..N : up[n] = IF n = 0 THEN k ELSE ParentOf[up[n - 1]]
    BY <1>5, Zenon
  <2>2. 0 \in 0..N /\ \A n \in 1..N : n \in 0..N /\ n # 0
    BY <1>2
  <2>q. QED BY <2>1, <2>2, Zenon
<1>7. \A n \in 0..N : up[n] \in S
  <2> DEFINE T == {n \in Nat : n <= N => up[n] \in S}
  <2> HIDE DEF up, S
  <2>1. 0 \in T
    BY <1>2, <1>6
  <2>2. ASSUME NEW n \in Nat, n \in T PROVE n + 1 \in T
    <3> SUFFICES ASSUME n + 1 <= N PROVE up[n + 1] \in S
      OBVIOUS
    <3>1. up[n] \in S /\ n + 1 \in 1..N /\ (n + 1) - 1 = n
      BY <1>2, <2>2
    <3>2. up[n + 1] = ParentOf[up[n]]
      BY <1>6, <3>1
    <3>q. QED BY <1>2, <3>1, <3>2
  <2>3. Nat \subseteq T
    <3> HIDE DEF T
    <3>q. QED BY <2>1, <2>2, InductionOverNat
  <2>q. QED BY <1>2, <2>3
<1>q. QED
  <2> HIDE DEF up
  <2>q. QED BY <1>1, <1>6, <1>7

LEMMA DownProperties ==
  ASSUME Relation, NEW k \in Process
  PROVE  /\ Down(k) \in [0..N -> SUBSET Process] /\ Down(k)[0] = {k}
         /\ \A n \in 1..N : Down(k)[n] = Down(k)[n - 1] \cup {c \in Process : parent[c] \in Down(k)[n - 1]}
<1> DEFINE Step(A) == A \cup {c \in Process : parent[c] \in A}
           Def(f) == [n \in 0..N |-> IF n = 0 THEN {k} ELSE Step(f[n - 1])]
           S == SUBSET Process
           Move == [n \in 1..N |-> [A \in S |-> Step(A)]]
           down == CHOOSE f : f = Def(f)
           d0 == {k}
<1>1. Down(k) = down
  BY DEF Down
<1>2. N \in Nat /\ d0 \in S /\ Move \in [1..N -> [S -> S]]
  <2>1. N \in Nat /\ d0 \in S
    BY Sizes
  <2>2. \A A \in S : Step(A) \in S
    OBVIOUS
  <2> HIDE DEF S, Step
  <2>q. QED BY <2>1, <2>2
<1>3. PICK f : Solves(f, S, N, d0, Move)
  <2> HIDE DEF S, Move, d0
  <2>1. \E f : Solves(f, S, N, d0, Move)
    BY <1>2, RecursionExists
  <2>q. QED BY <2>1
<1>4. f = Def(f)
  <2> HIDE DEF Step
  <2>1. /\ f \in [0..N -> S] /\ f = [n \in 0..N |-> f[n]] /\ f[0] = d0
        /\ \A n \in 1..N : f[n] = Move[n][f[n - 1]]
    <3> HIDE DEF S, Move, d0
    <3>q. QED BY <1>3 DEF Solves
  <2>2. \A n \in 1..N : \A A \in S : Move[n][A] = Step(A)
    <3> HIDE DEF S
    <3>q. QED OBVIOUS
  <2>3. \A n \in 1..N : n - 1 \in 0..N
    BY <1>2
  <2>4. \A n \in 0..N : n = 0 \/ n \in 1..N
    BY <1>2
  <2>5. \A n \in 0..N : f[n] = IF n = 0 THEN {k} ELSE Step(f[n - 1])
    <3>1. \A n \in 1..N : f[n] = Step(f[n - 1])
      <4> HIDE DEF S, Move
      <4>q. QED BY <2>1, <2>2, <2>3
    <3>2. f[0] = {k}
      BY <2>1
    <3> HIDE DEF S, Move
    <3>q. QED BY <2>4, <3>1, <3>2
  <2>q. QED BY <2>1, <2>5, Zenon
<1>5. down = Def(down)
  <2> HIDE DEF Def
  <2>q. QED BY <1>4
<1>6. /\ down = [n \in 0..N |-> down[n]] /\ down[0] = {k}
      /\ \A n \in 1..N : down[n] = Step(down[n - 1])
  <2> HIDE DEF down, Step
  <2>1. down = [n \in 0..N |-> down[n]] /\ \A n \in 0..N : down[n] = IF n = 0 THEN {k} ELSE Step(down[n - 1])
    BY <1>5, Zenon
  <2>2. 0 \in 0..N /\ \A n \in 1..N : n \in 0..N /\ n # 0
    BY <1>2
  <2>q. QED BY <2>1, <2>2, Zenon
<1>7. \A n \in 0..N : down[n] \in S
  <2> DEFINE T == {n \in Nat : n <= N => down[n] \in S}
  <2>0. \A A \in S : Step(A) \in S
    OBVIOUS
  <2> HIDE DEF down, Step
  <2>1. 0 \in T
    <3> HIDE DEF S
    <3>q. QED BY <1>2, <1>6
  <2>2. ASSUME NEW n \in Nat, n \in T PROVE n + 1 \in T
    <3> SUFFICES ASSUME n + 1 <= N PROVE down[n + 1] \in S
      OBVIOUS
    <3> HIDE DEF S
    <3>1. down[n] \in S /\ n + 1 \in 1..N /\ (n + 1) - 1 = n
      BY <1>2, <2>2
    <3>2. down[n + 1] = Step(down[n])
      BY <1>6, <3>1
    <3>q. QED BY <2>0, <3>1, <3>2
  <2>3. Nat \subseteq T
    <3> HIDE DEF T
    <3>q. QED BY <2>1, <2>2, InductionOverNat
  <2> HIDE DEF S
  <2>q. QED BY <1>2, <2>3
<1>q. QED
  <2>1. down \in [0..N -> SUBSET Process]
    <3> HIDE DEF down
    <3>q. QED BY <1>6, <1>7
  <2>2. /\ down[0] = {k}
        /\ \A n \in 1..N : down[n] = down[n - 1] \cup {c \in Process : parent[c] \in down[n - 1]}
    <3> HIDE DEF down
    <3>q. QED BY <1>6, Zenon
  <2> HIDE DEF down
  <2>3. Down(k) = down
    BY <1>1
  <2>q. QED BY <2>1, <2>2, <2>3

(* What is below each process: itself, what it spawned and so on, no more.  *)
Below == [k \in Process |-> Down(k)[N]]

Closed(X) == \A x \in X : \A c \in Process : parent[c] = x => c \in X

LEMMA BelowProperties ==
  ASSUME Relation, NEW k \in Process
  PROVE  Below[k] \subseteq Process /\ k \in Below[k] /\ Closed(Below[k])
<1> DEFINE down == Down(k)
           Big(n) == IsFiniteSet(down[n]) /\ (Closed(down[n]) \/ Cardinality(down[n]) >= n + 1)
           T == {n \in Nat : n <= N => k \in down[n] /\ Big(n)}
<1>0. N \in Nat /\ Below[k] = down[N]
  BY Sizes DEF Below
<1>1. /\ \A n \in 0..N : down[n] \subseteq Process
      /\ down[0] = {k}
      /\ \A n \in 1..N : down[n] = down[n - 1] \cup {c \in Process : parent[c] \in down[n - 1]}
  BY DownProperties
<1> HIDE DEF down
<1>2. \A n \in 0..N : IsFiniteSet(down[n]) /\ Cardinality(down[n]) \in Nat
  <2> SUFFICES ASSUME NEW n \in 0..N PROVE IsFiniteSet(down[n]) /\ Cardinality(down[n]) \in Nat
    OBVIOUS
  <2>1. down[n] \in SUBSET Process
    BY <1>1
  <2>q. QED BY <2>1, Sizes, FS_Subset, FS_CardinalityType
<1>3. 0 \in T
  <2>1. Cardinality({k}) = 1
    BY FS_Singleton
  <2>2. 0 \in 0..N /\ 1 >= 0 + 1
    BY <1>0
  <2>3. k \in down[0] /\ Big(0)
    BY <1>1, <1>2, <2>1, <2>2
  <2>q. QED BY <2>3
<1>4. ASSUME NEW n \in Nat, n \in T PROVE n + 1 \in T
  <2> SUFFICES ASSUME n + 1 <= N PROVE k \in down[n + 1] /\ Big(n + 1)
    OBVIOUS
  <2> DEFINE A == down[n]
             B == down[n + 1]
  <2>1. n \in 0..N /\ n + 1 \in 1..N /\ n + 1 \in 0..N /\ (n + 1) - 1 = n
    BY <1>0
  <2>2. B = A \cup {c \in Process : parent[c] \in A}
    BY <1>1, <2>1
  <2>3. /\ IsFiniteSet(A) /\ Cardinality(A) \in Nat /\ IsFiniteSet(B) /\ Cardinality(B) \in Nat
        /\ k \in A /\ (Closed(A) \/ Cardinality(A) >= n + 1)
    BY <1>2, <1>4, <2>1
  <2> HIDE DEF A, B
  <2>4. CASE Closed(A)
    <3>1. B = A
      BY <2>2, <2>4 DEF Closed
    <3>q. QED BY <2>3, <2>4, <3>1 DEF A, B
  <2>5. CASE ~Closed(A)
    <3>1. PICK x \in A, c \in Process : parent[c] = x /\ c \notin A
      BY <2>5 DEF Closed
    <3>2. A \cup {c} \in SUBSET B
      BY <2>2, <3>1
    <3>3. Cardinality(A \cup {c}) = Cardinality(A) + 1
      BY <2>3, <3>1, FS_AddElement
    <3>4. Cardinality(A \cup {c}) <= Cardinality(B)
      BY <2>3, <3>2, FS_Subset
    <3>5. Cardinality(B) >= (n + 1) + 1
      BY <2>3, <2>5, <3>3, <3>4
    <3>6. k \in B
      BY <2>2, <2>3
    <3>q. QED BY <2>3, <3>5, <3>6 DEF B
  <2>q. QED BY <2>4, <2>5
<1>5. N \in T
  <2> HIDE DEF T
  <2>q. QED BY <1>0, <1>3, <1>4, InductionOverNat
<1>6. k \in down[N] /\ (Closed(down[N]) \/ Cardinality(down[N]) >= N + 1)
  BY <1>0, <1>5
<1>7. down[N] \subseteq Process /\ Cardinality(down[N]) <= N /\ Cardinality(down[N]) \in Nat
  <2>1. N \in 0..N
    BY <1>0
  <2>2. down[N] \in SUBSET Process /\ Cardinality(down[N]) \in Nat
    BY <1>1, <1>2, <2>1
  <2>3. Cardinality(down[N]) <= Cardinality(Process)
    BY <2>2, Sizes, FS_Subset
  <2>q. QED BY <2>2, <2>3, Sizes
<1>8. Closed(down[N])
  BY <1>0, <1>6, <1>7
<1>q. QED BY <1>0, <1>6, <1>7, <1>8

LEMMA BelowIsLeast ==
  ASSUME Relation, NEW k \in Process, NEW X, k \in X, Closed(X)
  PROVE  Below[k] \subseteq X
<1> DEFINE down == Down(k)
           T == {n \in Nat : n <= N => down[n] \subseteq X}
<1>0. N \in Nat /\ Below[k] = down[N]
  BY Sizes DEF Below
<1>1. /\ down[0] = {k}
      /\ \A n \in 1..N : down[n] = down[n - 1] \cup {c \in Process : parent[c] \in down[n - 1]}
  BY DownProperties
<1> HIDE DEF down
<1>2. 0 \in T
  BY <1>1
<1>3. ASSUME NEW n \in Nat, n \in T PROVE n + 1 \in T
  <2> SUFFICES ASSUME n + 1 <= N PROVE down[n + 1] \subseteq X
    OBVIOUS
  <2>1. n + 1 \in 1..N /\ (n + 1) - 1 = n /\ down[n] \subseteq X
    BY <1>0, <1>3
  <2>2. down[n + 1] = down[n] \cup {c \in Process : parent[c] \in down[n]}
    BY <1>1, <2>1
  <2>q. QED BY <2>1, <2>2 DEF Closed
<1>4. N \in T
  <2> HIDE DEF T
  <2>q. QED BY <1>0, <1>2, <1>3, InductionOverNat
<1>q. QED BY <1>0, <1>4

(* Whoever is below a process has a parent below it, but for the process.   *)
LEMMA ParentIsBelow ==
  ASSUME Relation, NEW k \in Process, NEW x \in Below[k], x # k
  PROVE  parent[x] \in Below[k]
<1> DEFINE X == {y \in Below[k] : y = k \/ parent[y] \in Below[k]}
<1>1. Below[k] \subseteq Process /\ k \in Below[k] /\ Closed(Below[k])
  BY BelowProperties
<1>2. Closed(X) /\ k \in X
  BY <1>1 DEF Closed
<1>3. Below[k] \subseteq X
  <2> HIDE DEF X
  <2>q. QED BY <1>2, BelowIsLeast
<1>q. QED BY <1>3

LEMMA BelowIsTransitive ==
  ASSUME Relation, NEW k \in Process, NEW x \in Below[k]
  PROVE  x \in Process /\ Below[x] \subseteq Below[k]
<1>1. Below[k] \subseteq Process /\ Closed(Below[k])
  BY BelowProperties
<1>q. QED BY <1>1, BelowIsLeast

(* Every ancestor has the process below it.                                 *)
LEMMA BelowAncestors ==
  ASSUME Relation, NEW k \in Process, NEW n \in 0..N, Up(k)[n] # 0
  PROVE  Up(k)[n] \in Process /\ k \in Below[Up(k)[n]]
<1> DEFINE up == Up(k)
           T == {m \in Nat : m <= N => up[m] = 0 \/ (up[m] \in Process /\ k \in Below[up[m]])}
<1>0. N \in Nat /\ k \in 0..N /\ \A x \in 0..N : x # 0 => x \in Process
  BY Sizes DEF Process
<1>1. up \in [0..N -> 0..N] /\ up[0] = k /\ \A m \in 1..N : up[m] = ParentOf[up[m - 1]]
  BY <1>0, UpProperties
<1> HIDE DEF up
<1>2. 0 \in T
  BY <1>1, BelowProperties
<1>3. ASSUME NEW m \in Nat, m \in T PROVE m + 1 \in T
  <2> SUFFICES ASSUME m + 1 <= N, up[m + 1] # 0
               PROVE  up[m + 1] \in Process /\ k \in Below[up[m + 1]]
    OBVIOUS
  <2>1. m \in 0..N /\ m + 1 \in 1..N /\ m + 1 \in 0..N /\ (m + 1) - 1 = m
    BY <1>0
  <2>2. up[m] \in 0..N /\ up[m + 1] \in Process /\ up[m + 1] = ParentOf[up[m]]
    BY <1>0, <1>1, <2>1
  <2>3. up[m] # 0 /\ up[m + 1] = parent[up[m]]
    BY <2>2 DEF ParentOf
  <2>4. up[m] \in Process /\ k \in Below[up[m]]
    BY <1>3, <2>1, <2>3
  <2>5. up[m] \in Below[up[m + 1]]
    BY <2>2, <2>3, <2>4, BelowProperties DEF Closed
  <2>6. Below[up[m]] \subseteq Below[up[m + 1]]
    BY <2>2, <2>5, BelowIsTransitive
  <2>q. QED BY <2>2, <2>4, <2>6
<1>4. n \in T
  <2> HIDE DEF T
  <2>q. QED BY <1>2, <1>3, InductionOverNat
<1>q. QED BY <1>4 DEF up

(* An ancestor found below the process makes a cycle.                       *)
LEMMA AncestorBelow ==
  ASSUME Relation, NEW k \in Process, NEW n \in 0..N, Up(k)[n] \in Below[k], Up(k)[n] # k
  PROVE  HasCycle
<1> DEFINE y == Up(k)[n]
<1>0. N \in Nat /\ 0 \notin Process /\ \A x \in Process : x \in 0..N
  BY Sizes DEF Process
<1>1. /\ Below[k] \subseteq Process /\ k \in Below[k] /\ y \in Process /\ k \in Below[y]
  BY <1>0, BelowProperties, BelowAncestors
<1> HIDE DEF y
<1>2. \A x \in Below[k] : parent[x] \in Below[k]
  <2>1. parent[k] \in Below[y]
    BY <1>1, ParentIsBelow DEF y
  <2>2. Below[y] \subseteq Below[k]
    BY <1>1, BelowIsTransitive DEF y
  <2>q. QED BY <2>1, <2>2, ParentIsBelow
<1> DEFINE up == Up(k)
           T == {m \in Nat : m <= N => up[m] \in Below[k]}
<1>3. up \in [0..N -> 0..N] /\ up[0] = k /\ \A m \in 1..N : up[m] = ParentOf[up[m - 1]]
  BY <1>0, UpProperties
<1> HIDE DEF up
<1>4. 0 \in T
  BY <1>1, <1>3
<1>5. ASSUME NEW m \in Nat, m \in T PROVE m + 1 \in T
  <2> SUFFICES ASSUME m + 1 <= N PROVE up[m + 1] \in Below[k]
    OBVIOUS
  <2>1. m + 1 \in 1..N /\ (m + 1) - 1 = m /\ up[m] \in Below[k]
    BY <1>0, <1>5
  <2>2. up[m] \in Process /\ up[m] \in 0..N /\ up[m] # 0
    BY <1>0, <1>1, <2>1
  <2>3. up[m + 1] = parent[up[m]]
    BY <1>3, <2>1, <2>2 DEF ParentOf
  <2>q. QED BY <1>2, <2>1, <2>3
<1>6. N \in T
  <2> HIDE DEF T
  <2>q. QED BY <1>0, <1>4, <1>5, InductionOverNat
<1>7. up[N] # 0
  BY <1>0, <1>1, <1>6
<1>q. QED BY <1>7 DEF HasCycle, up

(* The ancestry is a path down to the process, without repetitions.         *)
LEMMA AncestryProperties ==
  ASSUME Relation, NEW k \in Process
  PROVE  /\ AncestryPath(k) \in Seq(Process) /\ Len(AncestryPath(k)) >= 1
         /\ AncestryPath(k)[Len(AncestryPath(k))] = k
         /\ Distinct(AncestryPath(k))
         /\ \A i \in 2..Len(AncestryPath(k)) : parent[AncestryPath(k)[i]] = AncestryPath(k)[i - 1]
         /\ \A i \in 1..Len(AncestryPath(k)) : \E n \in 0..N : AncestryPath(k)[i] = Up(k)[n]
<1> DEFINE up == Up(k)
           V == {up[n] : n \in 0..N} \ {0}
           depth == Cardinality(V)
           Simple(d) == /\ \A i \in 0..(d - 1) : up[i] # 0
                        /\ \A i, j \in 0..(d - 1) : up[i] = up[j] => i = j
           T == {d \in Nat : d >= 1 /\ d <= N + 1 => Simple(d)}
<1>0. N \in Nat /\ N >= 1 /\ k \in 0..N /\ k # 0 /\ \A x \in 0..N : x # 0 => x \in Process
  BY Sizes DEF Process
<1>1. up \in [0..N -> 0..N] /\ up[0] = k /\ \A n \in 1..N : up[n] = ParentOf[up[n - 1]]
  BY <1>0, UpProperties
<1>2. AncestryPath(k) = [i \in 1..depth |-> up[depth - i]]
  BY DEF AncestryPath
<1> HIDE DEF up
<1>3. ~Simple(N + 1)
  <2> SUFFICES ASSUME Simple(N + 1) PROVE FALSE
    OBVIOUS
  <2> DEFINE f == [i \in 1..(N + 1) |-> up[i - 1]]
             M == N + 1
  <2>1. /\ \A i \in 0..N : up[i] \in Process
        /\ \A i, j \in 0..N : up[i] = up[j] => i = j
    <3>1. (N + 1) - 1 = N
      BY <1>0
    <3>q. QED BY <1>0, <1>1, <3>1
  <2>2. \A i \in 1..M : i - 1 \in 0..N
    BY <1>0
  <2>3. f \in [1..M -> Process]
    BY <2>1, <2>2
  <2>4. \A i, j \in 1..M : f[i] = f[j] => i = j
    <3> SUFFICES ASSUME NEW i \in 1..M, NEW j \in 1..M, f[i] = f[j] PROVE i = j
      OBVIOUS
    <3>1. up[i - 1] = up[j - 1] /\ i - 1 \in 0..N /\ j - 1 \in 0..N
      BY <2>2
    <3>2. i - 1 = j - 1
      BY <2>1, <3>1
    <3>q. QED BY <1>0, <3>2
  <2>5. IsFiniteSet(1..M) /\ Cardinality(1..M) = M /\ M \in Nat /\ N < M
    <3>1. M \in Int /\ 1 \in Int /\ M \in Nat /\ N < M
      BY <1>0
    <3>2. IsFiniteSet(1..M) /\ Cardinality(1..M) = IF 1 > M THEN 0 ELSE M - 1 + 1
      <4> HIDE DEF M
      <4>q. QED BY <3>1, FS_Interval
    <3>3. (IF 1 > M THEN 0 ELSE M - 1 + 1) = M
      BY <1>0
    <3>q. QED BY <3>1, <3>2, <3>3
  <2> HIDE DEF f, M
  <2>6. \E i, j \in 1..M : i # j /\ f[i] = f[j]
    <3> DEFINE D == 1..M
    <3>1. /\ IsFiniteSet(D) /\ IsFiniteSet(Process) /\ Cardinality(Process) < Cardinality(D)
          /\ f \in [D -> Process]
      BY <2>3, <2>5, Sizes
    <3> HIDE DEF D
    <3>2. \E i, j \in D : i # j /\ f[i] = f[j]
      BY <3>1, FS_PigeonHole
    <3>q. QED BY <3>2 DEF D
  <2>q. QED BY <2>4, <2>6
<1>4. PICK d \in 1..N : Simple(d) /\ ~Simple(d + 1)
  <2> SUFFICES ASSUME \A d \in 1..N : Simple(d) => Simple(d + 1) PROVE FALSE
    OBVIOUS
  <2>1. 0 \in T
    OBVIOUS
  <2>2. ASSUME NEW m \in Nat, m \in T PROVE m + 1 \in T
    <3> SUFFICES ASSUME m + 1 <= N + 1 PROVE Simple(m + 1)
      OBVIOUS
    <3>1. CASE m = 0
      <4>1. \A i \in 0..((m + 1) - 1) : i = 0
        BY <3>1
      <4>q. QED BY <1>0, <1>1, <4>1
    <3>2. CASE m # 0
      <4>1. m \in 1..N /\ m >= 1 /\ m <= N + 1
        BY <1>0, <3>2
      <4>2. Simple(m)
        BY <2>2, <4>1
      <4> HIDE DEF Simple
      <4>q. QED BY <4>1, <4>2
    <3>q. QED BY <3>1, <3>2
  <2>3. N + 1 \in T
    <3>1. N + 1 \in Nat
      BY <1>0
    <3> HIDE DEF T
    <3>q. QED BY <2>1, <2>2, <3>1, InductionOverNat
  <2>4. N + 1 >= 1 /\ N + 1 <= N + 1
    BY <1>0
  <2> HIDE DEF Simple
  <2>q. QED BY <1>3, <2>3, <2>4
<1>5. /\ d \in Nat /\ d >= 1 /\ d <= N /\ d \in 0..N /\ (d + 1) - 1 = d
      /\ \A i \in 0..(d - 1) : i \in 0..N /\ up[i] # 0
      /\ \A i, j \in 0..(d - 1) : up[i] = up[j] => i = j
      /\ \A i \in 0..d : i \in 0..(d - 1) \/ i = d
      /\ 0 \in 0..(d - 1)
  BY <1>0, <1>4
<1> DEFINE U == {up[i] : i \in 0..(d - 1)}
<1>6. up[d] = 0 \/ up[d] \in U
  <2> SUFFICES ASSUME up[d] # 0, up[d] \notin U PROVE FALSE
    OBVIOUS
  <2>1. \A i \in 0..(d - 1) : up[i] # up[d]
    OBVIOUS
  <2>2. Simple(d + 1)
    <3>1. \A i \in 0..d : up[i] # 0
      BY <1>5
    <3>2. \A i, j \in 0..d : up[i] = up[j] => i = j
      BY <1>5, <2>1
    <3>q. QED BY <1>5, <3>1, <3>2
  <2>q. QED BY <1>4, <2>2
<1>7. \A n \in 0..N : up[n] \in U \cup {0}
  <2> DEFINE Q == {n \in Nat : n <= N => up[n] \in U \cup {0}}
  <2>1. 0 \in Q
    BY <1>5
  <2>2. ASSUME NEW n \in Nat, n \in Q PROVE n + 1 \in Q
    <3> SUFFICES ASSUME n + 1 <= N PROVE up[n + 1] \in U \cup {0}
      OBVIOUS
    <3>1. n + 1 \in 1..N /\ (n + 1) - 1 = n /\ up[n] \in U \cup {0} /\ up[n + 1] = ParentOf[up[n]]
      <4>1. n + 1 \in 1..N /\ (n + 1) - 1 = n /\ n <= N
        BY <1>0
      <4> HIDE DEF U
      <4>q. QED BY <1>1, <2>2, <4>1
    <3>2. CASE up[n] = 0
      <4>1. ParentOf[0] = 0
        BY <1>0 DEF ParentOf
      <4>q. QED BY <3>1, <3>2, <4>1
    <3>3. CASE up[n] \in U
      <4>1. PICK i \in 0..(d - 1) : up[n] = up[i]
        BY <3>3
      <4>2. i + 1 \in 1..N /\ (i + 1) - 1 = i /\ (i + 1 = d \/ i + 1 \in 0..(d - 1))
        BY <1>0, <1>5
      <4>3. up[n + 1] = up[i + 1]
        BY <1>1, <3>1, <4>1, <4>2
      <4>q. QED BY <1>6, <4>2, <4>3
    <3>q. QED BY <3>1, <3>2, <3>3
  <2>3. Nat \subseteq Q
    <3> HIDE DEF Q
    <3>q. QED BY <2>1, <2>2, InductionOverNat
  <2> HIDE DEF U
  <2>q. QED BY <1>0, <2>3
<1>8. V = U
  <2>1. V \subseteq U
    BY <1>7
  <2>2. U \subseteq V
    BY <1>5
  <2>q. QED BY <2>1, <2>2
<1>9. depth = d
  <2> DEFINE f == [i \in 1..d |-> up[d - i]]
  <2>1. /\ \A i \in 1..d : d - i \in 0..(d - 1)
        /\ \A i \in 0..(d - 1) : d - i \in 1..d /\ d - (d - i) = i
        /\ \A i, j \in 1..d : d - i = d - j => i = j
    BY <1>5
  <2>2. f \in Bijection(1..d, U)
    <3>1. f \in [1..d -> U] /\ \A i, j \in 1..d : f[i] = f[j] => i = j
      BY <1>5, <2>1
    <3>2. \A u \in U : \E i \in 1..d : f[i] = u
      BY <2>1
    <3> HIDE DEF f, U
    <3>q. QED BY <3>1, <3>2 DEF Bijection, Injection, Surjection, IsInjective
  <2>3. IsFiniteSet(1..d) /\ Cardinality(1..d) = d
    <3>1. d \in Int /\ 1 \in Int /\ (IF 1 > d THEN 0 ELSE d - 1 + 1) = d
      BY <1>5
    <3>q. QED BY <3>1, FS_Interval
  <2>4. ExistsBijection(1..d, U)
    BY <2>2 DEF ExistsBijection
  <2> HIDE DEF U
  <2>5. Cardinality(U) = d
    BY <2>3, <2>4, FS_Bijection
  <2>q. QED BY <1>8, <2>5
<1> HIDE DEF V, U, Simple, T
<1> DEFINE a == AncestryPath(k)
<1>10. a = [i \in 1..d |-> up[d - i]]
  BY <1>2, <1>9
<1>11. \A i \in 1..d : d - i \in 0..(d - 1) /\ d - i \in 0..N
  BY <1>5
<1>12. /\ a \in Seq(Process) /\ Len(a) = d /\ DOMAIN a = 1..d
       /\ \A i \in 1..d : a[i] = up[d - i]
  <2>1. \A i \in 1..d : up[d - i] \in Process
    BY <1>0, <1>1, <1>5, <1>11
  <2> HIDE DEF a
  <2>q. QED BY <1>5, <1>10, <2>1
<1> HIDE DEF a
<1>13. a[d] = k
  <2>1. d \in 1..d /\ d - d = 0
    BY <1>5
  <2>q. QED BY <1>1, <1>12, <2>1
<1>14. Distinct(a)
  <2> SUFFICES ASSUME NEW i \in 1..d, NEW j \in 1..d, a[i] = a[j] PROVE i = j
    BY <1>12 DEF Distinct
  <2>1. d - i = d - j
    BY <1>5, <1>11, <1>12
  <2>q. QED BY <1>5, <2>1
<1>15. \A i \in 2..d : parent[a[i]] = a[i - 1]
  <2> SUFFICES ASSUME NEW i \in 2..d PROVE parent[a[i]] = a[i - 1]
    OBVIOUS
  <2>1. /\ i \in 1..d /\ i - 1 \in 1..d /\ d - (i - 1) \in 1..N /\ (d - (i - 1)) - 1 = d - i
    BY <1>5
  <2>2. a[i] = up[d - i] /\ a[i - 1] = up[d - (i - 1)] /\ up[d - (i - 1)] = ParentOf[up[d - i]]
    BY <1>1, <1>12, <2>1
  <2>3. up[d - i] \in 0..N /\ up[d - i] # 0
    BY <1>1, <1>5, <1>11, <2>1
  <2>q. QED BY <2>2, <2>3 DEF ParentOf
<1>16. \A i \in 1..d : \E n \in 0..N : a[i] = up[n]
  BY <1>11, <1>12
<1>q. QED BY <1>5, <1>12, <1>13, <1>14, <1>15, <1>16 DEF a, up

-----------------------------------------------------------------------------
(* Type correctness, and what has been asked for. *)

Path == AncestryPath(culprit)

TypeInv == TypeOK /\ Relation /\ Distinct(sel)

AskInv ==
  /\ pc = "idle" <=> mode = "none"
  /\ pc # "idle" => cap \in Item /\ (mode # "all" => culprit \in Process)
  /\ files \subseteq Item \ Process
  /\ mode \in {"all", "tree"} => files = {}
  /\ pc \in {"idle", "asked"} => sel = <<>> /\ dq = <<>> /\ seen = {} /\ ~truncated
  /\ mode = "all" => culprit = 0 /\ pc \in {"asked", "emit", "done"}
  /\ mode = "tree" => pc \in {"asked", "walk", "done"} /\ cap = N + F

(* The views of one process. *)
OfOne == mode \in {"core", "family", "expand", "tree"}

LEMMA AskedFor ==
  ASSUME TypeInv, AskInv, OfOne
  PROVE  /\ pc # "idle" /\ culprit \in Process /\ cap \in Item /\ cap \in Nat /\ cap >= 1
         /\ Path \in Seq(Process) /\ Path \in Seq(Item) /\ Distinct(Path) /\ Len(Path) >= 1 /\ Len(Path) \in Nat
         /\ Path[Len(Path)] = culprit /\ culprit \in Elements(Path) /\ Elements(Path) \subseteq Process
         /\ \A i \in 2..Len(Path) : parent[Path[i]] = Path[i - 1]
<1>1. pc # "idle" /\ culprit \in Process /\ cap \in Item /\ cap \in Nat /\ cap >= 1
  BY Sizes DEF TypeInv, AskInv, OfOne
<1>2. /\ Path \in Seq(Process) /\ Len(Path) >= 1 /\ Distinct(Path) /\ Path[Len(Path)] = culprit
      /\ \A i \in 2..Len(Path) : parent[Path[i]] = Path[i - 1]
  BY <1>1, AncestryProperties DEF Path, TypeInv
<1>3. /\ Path \in Seq(Item) /\ Len(Path) \in Nat /\ DOMAIN Path = 1..Len(Path)
      /\ \A i \in 1..Len(Path) : Path[i] \in Process
  BY <1>2, Sizes, SeqMonotonic, LenProperties, ElementOfSeq
<1>4. culprit \in Elements(Path) /\ Elements(Path) \subseteq Process
  <2>1. Len(Path) \in DOMAIN Path
    BY <1>2, <1>3
  <2>q. QED BY <1>2, <1>3, <2>1 DEF Elements
<1>q. QED BY <1>1, <1>2, <1>3, <1>4

LEMMA ChildrenProperties ==
  ASSUME NEW k
  PROVE  /\ Children(k) \in Seq(Process) /\ Children(k) \in Seq(Item) /\ Distinct(Children(k))
         /\ Elements(Children(k)) = {c \in Process : parent[c] = k}
<1> DEFINE X == {c \in Process : parent[c] = k}
<1>1. X \subseteq Item /\ X \subseteq Process /\ Children(k) = InOrder(X)
  BY Sizes DEF Children
<1> HIDE DEF X
<1>2. Children(k) \in Seq(X) /\ Children(k) \in Seq(Item) /\ Elements(Children(k)) = X /\ Distinct(Children(k))
  BY <1>1, InOrderProperties
<1>3. Children(k) \in Seq(Process)
  BY <1>1, <1>2, SeqMonotonic
<1>q. QED BY <1>2, <1>3 DEF X

(* The children that a cap of the family view leaves.                       *)
LEMMA ShownProperties ==
  ASSUME NEW k, NEW n \in Nat
  PROVE  /\ First(Children(k), n) \in Seq(Process) /\ First(Children(k), n) \in Seq(Item)
         /\ Distinct(First(Children(k), n))
         /\ Elements(First(Children(k), n)) \subseteq {c \in Process : parent[c] = k}
<1>1. /\ Children(k) \in Seq(Process) /\ Distinct(Children(k))
      /\ Elements(Children(k)) = {c \in Process : parent[c] = k}
  BY ChildrenProperties
<1>2. /\ First(Children(k), n) \in Seq(Process) /\ Distinct(First(Children(k), n))
      /\ Elements(First(Children(k), n)) \subseteq Elements(Children(k))
  BY <1>1, FirstProperties
<1>q. QED BY <1>1, <1>2, Sizes, SeqMonotonic

(* The rounds of the family view, by what they offer to add.                *)
LEMMA FamilyAncestryAdds ==
  ASSUME TypeInv, AskInv, FamilyAncestry
  PROVE  AddEffect(Path) /\ OfOne
<1>1. OfOne /\ Add(Path)
  BY DEF FamilyAncestry, Family, OfOne, Path
<1>2. Path \in Seq(Item) /\ Distinct(Path) /\ cap \in Nat
  BY <1>1, AskedFor
<1>q. QED BY <1>1, <1>2, AddProperties DEF TypeInv, TypeOK

LEMMA FamilyCausesAdds ==
  ASSUME TypeInv, AskInv, FamilyCauses
  PROVE  AddEffect(InOrder(files)) /\ OfOne /\ Elements(InOrder(files)) = files
<1>1. OfOne /\ Add(InOrder(files))
  BY DEF FamilyCauses, Family, OfOne
<1>2. cap \in Nat
  BY <1>1, AskedFor
<1>3. InOrder(files) \in Seq(Item) /\ Distinct(InOrder(files)) /\ Elements(InOrder(files)) = files
  BY InOrderProperties DEF AskInv
<1>q. QED BY <1>1, <1>2, <1>3, AddProperties DEF TypeInv, TypeOK

LEMMA FamilyWalkAdds ==
  ASSUME TypeInv, AskInv, FamilyWalk
  PROVE  /\ OfOne
         /\ \E shown \in Seq(Process) :
              /\ AddEffect(shown) /\ dq' = Tail(dq) \o Taken(shown) /\ Taken(shown) \in Seq(Process)
              /\ Elements(shown) \subseteq {c \in Process : parent[c] = Head(dq)}
<1> DEFINE shown == First(Children(Head(dq)), KidsShown)
<1>1. OfOne /\ Add(shown) /\ dq' = Tail(dq) \o Taken(shown)
  BY DEF FamilyWalk, Family, OfOne
<1>2. cap \in Nat /\ KidsShown \in Nat
  BY <1>1, AskedFor, PayloadAssumption DEF KidsShown
<1>3. /\ shown \in Seq(Process) /\ shown \in Seq(Item) /\ Distinct(shown)
      /\ Elements(shown) \subseteq {c \in Process : parent[c] = Head(dq)}
  BY <1>2, ShownProperties
<1> HIDE DEF shown
<1>4. AddEffect(shown)
  BY <1>1, <1>2, <1>3, AddProperties DEF TypeInv, TypeOK
<1>5. Taken(shown) \in Seq(Process)
  <2>1. PICK m : TakesFirst(shown, m)
    BY <1>2, <1>3, TakenProperties DEF TypeInv, TypeOK
  <2>2. \A i \in 1..m : shown[i] \in Process
    BY <1>3, <2>1, ElementOfSeq DEF TakesFirst
  <2>3. Taken(shown) = SubSeq(shown, 1, m) /\ m \in Int /\ 1 \in Int
    BY <2>1 DEF TakesFirst
  <2>q. QED BY <2>2, <2>3, SubSeqProperties
<1>q. QED BY <1>1, <1>3, <1>4, <1>5

LEMMA FamilySiblingsAdds ==
  ASSUME TypeInv, AskInv, FamilySiblings
  PROVE  /\ OfOne
         /\ \E shown \in Seq(Process) :
              /\ AddEffect(shown)
              /\ \A c \in Elements(shown) : c \in Process /\ parent[c] \in Elements(Path)
<1> DEFINE sibs == IF Len(Path) >= 2 THEN Children(Path[Len(Path) - 1]) ELSE <<>>
           shown == First(sibs, SibCap)
<1>1. OfOne /\ Add(shown)
  BY DEF FamilySiblings, Family, OfOne, Path
<1>2. cap \in Nat /\ SibCap \in Nat
  BY <1>1, AskedFor, PayloadAssumption
<1>3. /\ shown \in Seq(Process) /\ shown \in Seq(Item) /\ Distinct(shown)
      /\ \A c \in Elements(shown) : c \in Process /\ parent[c] \in Elements(Path)
  <2>1. CASE Len(Path) >= 2
    <3> DEFINE k == Path[Len(Path) - 1]
    <3>1. shown = First(Children(k), SibCap)
      BY <2>1
    <3>2. k \in Elements(Path)
      <4>1. Len(Path) - 1 \in DOMAIN Path
        BY <1>1, <2>1, AskedFor, LenProperties
      <4>q. QED BY <4>1 DEF Elements
    <3> HIDE DEF k, shown
    <3>3. /\ shown \in Seq(Process) /\ shown \in Seq(Item) /\ Distinct(shown)
          /\ Elements(shown) \subseteq {c \in Process : parent[c] = k}
      BY <1>2, <3>1, ShownProperties
    <3>q. QED BY <3>2, <3>3
  <2>2. CASE ~(Len(Path) >= 2)
    <3>1. sibs = <<>>
      BY <2>2
    <3> HIDE DEF sibs
    <3>2. sibs \in Seq(Process) /\ sibs \in Seq(Item) /\ Elements(sibs) = {} /\ Distinct(sibs)
      BY <3>1, EmptySeq DEF Elements, Distinct
    <3>3. /\ shown \in Seq(Process) /\ shown \in Seq(Item) /\ Distinct(shown)
          /\ Elements(shown) \subseteq Elements(sibs)
      BY <1>2, <3>2, FirstProperties
    <3>q. QED BY <3>2, <3>3
  <2>q. QED BY <2>1, <2>2
<1> HIDE DEF shown
<1>4. AddEffect(shown)
  BY <1>1, <1>2, <1>3, AddProperties DEF TypeInv, TypeOK
<1>q. QED BY <1>1, <1>3, <1>4

(* A node hangs on one that is in the picture.                              *)
Hangs(x) == IF x \in Process THEN parent[x] \in Elements(sel)
            ELSE x \in files /\ culprit \in Elements(sel)

(* All nodes do but the first, and what the walk has yet to visit will; the *)
(* family view, unless it is full, has its whole ancestry and all it queued.*)
HangInv ==
  /\ mode \in {"core", "family", "expand"} => \A i \in 2..Len(sel) : Hangs(sel[i])
  /\ mode = "core" /\ pc \notin {"idle", "asked"} =>
       /\ culprit \in Elements(sel)
       /\ pc = "walk" => \A x \in Elements(dq) : parent[x] \in Elements(sel)
  /\ Family /\ pc \in {"causes", "walk"} =>
       \/ Len(sel) >= cap
       \/ Elements(Path) \cup Elements(dq) \subseteq Elements(sel)

EdgeInv ==
  mode # "tree" /\ pc = "done" =>
    /\ weak \subseteq files \X (Process \ {culprit})
    /\ edges = {e \in SpawnEdges \cup (files \X {culprit}) \cup weak :
                  /\ {e[1], e[2]} \subseteq Elements(sel)
                  /\ Family => e \notin weak}

(* A walk visits only what is below the process, and passes over nothing:   *)
(* the children of whoever it has seen are seen or queued.                  *)
WalkInv ==
  mode \in {"core", "tree"} /\ pc = "walk" =>
    /\ seen \subseteq Below[culprit] /\ Elements(dq) \subseteq Below[culprit]
    /\ culprit \in seen \cup Elements(dq)
    /\ \A x \in seen : \A c \in Process : parent[c] = x => c \in seen \cup Elements(dq)

CoreWhole == (Below[culprit] \ {culprit}) \cup Elements(Path) \cup files

(* What the core view shows is ancestry, causes and what its walk has seen; *)
(* what was cut off so far did not fit, or is missing.                      *)
CoreInv ==
  mode = "core" =>
    /\ pc = "causes" => Elements(sel) \subseteq Elements(Path)
    /\ pc = "walk" =>
         /\ Elements(sel) \subseteq Elements(Path) \cup files \cup seen
         /\ culprit \in seen /\ seen \subseteq Elements(sel)
         /\ ~truncated => files \subseteq Elements(sel)
    /\ pc \in {"causes", "walk"} =>
         /\ ~truncated => Elements(Path) \subseteq Elements(sel)
         /\ truncated => Cardinality(CoreWhole) > cap
    /\ pc \in {"emit", "done"} =>
         /\ ~truncated => Elements(sel) = CoreWhole
         /\ truncated => Elements(sel) # CoreWhole \/ HasCycle

TreeInv ==
  mode = "tree" =>
    /\ ~truncated /\ Elements(sel) = seen
    /\ pc = "done" => Elements(sel) = Below[culprit]

AllInv ==
  mode = "all" /\ pc \in {"emit", "done"} => (truncated <=> Elements(sel) # Process)

(* Between a process and each child of it, printed or to come, there is     *)
(* only what is below the process; what is to come hangs on what was seen.  *)
NestInv ==
  mode = "tree" =>
    /\ \A i \in DOMAIN sel : \A j \in (i + 1)..Len(sel) : parent[sel[j]] = sel[i] =>
         \A m \in (i + 1)..j : sel[m] \in Below[sel[i]] \ {sel[i]}
    /\ \A i \in DOMAIN sel : \A q \in DOMAIN dq : parent[dq[q]] = sel[i] =>
         /\ \A m \in (i + 1)..Len(sel) : sel[m] \in Below[sel[i]] \ {sel[i]}
         /\ \A r \in 1..q : dq[r] \in (Below[sel[i]] \ {sel[i]}) \cup seen
    /\ pc = "walk" => \/ seen = {} /\ dq = <<culprit>>
                      \/ \A q \in DOMAIN dq : parent[dq[q]] \in seen

IInv ==
  /\ TypeInv /\ AskInv /\ HangInv /\ EdgeInv /\ WalkInv
  /\ CoreInv /\ TreeInv /\ AllInv /\ NestInv

(* The head of the queue, when there is one.                                *)
LEMMA QueueHead ==
  ASSUME TypeInv, dq # <<>>
  PROVE  /\ Head(dq) \in Process /\ Head(dq) \in Item /\ Head(dq) \in Elements(dq) /\ Head(dq) = dq[1]
         /\ Tail(dq) \in Seq(Process)
         /\ Elements(dq) = {Head(dq)} \cup Elements(Tail(dq))
<1>1. dq \in Seq(Process)
  BY DEF TypeInv, TypeOK
<1>2. Head(dq) \in Process /\ Tail(dq) \in Seq(Process)
  BY <1>1, HeadTailProperties
<1>q. QED BY <1>1, <1>2, Sizes, TailElements

(* What the queue holds once the children of its head have joined it.       *)
LEMMA QueueAfter ==
  ASSUME TypeInv, dq # <<>>
  PROVE  /\ Elements(Tail(dq) \o Children(Head(dq)))
              = Elements(Tail(dq)) \cup {c \in Process : parent[c] = Head(dq)}
         /\ Elements(Children(Head(dq)) \o Tail(dq))
              = Elements(Tail(dq)) \cup {c \in Process : parent[c] = Head(dq)}
<1> DEFINE rest == Tail(dq)
           kids == Children(Head(dq))
           K == {c \in Process : parent[c] = Head(dq)}
<1>1. rest \in Seq(Process) /\ kids \in Seq(Process) /\ Elements(kids) = K
  BY QueueHead, ChildrenProperties
<1> HIDE DEF rest, kids, K
<1>2. /\ Elements(rest \o kids) = Elements(rest) \cup Elements(kids)
      /\ Elements(kids \o rest) = Elements(kids) \cup Elements(rest)
  BY <1>1, ConcatElements
<1>3. Elements(rest \o kids) = Elements(rest) \cup K /\ Elements(kids \o rest) = Elements(rest) \cup K
  BY <1>1, <1>2
<1>q. QED BY <1>3 DEF rest, kids, K

(* In every step nothing is selected twice, and never more than the cap.    *)
SelOK == sel \in Seq(Item) /\ Len(sel) <= cap /\ Distinct(sel)

LEMMA SelStep ==
  ASSUME TypeInv, AskInv, CoreInv, TreeInv, Next
  PROVE  SelOK'
<1>0. SelOK /\ sel \in Seq(Item) /\ cap \in Nat /\ Len(sel) \in Nat /\ Len(sel) <= cap /\ Distinct(sel)
  <2>1. cap \in Nat
    BY Sizes DEF TypeInv, TypeOK
  <2>q. QED BY <2>1, LenProperties DEF TypeInv, TypeOK, SelOK
<1>1. CASE GraphPayload
  <2>1. sel' = <<>> /\ cap' \in Nat
    BY <1>1, Sizes DEF GraphPayload, AskInv, Item
  <2>2. <<>> \in Seq(Item) /\ Len(<<>>) = 0 /\ Distinct(<<>>)
    BY EmptySeq DEF Distinct
  <2>q. QED BY <2>1, <2>2 DEF SelOK
<1>2. ASSUME UNCHANGED <<sel, cap>> PROVE SelOK'
  BY <1>0, <1>2 DEF SelOK
<1>3. CASE FamilyAncestry
  BY <1>3, FamilyAncestryAdds DEF FamilyAncestry, input, AddEffect, SelOK
<1>4. CASE FamilyCauses
  BY <1>4, FamilyCausesAdds DEF FamilyCauses, input, AddEffect, SelOK
<1>5. CASE FamilyWalk
  BY <1>5, FamilyWalkAdds DEF FamilyWalk, input, AddEffect, SelOK
<1>6. CASE FamilySiblings
  BY <1>6, FamilySiblingsAdds DEF FamilySiblings, input, AddEffect, SelOK
<1>7. CASE CoreAncestry
  <2>1. OfOne /\ sel' = Last(Path, cap) /\ cap' = cap
    BY <1>7 DEF CoreAncestry, OfOne, Path, input
  <2>2. Path \in Seq(Item) /\ cap >= 1 /\ Len(Path) >= 1 /\ Distinct(Path)
    BY <2>1, AskedFor
  <2>3. Last(Path, cap) \in Seq(Item) /\ Len(Last(Path, cap)) <= cap /\ Distinct(Last(Path, cap))
    BY <1>0, <2>2, LastProperties
  <2>q. QED BY <2>1, <2>3 DEF SelOK
<1>8. CASE CoreCauses
  <2> DEFINE some == First(InOrder(files), cap - Len(sel))
  <2>1. OfOne /\ mode = "core" /\ pc = "causes" /\ sel' = sel \o some /\ cap' = cap
    BY <1>8 DEF CoreCauses, OfOne, input
  <2>2. Elements(sel) \subseteq Process /\ files \subseteq Item \ Process
    BY <2>1, AskedFor DEF CoreInv, AskInv
  <2>3. InOrder(files) \in Seq(Item) /\ Distinct(InOrder(files)) /\ Elements(InOrder(files)) = files
    BY <2>2, InOrderProperties
  <2>4. cap - Len(sel) \in Nat
    BY <1>0
  <2>5. /\ some \in Seq(Item) /\ Len(some) <= cap - Len(sel) /\ Distinct(some)
        /\ Elements(some) \subseteq files
    BY <2>3, <2>4, FirstProperties
  <2> HIDE DEF some
  <2>6. Elements(sel) \cap Elements(some) = {}
    BY <2>2, <2>5
  <2>7. sel \o some \in Seq(Item) /\ Len(sel \o some) = Len(sel) + Len(some) /\ Len(some) \in Nat
    BY <1>0, <2>5, ConcatProperties, LenProperties
  <2>8. Distinct(sel \o some)
    BY <1>0, <2>5, <2>6, ConcatDistinct
  <2>9. Len(sel \o some) <= cap
    BY <1>0, <2>5, <2>7
  <2>q. QED BY <2>1, <2>7, <2>8, <2>9 DEF SelOK
<1>9. CASE CoreWalk
  <2>1. Head(dq) \in Item /\ cap' = cap
    BY <1>9, QueueHead DEF CoreWalk, input
  <2>2. \/ sel' = sel
        \/ Len(sel) < cap /\ sel' = Append(sel, Head(dq)) /\ Head(dq) \notin Elements(sel)
    BY <1>9 DEF CoreWalk
  <2>3. CASE Len(sel) < cap /\ sel' = Append(sel, Head(dq)) /\ Head(dq) \notin Elements(sel)
    <3>1. sel' \in Seq(Item) /\ Len(sel') = Len(sel) + 1 /\ Distinct(sel')
      BY <1>0, <2>1, <2>3, AppendElements
    <3>q. QED BY <1>0, <2>1, <2>3, <3>1 DEF SelOK
  <2>q. QED BY <1>2, <2>1, <2>2, <2>3
<1>10. CASE TreeWalk
  <2>1. /\ mode = "tree" /\ Head(dq) \in Item /\ cap' = cap /\ sel' = Append(sel, Head(dq))
        /\ Head(dq) \notin seen
    BY <1>10, QueueHead DEF TreeWalk, input
  <2>2. Elements(sel) = seen /\ cap = N + F
    BY <2>1 DEF TreeInv, AskInv
  <2>3. sel' \in Seq(Item) /\ Distinct(sel')
    BY <1>0, <2>1, <2>2, AppendElements
  <2>4. Cardinality(Elements(sel')) = Len(sel')
    BY <2>3, DistinctCount
  <2>5. Elements(sel') \in SUBSET Item
    BY <2>3, LenProperties DEF Elements
  <2>6. Cardinality(Elements(sel')) <= Cardinality(Item)
    BY <2>5, Sizes, FS_Subset
  <2>7. Len(sel') <= cap'
    BY <2>1, <2>2, <2>4, <2>6, Sizes
  <2>q. QED BY <2>3, <2>7 DEF SelOK
<1>11. CASE AllPayload
  <2>1. sel' = First(InOrder(Process), cap) /\ cap' = cap
    BY <1>11 DEF AllPayload, input
  <2>2. InOrder(Process) \in Seq(Item) /\ Distinct(InOrder(Process))
    BY Sizes, InOrderProperties
  <2>3. /\ First(InOrder(Process), cap) \in Seq(Item) /\ Len(First(InOrder(Process), cap)) <= cap
        /\ Distinct(First(InOrder(Process), cap))
    BY <1>0, <2>2, FirstProperties
  <2>q. QED BY <2>1, <2>3 DEF SelOK
<1>12. CASE SkipSeen \/ CoreDone \/ TreeStart \/ TreeDone \/ Emit
  <2>1. UNCHANGED <<sel, cap>>
    BY <1>12 DEF SkipSeen, CoreDone, TreeStart, TreeDone, Emit, input
  <2>q. QED BY <1>2, <2>1
<1>q. QED BY <1>1, <1>3, <1>4, <1>5, <1>6, <1>7, <1>8, <1>9, <1>10, <1>11, <1>12 DEF Next, Walk

(* A walk changes nothing of what was asked for, and no edge but in Emit;   *)
(* and the places of the code follow upon one another.                      *)
LEMMA Frame ==
  ASSUME Walk
  PROVE  /\ UNCHANGED input /\ (Emit \/ UNCHANGED <<weak, edges>>)
         /\ pc # "idle" /\ pc' \notin {"idle", "asked"} /\ (pc' = "done" => Emit \/ TreeDone)
         /\ mode = "all" => AllPayload \/ Emit
<1>1. CASE FamilyAncestry
  BY <1>1 DEF FamilyAncestry, Family
<1>2. CASE FamilyCauses
  BY <1>2 DEF FamilyCauses, Family
<1>3. CASE FamilyWalk
  BY <1>3 DEF FamilyWalk, Family
<1>4. CASE FamilySiblings
  BY <1>4 DEF FamilySiblings, Family
<1>5. CASE CoreAncestry
  BY <1>5 DEF CoreAncestry, Family
<1>6. CASE CoreCauses
  BY <1>6 DEF CoreCauses, Family
<1>7. CASE SkipSeen
  BY <1>7 DEF SkipSeen, Family
<1>8. CASE CoreWalk
  BY <1>8 DEF CoreWalk, Family
<1>9. CASE CoreDone
  BY <1>9 DEF CoreDone, Family
<1>10. CASE TreeStart
  BY <1>10 DEF TreeStart, Family
<1>11. CASE TreeWalk
  BY <1>11 DEF TreeWalk, Family
<1>12. CASE TreeDone
  BY <1>12 DEF TreeDone, Family
<1>13. CASE AllPayload
  BY <1>13 DEF AllPayload, Family
<1>14. CASE Emit
  BY <1>14 DEF Emit, Family
<1>q. QED BY <1>1, <1>2, <1>3, <1>4, <1>5, <1>6, <1>7, <1>8, <1>9, <1>10, <1>11, <1>12, <1>13, <1>14 DEF Walk

LEMMA TypeStep ==
  ASSUME TypeInv, AskInv, CoreInv, TreeInv, Next
  PROVE  TypeInv'
<1> DEFINE Rest == /\ truncated \in BOOLEAN /\ dq \in Seq(Process) /\ seen \subseteq Process
                   /\ pc \in {"idle", "asked", "causes", "walk", "emit", "done"}
           Inputs == /\ Relation /\ files \subseteq Item /\ culprit \in Process \cup {0}
                     /\ cap \in Item \cup {0} /\ mode \in Modes \cup {"none"}
           Lines == weak \subseteq Item \X Process /\ edges \subseteq Item \X Process
<1>0. Rest /\ Inputs /\ Lines
  BY DEF TypeInv, TypeOK
<1>1. SelOK'
  BY SelStep
<1>2. Inputs'
  <2>1. CASE GraphPayload
    <3>1. parent' = parent /\ mode' \in Modes
      BY <2>1 DEF GraphPayload
    <3>2. culprit' \in Process \cup {0}
      BY <2>1 DEF GraphPayload
    <3>3. cap' \in Item
      <4>1. N + F \in Item
        BY Sizes DEF Item
      <4>2. mode' = "tree" => cap' = N + F
        BY <2>1 DEF GraphPayload
      <4>3. mode' # "tree" => cap' \in 1..(N + F)
        BY <2>1 DEF GraphPayload
      <4>q. QED BY <4>1, <4>2, <4>3 DEF Item
    <3>4. files' \subseteq Item
      <4>1. files' = {} \/ \E n \in 0..F : files' = (N + 1)..(N + n)
        BY <2>1 DEF GraphPayload
      <4>2. \A n \in 0..F : (N + 1)..(N + n) \subseteq Item
        BY Sizes DEF Item
      <4>q. QED BY <4>1, <4>2
    <3>q. QED BY <1>0, <3>1, <3>2, <3>3, <3>4 DEF Relation
  <2>2. CASE Walk
    <3>1. UNCHANGED input
      BY <2>2, Frame
    <3>q. QED BY <1>0, <3>1 DEF input, Relation
  <2>q. QED BY <2>1, <2>2 DEF Next
<1>3. Lines'
  <2>1. CASE Emit
    <3>1. mode # "none" /\ parent \in [Process -> 0..N]
      BY <1>0, <2>1 DEF Emit, AskInv, Relation
    <3>2. files \X {culprit} \subseteq Item \X Process
      BY <1>0, <2>1 DEF Emit, AskInv
    <3>3. SpawnEdges \subseteq Item \X Process
      <4>1. \A k \in Process : parent[k] # 0 => parent[k] \in Item
        BY <3>1, Sizes DEF Process, Item
      <4>q. QED BY <4>1 DEF SpawnEdges
    <3>4. weak' \subseteq Item \X Process
      <4>1. weak' = {} \/ \E f \in files, p \in Process \ {culprit} : weak' = {<<f, p>>}
        BY <2>1 DEF Emit
      <4>q. QED BY <1>0, <4>1
    <3>5. edges' \subseteq SpawnEdges \cup (files \X {culprit}) \cup weak'
      BY <2>1 DEF Emit
    <3>q. QED BY <3>2, <3>3, <3>4, <3>5
  <2>2. CASE ~Emit
    <3>1. UNCHANGED <<weak, edges>>
      BY <2>2, Frame DEF Next, GraphPayload
    <3>q. QED BY <1>0, <3>1
  <2>q. QED BY <2>1, <2>2
<1>4. Rest'
  <2>1. CASE GraphPayload \/ AllPayload \/ Emit \/ CoreDone \/ TreeDone \/ FamilyAncestry \/ FamilySiblings \/ CoreAncestry
    <3>1. UNCHANGED <<dq, seen>> /\ pc' \in {"idle", "asked", "causes", "walk", "emit", "done"}
      BY <2>1 DEF GraphPayload, AllPayload, Emit, CoreDone, TreeDone, FamilyAncestry, FamilySiblings, CoreAncestry
    <3>2. truncated' \in BOOLEAN
      <4>1. CASE GraphPayload \/ Emit \/ CoreDone \/ TreeDone
        BY <1>0, <4>1 DEF GraphPayload, Emit, CoreDone, TreeDone
      <4>2. CASE AllPayload
        BY <4>2 DEF AllPayload
      <4>3. CASE FamilyAncestry
        BY <4>3 DEF FamilyAncestry, Refused
      <4>4. CASE FamilySiblings
        BY <4>4 DEF FamilySiblings
      <4>5. CASE CoreAncestry
        BY <4>5 DEF CoreAncestry
      <4>q. QED BY <2>1, <4>1, <4>2, <4>3, <4>4, <4>5
    <3>q. QED BY <1>0, <3>1, <3>2
  <2>2. CASE FamilyCauses
    <3>1. culprit \in Process
      BY <2>2, FamilyCausesAdds, AskedFor
    <3>2. <<culprit>> \in Seq(Process)
      BY <3>1
    <3>q. QED BY <1>0, <2>2, <3>2 DEF FamilyCauses
  <2>3. CASE FamilyWalk
    <3>1. PICK shown \in Seq(Process) : dq' = Tail(dq) \o Taken(shown) /\ Taken(shown) \in Seq(Process)
      BY <2>3, FamilyWalkAdds
    <3>2. Tail(dq) \in Seq(Process)
      BY <2>3, QueueHead DEF FamilyWalk
    <3>3. dq' \in Seq(Process)
      BY <3>1, <3>2, ConcatProperties
    <3>q. QED BY <1>0, <2>3, <3>3 DEF FamilyWalk
  <2>4. CASE CoreCauses
    <3>1. culprit \in Process
      BY <2>4, AskedFor DEF CoreCauses, OfOne
    <3>2. dq' \in Seq(Process) /\ seen' \subseteq Process
      BY <2>4, <3>1, ChildrenProperties DEF CoreCauses
    <3>q. QED BY <1>0, <2>4, <3>2 DEF CoreCauses
  <2>5. CASE SkipSeen
    <3>1. dq' \in Seq(Process)
      BY <2>5, QueueHead DEF SkipSeen
    <3>q. QED BY <1>0, <2>5, <3>1 DEF SkipSeen
  <2>6. CASE CoreWalk
    <3>1. Head(dq) \in Process /\ Tail(dq) \in Seq(Process) /\ Children(Head(dq)) \in Seq(Process)
      BY <2>6, QueueHead, ChildrenProperties DEF CoreWalk
    <3>2. dq' = dq \/ dq' = Tail(dq) \o Children(Head(dq))
      BY <2>6 DEF CoreWalk
    <3>3. dq' \in Seq(Process)
      BY <1>0, <3>1, <3>2, ConcatProperties
    <3>4. seen' = seen \cup {Head(dq)} /\ truncated' \in BOOLEAN /\ pc' \in {"walk", "emit"}
      BY <1>0, <2>6 DEF CoreWalk
    <3>q. QED BY <1>0, <3>1, <3>3, <3>4
  <2>7. CASE TreeStart
    <3>1. culprit \in Process
      BY <2>7, AskedFor DEF TreeStart, OfOne
    <3>2. <<culprit>> \in Seq(Process)
      BY <3>1
    <3>q. QED BY <1>0, <2>7, <3>2 DEF TreeStart
  <2>8. CASE TreeWalk
    <3>1. Head(dq) \in Process /\ Tail(dq) \in Seq(Process) /\ Children(Head(dq)) \in Seq(Process)
      BY <2>8, QueueHead, ChildrenProperties DEF TreeWalk
    <3>2. dq' = Children(Head(dq)) \o Tail(dq)
      BY <2>8 DEF TreeWalk
    <3>3. dq' \in Seq(Process)
      BY <3>1, <3>2, ConcatProperties
    <3>q. QED BY <1>0, <2>8, <3>1, <3>3 DEF TreeWalk
  <2>q. QED BY <2>1, <2>2, <2>3, <2>4, <2>5, <2>6, <2>7, <2>8 DEF Next, Walk
<1>5. Cardinality(Elements(sel'))= Len(sel')
  BY <1>1, DistinctCount DEF SelOK
<1>q. QED BY <1>1, <1>2, <1>3, <1>4, <1>5 DEF TypeInv, TypeOK, SelOK, Relation

LEMMA AskStep ==
  ASSUME TypeInv, AskInv, Next
  PROVE  AskInv'
<1>1. CASE GraphPayload
  <2>1. /\ pc = "idle" /\ pc' = "asked" /\ mode' \in Modes /\ mode' # "none"
        /\ sel' = <<>> /\ dq' = <<>> /\ seen' = {} /\ ~truncated'
    BY <1>1, PayloadAssumption DEF GraphPayload, AskInv
  <2>2. cap' \in Item /\ (mode' = "tree" => cap' = N + F)
    <3>1. mode' = "tree" => cap' = N + F
      BY <1>1 DEF GraphPayload
    <3>2. mode' # "tree" => cap' \in 1..(N + F)
      BY <1>1 DEF GraphPayload
    <3>3. N + F \in Item
      BY Sizes DEF Item
    <3>q. QED BY <3>1, <3>2, <3>3 DEF Item
  <2>3. (mode' # "all" => culprit' \in Process) /\ (mode' = "all" => culprit' = 0)
    BY <1>1 DEF GraphPayload
  <2>4. files' \subseteq Item \ Process /\ (mode' \in {"all", "tree"} => files' = {})
    <3>1. mode' \in {"all", "tree"} => files' = {}
      BY <1>1 DEF GraphPayload
    <3>2. mode' \notin {"all", "tree"} => \E n \in 0..F : files' = (N + 1)..(N + n)
      BY <1>1 DEF GraphPayload
    <3>3. \A n \in 0..F : (N + 1)..(N + n) \subseteq Item \ Process
      BY Sizes DEF Item, Process
    <3>q. QED BY <3>1, <3>2, <3>3
  <2>q. QED BY <2>1, <2>2, <2>3, <2>4 DEF AskInv
<1>2. CASE Walk
  <2>1. UNCHANGED input /\ pc # "idle" /\ pc' \notin {"idle", "asked"}
    BY <1>2, Frame
  <2>2. mode = "all" => pc' \in {"emit", "done"}
    <3>1. mode = "all" => AllPayload \/ Emit
      BY <1>2, Frame
    <3>q. QED BY <3>1 DEF AllPayload, Emit
  <2>3. mode = "tree" => pc' \in {"walk", "done"}
    <3>1. mode = "tree" => pc # "emit"
      BY DEF AskInv
    <3>2. mode = "tree" => SkipSeen \/ TreeStart \/ TreeWalk \/ TreeDone
      BY <1>2, <3>1 DEF Walk, FamilyAncestry, FamilyCauses, FamilyWalk, FamilySiblings, Family, CoreAncestry,
           CoreCauses, CoreWalk, CoreDone, AllPayload, Emit
    <3>q. QED BY <3>2 DEF SkipSeen, TreeStart, TreeWalk, TreeDone
  <2>q. QED BY <2>1, <2>2, <2>3 DEF AskInv, input
<1>q. QED BY <1>1, <1>2 DEF Next

-----------------------------------------------------------------------------
(* The picture hangs together. *)

LEMMA Unmoved ==
  ASSUME UNCHANGED input
  PROVE  /\ Path' = Path /\ Below' = Below /\ (HasCycle' <=> HasCycle)
         /\ CoreWhole' = CoreWhole /\ (Relation' <=> Relation)
<1>0. parent' = parent /\ culprit' = culprit /\ files' = files
  BY DEF input
<1>1. Path' = Path
  BY <1>0 DEF Path, AncestryPath, Up, ParentOf
<1>2. Below' = Below
  BY <1>0 DEF Below, Down
<1>3. HasCycle' <=> HasCycle
  BY <1>0 DEF HasCycle, Up, ParentOf
<1>4. CoreWhole' = CoreWhole
  BY <1>0, <1>1, <1>2 DEF CoreWhole
<1>q. QED BY <1>0, <1>1, <1>2, <1>3, <1>4 DEF Relation

(* What was there hangs where it hung, when nodes are added that hang too.  *)
LEMMA AddHangs ==
  ASSUME TypeInv, UNCHANGED input, \A i \in 2..Len(sel) : Hangs(sel[i]),
         NEW xs, AddEffect(xs),
         \A x \in Elements(Taken(xs)) : IF x \in Process THEN parent[x] \in Elements(sel')
                                        ELSE x \in files /\ culprit \in Elements(sel')
  PROVE  \A i \in 2..Len(sel') : Hangs(sel[i])'
<1>0. parent' = parent /\ culprit' = culprit /\ files' = files
  BY DEF input
<1>1. /\ Len(sel) \in Nat /\ Len(sel') \in Nat /\ Elements(sel) \subseteq Elements(sel')
      /\ \A i \in 1..Len(sel) : sel'[i] = sel[i]
      /\ \A i \in (Len(sel) + 1)..Len(sel') : sel'[i] \in Elements(Taken(xs))
  BY LenProperties DEF AddEffect, TypeInv, TypeOK
<1> SUFFICES ASSUME NEW i \in 2..Len(sel') PROVE Hangs(sel[i])'
  OBVIOUS
<1>2. CASE i \in 2..Len(sel)
  <2>1. sel'[i] = sel[i] /\ Hangs(sel[i])
    BY <1>1, <1>2
  <2>q. QED BY <1>0, <1>1, <2>1 DEF Hangs
<1>3. CASE i \in (Len(sel) + 1)..Len(sel')
  <2>1. sel'[i] \in Elements(Taken(xs))
    BY <1>1, <1>3
  <2>q. QED BY <1>0, <2>1 DEF Hangs
<1>q. QED BY <1>1, <1>2, <1>3

LEMMA HangStep ==
  ASSUME TypeInv, AskInv, HangInv, Next, TypeInv'
  PROVE  HangInv'
<1> DEFINE Nodes == mode \in {"core", "family", "expand"} => \A i \in 2..Len(sel) : Hangs(sel[i])
           Core == mode = "core" /\ pc \notin {"idle", "asked"} =>
                     /\ culprit \in Elements(sel)
                     /\ pc = "walk" => \A x \in Elements(dq) : parent[x] \in Elements(sel)
           Whole1 == Family /\ pc \in {"causes", "walk"} =>
                       Len(sel) >= cap \/ Elements(Path) \cup Elements(dq) \subseteq Elements(sel)
<1>0. Nodes /\ Core /\ Whole1
  BY DEF HangInv
<1>00. SUFFICES Nodes' /\ Core' /\ Whole1'
  BY DEF HangInv
<1>1. CASE GraphPayload
  <2>1. sel' = <<>> /\ pc' = "asked"
    BY <1>1 DEF GraphPayload, AskInv
  <2>2. \A i \in 2..Len(sel') : FALSE
    BY <2>1
  <2>q. QED BY <2>1, <2>2
<1>2. CASE FamilyAncestry
  <2>1. /\ AddEffect(Path) /\ OfOne /\ sel = <<>> /\ dq' = <<>> /\ UNCHANGED input /\ mode # "core"
    BY <1>2, FamilyAncestryAdds DEF FamilyAncestry, AskInv, Family
  <2>2. /\ Path \in Seq(Process) /\ Distinct(Path) /\ Len(Path) >= 1 /\ Len(Path) \in Nat
        /\ \A i \in 2..Len(Path) : parent[Path[i]] = Path[i - 1]
        /\ \A i \in 1..Len(Path) : Path[i] \in Process
    BY <2>1, AskedFor, ElementOfSeq
  <2>3. Elements(sel') = Elements(Taken(Path))
    <3>1. Elements(<<>>) = {}
      BY DEF Elements
    <3>q. QED BY <2>1, <3>1 DEF AddEffect
  <2>4. /\ DOMAIN sel' = 1..Len(sel') /\ Len(sel') \in Nat /\ Distinct(sel')
    BY <2>1, LenProperties DEF AddEffect
  <2> DEFINE m == Len(Taken(Path))
             ys == Taken(Path)
  <2>5. m \in Nat /\ m <= Len(Path) /\ DOMAIN ys = 1..m /\ \A i \in 1..m : ys[i] = Path[i]
    <3>1. PICK n : TakesFirst(Path, n)
      BY <2>1, <2>2, AskedFor, TakenProperties DEF TypeInv, TypeOK
    <3>2. ys = SubSeq(Path, 1, n) /\ n \in 0..Len(Path)
      BY <3>1 DEF TakesFirst
    <3>3. ys \in Seq(Process)
      <4>1. n \in Int /\ 1 \in Int /\ \A i \in 1..n : Path[i] \in Process
        BY <2>2, <3>2
      <4> HIDE DEF ys
      <4>q. QED BY <3>2, <4>1, SubSeqProperties
    <3>4. m \in Nat /\ DOMAIN ys = 1..m
      <4> HIDE DEF ys
      <4>1. Len(ys) \in Nat /\ DOMAIN ys = 1..Len(ys)
        BY <3>3, LenProperties
      <4>q. QED BY <4>1 DEF ys
    <3>q. QED BY <2>1, <3>4 DEF AddEffect
  <2>6. ASSUME NEW i \in 2..Len(sel') PROVE Hangs(sel[i])'
    <3>1. 1 \in DOMAIN sel' /\ i \in DOMAIN sel' /\ i # 1 /\ Len(sel') >= 1
      BY <2>4
    <3>2. sel'[1] = Path[1]
      BY <2>1, <3>1 DEF AddEffect
    <3>3. sel'[i] # sel'[1]
      BY <2>4, <3>1 DEF Distinct
    <3>4. sel'[i] \in Elements(ys)
      BY <2>3, <3>1 DEF Elements
    <3> HIDE DEF ys, m
    <3>5. PICK j \in 1..m : sel'[i] = ys[j]
      BY <2>5, <3>4 DEF Elements
    <3>6. ys[j] = Path[j]
      BY <2>5
    <3>7. j # 1
      BY <3>2, <3>3, <3>5, <3>6
    <3>8. j \in 2..Len(Path) /\ j \in 1..Len(Path) /\ j - 1 \in 1..m
      BY <2>2, <2>5, <3>7
    <3>9. parent[Path[j]] = Path[j - 1] /\ Path[j] \in Process /\ Path[j - 1] = ys[j - 1]
      BY <2>2, <2>5, <3>8
    <3>10. Path[j - 1] \in Elements(sel')
      <4>1. ys[j - 1] \in Elements(ys)
        BY <2>5, <3>8 DEF Elements
      <4>q. QED BY <2>3, <3>9, <4>1 DEF ys
    <3>11. parent' = parent
      BY <2>1 DEF input
    <3>q. QED BY <3>5, <3>6, <3>9, <3>10, <3>11 DEF Hangs
  <2>7. Len(sel') >= cap' \/ Elements(Path') \cup Elements(dq') \subseteq Elements(sel')
    <3>1. Path' = Path /\ cap' = cap
      BY <2>1, Unmoved DEF input
    <3>2. Elements(dq') = {}
      BY <2>1 DEF Elements
    <3>3. Len(sel') >= cap \/ Elements(sel') = Elements(Path)
      BY <2>1, <2>3 DEF AddEffect
    <3>q. QED BY <3>1, <3>2, <3>3
  <2>8. mode' # "core"
    BY <2>1 DEF input
  <2>q. QED BY <2>6, <2>7, <2>8
<1>3. CASE FamilyCauses
  <2>1. /\ AddEffect(InOrder(files)) /\ OfOne /\ Elements(InOrder(files)) = files /\ UNCHANGED input
        /\ mode # "core" /\ dq' = <<culprit>> /\ Family /\ pc = "causes"
    BY <1>3, FamilyCausesAdds DEF FamilyCauses, Family
  <2>2. culprit \in Elements(Path) /\ culprit \in Process
    BY <2>1, AskedFor
  <2>3. /\ Elements(sel') = Elements(sel) \cup Elements(Taken(InOrder(files)))
        /\ Elements(Taken(InOrder(files))) \subseteq files
        /\ Len(sel) >= cap => Elements(Taken(InOrder(files))) = {} /\ sel' = sel
    <3>1. Elements(<<>>) = {}
      BY DEF Elements
    <3>q. QED BY <2>1, <3>1 DEF AddEffect
  <2>4. Len(sel) >= cap \/ Elements(Path) \subseteq Elements(sel)
    BY <1>0, <2>1
  <2>5. \A x \in Elements(Taken(InOrder(files))) : x \notin Process /\ x \in files /\ culprit \in Elements(sel')
    BY <2>2, <2>3, <2>4 DEF AskInv
  <2>6. \A i \in 2..Len(sel) : Hangs(sel[i])
    BY <1>0, <2>1 DEF Family
  <2>7. \A i \in 2..Len(sel') : Hangs(sel[i])'
    BY <2>1, <2>5, <2>6, AddHangs
  <2>8. Path' = Path /\ cap' = cap /\ Elements(dq') = {culprit} /\ mode' # "core"
    <3>1. Elements(<<culprit>>) = {culprit}
      BY DEF Elements
    <3>q. QED BY <2>1, <3>1, Unmoved DEF input
  <2>9. Len(sel') >= cap' \/ Elements(Path') \cup Elements(dq') \subseteq Elements(sel')
    BY <2>2, <2>3, <2>4, <2>8
  <2>q. QED BY <2>7, <2>8, <2>9
<1>4. CASE FamilyWalk
  <2>1. /\ OfOne /\ UNCHANGED input /\ mode # "core" /\ Family /\ pc = "walk" /\ dq # <<>> /\ Len(sel) < cap
        /\ dq \in Seq(Process)
    BY <1>4, FamilyWalkAdds DEF FamilyWalk, Family, TypeInv, TypeOK
  <2>2. PICK shown \in Seq(Process) :
              /\ AddEffect(shown) /\ dq' = Tail(dq) \o Taken(shown) /\ Taken(shown) \in Seq(Process)
              /\ Elements(shown) \subseteq {c \in Process : parent[c] = Head(dq)}
    BY <1>4, FamilyWalkAdds
  <2>3. Len(sel) \in Nat /\ cap \in Nat
    BY <2>1, AskedFor, LenProperties DEF TypeInv, TypeOK
  <2>4. Elements(Path) \cup Elements(dq) \subseteq Elements(sel)
    BY <1>0, <2>1, <2>3
  <2>5. /\ Head(dq) \in Elements(dq) /\ Elements(Tail(dq)) \subseteq Elements(dq) /\ Tail(dq) \in Seq(Process)
    BY <2>1, QueueHead
  <2>6. /\ Elements(sel') = Elements(sel) \cup Elements(Taken(shown))
        /\ Elements(Taken(shown)) \subseteq {c \in Process : parent[c] = Head(dq)}
    BY <2>2 DEF AddEffect
  <2>7. \A x \in Elements(Taken(shown)) : x \in Process /\ parent[x] \in Elements(sel')
    BY <2>4, <2>5, <2>6
  <2>8. \A i \in 2..Len(sel) : Hangs(sel[i])
    BY <1>0, <2>1 DEF Family
  <2>9. \A i \in 2..Len(sel') : Hangs(sel[i])'
    <3>1. \A x \in Elements(Taken(shown)) : IF x \in Process THEN parent[x] \in Elements(sel')
                                            ELSE x \in files /\ culprit \in Elements(sel')
      BY <2>7
    <3>2. UNCHANGED input /\ AddEffect(shown)
      BY <2>1, <2>2
    <3>q. QED BY <2>8, <3>1, <3>2, AddHangs
  <2>10. Elements(dq') = Elements(Tail(dq)) \cup Elements(Taken(shown))
    <3> DEFINE rest == Tail(dq)
               taken == Taken(shown)
    <3>1. rest \in Seq(Process) /\ taken \in Seq(Process)
      BY <2>2, <2>5
    <3> HIDE DEF rest, taken
    <3>2. Elements(rest \o taken) = Elements(rest) \cup Elements(taken)
      BY <3>1, ConcatElements
    <3>q. QED BY <2>2, <3>2 DEF rest, taken
  <2>11. Path' = Path /\ mode' # "core"
    BY <2>1, Unmoved DEF input
  <2>12. Elements(Path') \cup Elements(dq') \subseteq Elements(sel')
    BY <2>4, <2>5, <2>6, <2>10, <2>11
  <2>q. QED BY <2>9, <2>11, <2>12
<1>5. CASE FamilySiblings
  <2>1. /\ OfOne /\ UNCHANGED input /\ mode # "core" /\ Family /\ pc = "walk" /\ pc' = "emit"
        /\ dq = <<>> \/ Len(sel) >= cap
    BY <1>5, FamilySiblingsAdds DEF FamilySiblings, Family
  <2>2. PICK shown \in Seq(Process) :
              /\ AddEffect(shown)
              /\ \A c \in Elements(shown) : c \in Process /\ parent[c] \in Elements(Path)
    BY <1>5, FamilySiblingsAdds
  <2>3. Len(sel) >= cap \/ Elements(Path) \subseteq Elements(sel)
    BY <1>0, <2>1
  <2>4. /\ Elements(sel') = Elements(sel) \cup Elements(Taken(shown))
        /\ Elements(Taken(shown)) \subseteq Elements(shown)
        /\ Len(sel) >= cap => Elements(Taken(shown)) = {}
    <3>1. Elements(<<>>) = {}
      BY DEF Elements
    <3>q. QED BY <2>2, <3>1 DEF AddEffect
  <2>5. \A x \in Elements(Taken(shown)) : x \in Process /\ parent[x] \in Elements(sel')
    BY <2>2, <2>3, <2>4
  <2>6. \A i \in 2..Len(sel) : Hangs(sel[i])
    BY <1>0, <2>1 DEF Family
  <2>7. \A i \in 2..Len(sel') : Hangs(sel[i])'
    BY <2>1, <2>2, <2>5, <2>6, AddHangs
  <2>8. mode' # "core"
    BY <2>1 DEF input
  <2>q. QED BY <2>1, <2>7, <2>8
<1>6. CASE CoreAncestry
  <2>1. OfOne /\ mode = "core" /\ sel' = Last(Path, cap) /\ UNCHANGED input /\ pc' = "causes"
    BY <1>6 DEF CoreAncestry, OfOne, Path
  <2>2. /\ Path \in Seq(Process) /\ Len(Path) >= 1 /\ Len(Path) \in Nat /\ cap \in Nat /\ cap >= 1
        /\ Path[Len(Path)] = culprit
        /\ \A i \in 2..Len(Path) : parent[Path[i]] = Path[i - 1]
        /\ \A i \in 1..Len(Path) : Path[i] \in Process
    BY <2>1, AskedFor, ElementOfSeq
  <2>3. sel' \in Seq(Process) /\ culprit \in Elements(sel')
    BY <2>1, <2>2, LastProperties
  <2>4. PICK d : EndsAt(sel', Path, d)
    BY <2>1, <2>2, LastProperties
  <2>5. Len(sel') \in Nat /\ DOMAIN sel' = 1..Len(sel')
    BY <2>3, LenProperties
  <2>6. ASSUME NEW i \in 2..Len(sel') PROVE Hangs(sel[i])'
    <3>1. /\ i \in 1..Len(sel') /\ i - 1 \in 1..Len(sel') /\ i + d \in 2..Len(Path) /\ i + d \in 1..Len(Path)
          /\ (i + d) - 1 = (i - 1) + d
      BY <2>2, <2>4, <2>5 DEF EndsAt
    <3>2. sel'[i] = Path[i + d] /\ sel'[i - 1] = Path[(i + d) - 1]
      BY <2>4, <3>1 DEF EndsAt
    <3>3. sel'[i] \in Process /\ parent[sel'[i]] = sel'[i - 1]
      BY <2>2, <3>1, <3>2
    <3>4. sel'[i - 1] \in Elements(sel') /\ parent' = parent
      BY <2>1, <2>5, <3>1 DEF Elements, input
    <3>q. QED BY <3>3, <3>4 DEF Hangs
  <2>7. mode' = "core" /\ culprit' = culprit
    BY <2>1 DEF input
  <2>q. QED BY <2>1, <2>3, <2>6, <2>7 DEF Family
<1>7. CASE CoreCauses
  <2> DEFINE some == First(InOrder(files), cap - Len(sel))
  <2>1. /\ OfOne /\ mode = "core" /\ pc = "causes" /\ sel' = sel \o some /\ UNCHANGED input
        /\ dq' = Children(culprit) /\ pc' = "walk"
    BY <1>7 DEF CoreCauses, OfOne
  <2>2. /\ sel \in Seq(Item) /\ cap - Len(sel) \in Nat /\ Len(sel) \in Nat /\ DOMAIN sel = 1..Len(sel)
        /\ culprit \in Elements(sel)
    <3>1. cap \in Nat /\ Len(sel) \in Nat /\ Len(sel) <= cap
      BY <2>1, AskedFor, LenProperties DEF TypeInv, TypeOK
    <3>q. QED BY <1>0, <2>1, <3>1, LenProperties DEF TypeInv, TypeOK
  <2>3. some \in Seq(Item) /\ Elements(some) \subseteq files /\ files \subseteq Item \ Process
    <3>1. files \subseteq Item \ Process
      BY DEF AskInv
    <3>2. InOrder(files) \in Seq(Item) /\ Elements(InOrder(files)) = files
      BY <3>1, InOrderProperties
    <3>q. QED BY <2>2, <3>1, <3>2, FirstProperties
  <2> HIDE DEF some
  <2>4. /\ Len(sel') = Len(sel) + Len(some) /\ Len(some) \in Nat /\ DOMAIN some = 1..Len(some)
        /\ \A i \in 1..(Len(sel) + Len(some)) : sel'[i] = IF i <= Len(sel) THEN sel[i] ELSE some[i - Len(sel)]
        /\ Elements(sel') = Elements(sel) \cup Elements(some)
    BY <2>1, <2>2, <2>3, ConcatProperties, ConcatElements, LenProperties
  <2>5. parent' = parent /\ culprit' = culprit /\ files' = files /\ mode' = mode
    BY <2>1 DEF input
  <2>6. ASSUME NEW i \in 2..Len(sel') PROVE Hangs(sel[i])'
    <3>1. CASE i <= Len(sel)
      <4>1. i \in 2..Len(sel) /\ sel'[i] = sel[i]
        BY <2>2, <2>4, <3>1
      <4>2. Hangs(sel[i])
        BY <1>0, <2>1, <4>1
      <4>q. QED BY <2>4, <2>5, <4>1, <4>2 DEF Hangs
    <3>2. CASE ~(i <= Len(sel))
      <4>1. i - Len(sel) \in DOMAIN some /\ sel'[i] = some[i - Len(sel)]
        BY <2>2, <2>4, <3>2
      <4>2. sel'[i] \in files /\ sel'[i] \notin Process
        BY <2>3, <4>1 DEF Elements
      <4>q. QED BY <2>2, <2>4, <2>5, <4>2 DEF Hangs
    <3>q. QED BY <3>1, <3>2
  <2>7. \A x \in Elements(dq') : parent[x] = culprit
    BY <2>1, ChildrenProperties
  <2>q. QED BY <2>1, <2>2, <2>4, <2>5, <2>6, <2>7 DEF Family
<1>8. CASE SkipSeen
  <2>1. /\ mode \in {"core", "tree"} /\ UNCHANGED <<input, sel, pc>> /\ dq # <<>> /\ dq' = Tail(dq)
    BY <1>8 DEF SkipSeen
  <2>2. Elements(dq') \subseteq Elements(dq)
    BY <2>1, QueueHead
  <2>3. /\ parent' = parent /\ culprit' = culprit /\ files' = files /\ mode' = mode /\ sel' = sel /\ pc' = pc
    BY <2>1 DEF input
  <2>4. Nodes'
    BY <1>0, <2>3 DEF Hangs
  <2>5. Core'
    BY <1>0, <2>2, <2>3
  <2>q. QED BY <2>1, <2>3, <2>4, <2>5 DEF Family
<1>9. CASE CoreWalk
  <2>1. /\ mode = "core" /\ pc = "walk" /\ UNCHANGED input /\ dq # <<>> /\ pc' \in {"walk", "emit"}
        /\ sel \in Seq(Item)
    BY <1>9 DEF CoreWalk, TypeInv, TypeOK
  <2>2. /\ parent' = parent /\ culprit' = culprit /\ files' = files /\ mode' = mode
    BY <2>1 DEF input
  <2>3. /\ \A i \in 2..Len(sel) : Hangs(sel[i])
        /\ culprit \in Elements(sel) /\ \A x \in Elements(dq) : parent[x] \in Elements(sel)
    BY <1>0, <2>1
  <2>4. /\ Head(dq) \in Process /\ Head(dq) \in Item /\ Head(dq) \in Elements(dq) /\ Tail(dq) \in Seq(Process)
        /\ Elements(Tail(dq)) \subseteq Elements(dq)
        /\ Children(Head(dq)) \in Seq(Process)
        /\ Elements(Children(Head(dq))) = {c \in Process : parent[c] = Head(dq)}
    BY <2>1, QueueHead, ChildrenProperties
  <2>5. CASE sel' = sel
    <3>1. Nodes'
      BY <2>2, <2>3, <2>5 DEF Hangs
    <3>2. \/ pc' = "emit"
          \/ Head(dq) \in Elements(sel) /\ dq' = Tail(dq) \o Children(Head(dq))
      <4>1. Head(dq) \notin Elements(sel) => Append(sel, Head(dq)) # sel
        <5>1. Len(Append(sel, Head(dq))) = Len(sel) + 1 /\ Len(sel) \in Nat
          BY <2>1, <2>4, AppendElements, LenProperties
        <5>q. QED BY <5>1
      <4>q. QED BY <1>9, <2>5, <4>1 DEF CoreWalk
    <3>3. pc' = "walk" => \A x \in Elements(dq') : parent[x] \in Elements(sel)
      <4> SUFFICES ASSUME pc' = "walk" PROVE \A x \in Elements(dq') : parent[x] \in Elements(sel)
        OBVIOUS
      <4>1. /\ Head(dq) \in Elements(sel)
            /\ Elements(dq') = Elements(Tail(dq)) \cup {c \in Process : parent[c] = Head(dq)}
        BY <2>1, <3>2, QueueAfter
      <4>q. QED BY <2>3, <2>4, <4>1
    <3>q. QED BY <2>1, <2>2, <2>3, <2>5, <3>1, <3>3 DEF Family
  <2>6. CASE sel' # sel
    <3>1. sel' = Append(sel, Head(dq)) /\ dq' = Tail(dq) \o Children(Head(dq))
      BY <1>9, <2>6 DEF CoreWalk
    <3>2. /\ Len(sel') = Len(sel) + 1 /\ Len(sel) \in Nat
          /\ \A i \in 1..Len(sel) : sel'[i] = sel[i]
          /\ sel'[Len(sel) + 1] = Head(dq)
          /\ Elements(sel') = Elements(sel) \cup {Head(dq)}
      BY <2>1, <2>4, <3>1, AppendElements, LenProperties
    <3>3. Elements(dq') = Elements(Tail(dq)) \cup {c \in Process : parent[c] = Head(dq)}
      BY <2>1, <3>1, QueueAfter
    <3>4. ASSUME NEW i \in 2..Len(sel') PROVE Hangs(sel[i])'
      <4>1. CASE i \in 2..Len(sel)
        <5>1. sel'[i] = sel[i] /\ Hangs(sel[i])
          BY <2>3, <3>2, <4>1
        <5>q. QED BY <2>2, <3>2, <5>1 DEF Hangs
      <4>2. CASE i = Len(sel) + 1
        <5>1. sel'[i] \in Process /\ parent[sel'[i]] \in Elements(sel)
          BY <2>3, <2>4, <3>2, <4>2
        <5>q. QED BY <2>2, <3>2, <5>1 DEF Hangs
      <4>q. QED BY <3>2, <4>1, <4>2
    <3>5. \A x \in Elements(dq') : parent[x] \in Elements(sel')
      BY <2>3, <2>4, <3>2, <3>3
    <3>q. QED BY <2>1, <2>2, <2>3, <3>2, <3>4, <3>5 DEF Family
  <2>q. QED BY <2>5, <2>6
<1>10. CASE CoreDone \/ Emit
  <2>1. UNCHANGED <<input, sel>> /\ pc # "idle" /\ pc # "asked" /\ pc' \in {"emit", "done"}
    BY <1>10 DEF CoreDone, Emit
  <2>2. /\ parent' = parent /\ culprit' = culprit /\ files' = files /\ mode' = mode /\ sel' = sel
    BY <2>1 DEF input
  <2>3. Nodes'
    BY <1>0, <2>2 DEF Hangs
  <2>4. Core' /\ Whole1'
    BY <1>0, <2>1, <2>2
  <2>q. QED BY <2>3, <2>4
<1>11. CASE TreeStart \/ TreeWalk \/ TreeDone \/ AllPayload
  <2>1. mode \in {"tree", "all"} /\ mode' = mode
    BY <1>11 DEF TreeStart, TreeWalk, TreeDone, AllPayload, input
  <2>q. QED BY <2>1 DEF Family
<1>q. QED BY <1>1, <1>2, <1>3, <1>4, <1>5, <1>6, <1>7, <1>8, <1>9, <1>10, <1>11 DEF Next, Walk

LEMMA EdgeStep ==
  ASSUME TypeInv, AskInv, EdgeInv, Next
  PROVE  EdgeInv'
<1>1. CASE GraphPayload
  BY <1>1 DEF GraphPayload, EdgeInv
<1>2. CASE Emit
  <2>1. /\ pc' = "done" /\ parent' = parent /\ culprit' = culprit /\ files' = files /\ mode' = mode /\ sel' = sel
    BY <1>2 DEF Emit, input
  <2>2. weak' \subseteq files \X (Process \ {culprit})
    <3>1. weak' = {} \/ \E f \in files, p \in Process \ {culprit} : weak' = {<<f, p>>}
      BY <1>2 DEF Emit
    <3>q. QED BY <3>1
  <2>3. edges' = {e \in SpawnEdges \cup (files \X {culprit}) \cup weak' :
                    /\ {e[1], e[2]} \subseteq Elements(sel)
                    /\ Family => e \notin weak'}
    BY <1>2 DEF Emit
  <2>4. SpawnEdges' = SpawnEdges /\ (Family' <=> Family)
    BY <2>1 DEF SpawnEdges, Family
  <2>q. QED BY <2>1, <2>2, <2>3, <2>4 DEF EdgeInv
<1>3. CASE TreeDone
  BY <1>3 DEF TreeDone, EdgeInv, input
<1>4. CASE Walk /\ ~Emit /\ ~TreeDone
  <2>1. pc' # "done"
    BY <1>4, Frame
  <2>q. QED BY <2>1 DEF EdgeInv
<1>q. QED BY <1>1, <1>2, <1>3, <1>4 DEF Next

LEMMA HangsTogetherFollows ==
  ASSUME IInv
  PROVE  HangsTogether
<1> SUFFICES ASSUME mode \in {"core", "family", "expand"}, pc = "done", NEW i \in 2..Len(sel)
             PROVE  \E e \in edges : IF sel[i] \in Process THEN e[2] = sel[i] ELSE e[1] = sel[i]
  BY DEF HangsTogether
<1>1. Hangs(sel[i])
  BY DEF IInv, HangInv
<1>2. /\ weak \subseteq files \X (Process \ {culprit})
      /\ edges = {e \in SpawnEdges \cup (files \X {culprit}) \cup weak :
                    /\ {e[1], e[2]} \subseteq Elements(sel)
                    /\ Family => e \notin weak}
  BY DEF IInv, EdgeInv
<1>3. /\ sel[i] \in Elements(sel) /\ Elements(sel) \subseteq Item /\ files \subseteq Item \ Process
      /\ parent \in [Process -> 0..N]
  <2>1. sel \in Seq(Item) /\ Len(sel) \in Nat /\ DOMAIN sel = 1..Len(sel)
    BY LenProperties DEF IInv, TypeInv, TypeOK
  <2>2. i \in 1..Len(sel)
    BY <2>1
  <2>3. \A j \in DOMAIN sel : sel[j] \in Item
    BY <2>1, ElementOfSeq
  <2>q. QED BY <2>1, <2>2, <2>3 DEF Elements, IInv, AskInv, TypeInv, Relation
<1>4. CASE sel[i] \in Process
  <2> DEFINE e == <<parent[sel[i]], sel[i]>>
  <2>1. parent[sel[i]] \in Elements(sel)
    BY <1>1, <1>4 DEF Hangs
  <2>2. parent[sel[i]] \in Process /\ parent[sel[i]] # 0
    <3>1. parent[sel[i]] \in 0..N /\ parent[sel[i]] \in Item
      BY <1>3, <1>4, <2>1
    <3>2. parent[sel[i]] # 0
      BY <3>1, Sizes
    <3>q. QED BY <3>1, <3>2, Sizes DEF Process
  <2>3. e \in SpawnEdges
    BY <1>4, <2>2 DEF SpawnEdges
  <2>4. e \notin weak
    BY <1>2, <1>3, <2>2
  <2>5. e[1] = parent[sel[i]] /\ e[2] = sel[i]
    OBVIOUS
  <2> HIDE DEF e
  <2>6. e \in edges
    BY <1>2, <1>3, <2>1, <2>3, <2>4, <2>5
  <2>q. QED BY <1>4, <2>5, <2>6
<1>5. CASE sel[i] \notin Process
  <2> DEFINE e == <<sel[i], culprit>>
  <2>1. sel[i] \in files /\ culprit \in Elements(sel)
    BY <1>1, <1>5 DEF Hangs
  <2>2. e \in files \X {culprit} /\ e \notin weak
    BY <1>2, <2>1
  <2>3. e[1] = sel[i] /\ e[2] = culprit
    OBVIOUS
  <2> HIDE DEF e
  <2>4. e \in edges
    BY <1>2, <1>3, <2>1, <2>2, <2>3
  <2>q. QED BY <1>5, <2>3, <2>4
<1>q. QED BY <1>4, <1>5

-----------------------------------------------------------------------------
(* The walks. *)

LEMMA WalkStep ==
  ASSUME TypeInv, AskInv, WalkInv, Next
  PROVE  WalkInv'
<1> DEFINE Good(k, s, q) == /\ s \subseteq Below[k] /\ q \subseteq Below[k] /\ k \in s \cup q
                            /\ \A x \in s : \A c \in Process : parent[c] = x => c \in s \cup q
<1>1. CASE GraphPayload \/ AllPayload \/ CoreAncestry \/ CoreDone \/ TreeDone \/ Emit
  BY <1>1 DEF GraphPayload, AllPayload, CoreAncestry, CoreDone, TreeDone, Emit, WalkInv
<1>2. CASE FamilyAncestry \/ FamilyCauses \/ FamilyWalk \/ FamilySiblings
  BY <1>2 DEF FamilyAncestry, FamilyCauses, FamilyWalk, FamilySiblings, Family, input, WalkInv
<1>3. CASE CoreCauses \/ SkipSeen \/ CoreWalk \/ TreeStart \/ TreeWalk
  <2>1. UNCHANGED input /\ OfOne
    BY <1>3 DEF CoreCauses, SkipSeen, CoreWalk, TreeStart, TreeWalk, OfOne
  <2>2. culprit \in Process /\ Relation
    BY <2>1, AskedFor DEF TypeInv
  <2>3. culprit \in Below[culprit] /\ Closed(Below[culprit])
    BY <2>2, BelowProperties
  <2>4. SUFFICES ASSUME pc' = "walk" PROVE Good(culprit, seen', Elements(dq'))
    <3>1. Below' = Below /\ parent' = parent /\ culprit' = culprit
      BY <2>1, Unmoved DEF input
    <3>2. pc' = "walk" => Good(culprit, seen', Elements(dq'))
      BY <2>4
    <3>q. QED BY <3>1, <3>2 DEF WalkInv
  <2>5. CASE CoreCauses
    <3>1. seen' = {culprit} /\ Elements(dq') = {c \in Process : parent[c] = culprit}
      BY <2>5, ChildrenProperties DEF CoreCauses
    <3>q. QED BY <2>3, <3>1 DEF Closed
  <2>6. CASE TreeStart
    <3>1. seen' = {} /\ dq' = <<culprit>>
      BY <2>6 DEF TreeStart, AskInv
    <3>2. Elements(<<culprit>>) = {culprit}
      BY DEF Elements
    <3>q. QED BY <2>3, <3>1, <3>2
  <2>7. CASE SkipSeen
    <3>1. dq # <<>> /\ Head(dq) \in seen /\ dq' = Tail(dq) /\ seen' = seen /\ pc = "walk" /\ mode \in {"core", "tree"}
      BY <2>7 DEF SkipSeen
    <3>2. Good(culprit, seen, Elements(dq))
      BY <3>1 DEF WalkInv
    <3>3. Elements(dq) = {Head(dq)} \cup Elements(Tail(dq))
      BY <3>1, QueueHead
    <3>q. QED BY <3>1, <3>2, <3>3
  <2>8. CASE CoreWalk \/ TreeWalk
    <3>1. /\ dq # <<>> /\ pc = "walk" /\ mode \in {"core", "tree"} /\ seen' = seen \cup {Head(dq)}
          /\ dq' = Tail(dq) \o Children(Head(dq)) \/ dq' = Children(Head(dq)) \o Tail(dq)
      BY <2>4, <2>8 DEF CoreWalk, TreeWalk
    <3>2. Good(culprit, seen, Elements(dq))
      BY <3>1 DEF WalkInv
    <3> DEFINE K == {c \in Process : parent[c] = Head(dq)}
    <3>3. Elements(dq') = Elements(Tail(dq)) \cup K
      BY <3>1, QueueAfter
    <3>4. Elements(dq) = {Head(dq)} \cup Elements(Tail(dq))
      BY <3>1, QueueHead
    <3>5. K \subseteq Below[culprit]
      BY <2>3, <3>2, <3>4 DEF Closed
    <3>6. seen' \subseteq Below[culprit] /\ Elements(dq') \subseteq Below[culprit]
      BY <3>1, <3>2, <3>3, <3>4, <3>5
    <3>7. culprit \in seen' \cup Elements(dq')
      BY <3>1, <3>2, <3>3, <3>4
    <3>8. ASSUME NEW x \in seen', NEW c \in Process, parent[c] = x PROVE c \in seen' \cup Elements(dq')
      <4>1. CASE x \in seen
        <5>1. c \in seen \cup Elements(dq)
          BY <3>2, <3>8, <4>1
        <5>q. QED BY <3>1, <3>3, <3>4, <5>1
      <4>2. CASE x = Head(dq)
        BY <3>3, <3>8, <4>2
      <4>q. QED BY <3>1, <4>1, <4>2
    <3>q. QED BY <3>6, <3>7, <3>8
  <2>q. QED BY <1>3, <2>5, <2>6, <2>7, <2>8
<1>q. QED BY <1>1, <1>2, <1>3 DEF Next, Walk

(* A walk with nothing left to visit has seen everything.                   *)
LEMMA WalkEnds ==
  ASSUME TypeInv, AskInv, WalkInv, mode \in {"core", "tree"}, pc = "walk", dq = <<>>
  PROVE  seen = Below[culprit]
<1>1. culprit \in Process
  BY AskedFor DEF OfOne
<1>2. Elements(dq) = {}
  BY DEF Elements
<1>3. seen \subseteq Below[culprit] /\ culprit \in seen /\ Closed(seen)
  BY <1>2 DEF WalkInv, Closed
<1>4. Below[culprit] \subseteq seen
  BY <1>1, <1>3, BelowIsLeast DEF TypeInv
<1>q. QED BY <1>3, <1>4

LEMMA TreeStep ==
  ASSUME TypeInv, AskInv, WalkInv, TreeInv, Next
  PROVE  TreeInv'
<1>0. Elements(<<>>) = {}
  BY DEF Elements
<1>1. CASE GraphPayload
  BY <1>0, <1>1 DEF GraphPayload, AskInv, TreeInv
<1>2. CASE FamilyAncestry \/ FamilyCauses \/ FamilyWalk \/ FamilySiblings \/ CoreAncestry \/ CoreCauses
           \/ CoreWalk \/ CoreDone \/ AllPayload
  <2>1. mode' # "tree"
    BY <1>2 DEF FamilyAncestry, FamilyCauses, FamilyWalk, FamilySiblings, Family, CoreAncestry, CoreCauses,
         CoreWalk, CoreDone, AllPayload, input
  <2>q. QED BY <2>1 DEF TreeInv
<1>3. CASE Emit
  <2>1. mode' # "tree"
    BY <1>3 DEF Emit, AskInv, input
  <2>q. QED BY <2>1 DEF TreeInv
<1>4. CASE SkipSeen \/ TreeStart
  <2>1. UNCHANGED <<input, sel, truncated, seen>> /\ pc' = "walk"
    BY <1>4 DEF SkipSeen, TreeStart
  <2>q. QED BY <2>1 DEF TreeInv, input
<1>5. CASE TreeWalk
  <2>1. /\ mode = "tree" /\ sel' = Append(sel, Head(dq)) /\ seen' = seen \cup {Head(dq)}
        /\ truncated' = truncated /\ pc' = "walk" /\ dq # <<>>
    BY <1>5 DEF TreeWalk
  <2>2. Elements(sel') = Elements(sel) \cup {Head(dq)}
    BY <2>1, QueueHead, AppendElements DEF TypeInv, TypeOK
  <2>q. QED BY <2>1, <2>2 DEF TreeInv
<1>6. CASE TreeDone
  <2>1. /\ mode = "tree" /\ pc = "walk" /\ dq = <<>> /\ UNCHANGED input
        /\ sel' = sel /\ seen' = seen /\ truncated' = truncated
    BY <1>6 DEF TreeDone
  <2>2. seen = Below[culprit]
    BY <2>1, WalkEnds
  <2>3. Below' = Below /\ culprit' = culprit
    BY <2>1, Unmoved DEF input
  <2>q. QED BY <2>1, <2>2, <2>3 DEF TreeInv
<1>q. QED BY <1>1, <1>2, <1>3, <1>4, <1>5, <1>6 DEF Next, Walk

LEMMA AllStep ==
  ASSUME TypeInv, AskInv, AllInv, Next
  PROVE  AllInv'
<1>1. CASE GraphPayload
  BY <1>1 DEF GraphPayload, AllInv
<1>2. CASE AllPayload
  <2>1. sel' = First(InOrder(Process), cap) /\ (truncated' <=> N > cap)
    BY <1>2 DEF AllPayload
  <2>2. /\ InOrder(Process) \in Seq(Item) /\ Len(InOrder(Process)) = N /\ Distinct(InOrder(Process))
        /\ Elements(InOrder(Process)) = Process
    BY Sizes, InOrderProperties
  <2>3. cap \in Nat /\ N \in Nat
    BY Sizes DEF TypeInv, TypeOK
  <2>4. /\ sel' \in Seq(Item) /\ Distinct(sel')
        /\ N <= cap => sel' = InOrder(Process)
        /\ N >= cap => Len(sel') = cap
    BY <2>1, <2>2, <2>3, FirstProperties
  <2>5. Cardinality(Elements(sel')) = Len(sel')
    BY <2>4, DistinctCount
  <2>6. CASE N <= cap
    BY <2>1, <2>2, <2>3, <2>4, <2>6 DEF AllInv
  <2>7. CASE ~(N <= cap)
    <3>1. Cardinality(Elements(sel')) = cap /\ cap # N
      BY <2>3, <2>4, <2>5, <2>7
    <3>2. Elements(sel') # Process
      BY <3>1, Sizes
    <3>q. QED BY <2>1, <2>3, <2>7, <3>2 DEF AllInv
  <2>q. QED BY <2>6, <2>7
<1>3. CASE Emit
  BY <1>3 DEF Emit, AllInv, input
<1>4. CASE Walk /\ ~AllPayload /\ ~Emit
  <2>1. mode # "all" /\ mode' = mode
    BY <1>4, Frame DEF input
  <2>q. QED BY <2>1 DEF AllInv
<1>q. QED BY <1>1, <1>2, <1>3, <1>4 DEF Next

LEMMA CoreWholeSize ==
  ASSUME TypeInv, AskInv, OfOne
  PROVE  /\ culprit \in Below[culprit] /\ Below[culprit] \subseteq Process
         /\ \A A \in SUBSET CoreWhole :
              /\ IsFiniteSet(A) /\ Cardinality(A) \in Nat /\ Cardinality(CoreWhole) \in Nat
              /\ Cardinality(A) <= Cardinality(CoreWhole)
<1>1. culprit \in Process /\ Elements(Path) \subseteq Process /\ Relation
  BY AskedFor DEF TypeInv
<1>2. culprit \in Below[culprit] /\ Below[culprit] \subseteq Process
  BY <1>1, BelowProperties
<1>3. CoreWhole \in SUBSET Item
  BY <1>1, <1>2, Sizes DEF CoreWhole, AskInv
<1>4. IsFiniteSet(CoreWhole) /\ Cardinality(CoreWhole) \in Nat
  BY <1>3, Sizes, FS_Subset, FS_CardinalityType
<1>q. QED BY <1>2, <1>4, FS_Subset, FS_CardinalityType

LEMMA CoreStep ==
  ASSUME TypeInv, AskInv, HangInv, WalkInv, CoreInv, Next
  PROVE  CoreInv'
<1>1. CASE GraphPayload
  BY <1>1 DEF GraphPayload, CoreInv
<1>2. CASE FamilyAncestry \/ FamilyCauses \/ FamilyWalk \/ FamilySiblings \/ TreeStart \/ TreeWalk
           \/ TreeDone \/ AllPayload
  <2>1. mode' # "core"
    BY <1>2 DEF FamilyAncestry, FamilyCauses, FamilyWalk, FamilySiblings, Family, TreeStart, TreeWalk,
         TreeDone, AllPayload, input
  <2>q. QED BY <2>1 DEF CoreInv
<1>3. SUFFICES ASSUME mode' = "core", CoreAncestry \/ CoreCauses \/ SkipSeen \/ CoreWalk \/ CoreDone \/ Emit
               PROVE  CoreInv'
  BY <1>1, <1>2 DEF Next, Walk, CoreInv
<1>4. /\ UNCHANGED input /\ mode = "core" /\ OfOne
      /\ mode' = mode /\ culprit' = culprit /\ cap' = cap /\ files' = files
  <2>1. UNCHANGED input
    BY <1>3, Frame DEF Walk
  <2>q. QED BY <1>3, <2>1 DEF input, OfOne
<1>5. Path' = Path /\ CoreWhole' = CoreWhole /\ (HasCycle' <=> HasCycle)
  BY <1>4, Unmoved
<1>6. /\ culprit \in Process /\ cap \in Nat /\ cap >= 1 /\ Path \in Seq(Item) /\ Distinct(Path)
      /\ Len(Path) >= 1 /\ Len(Path) \in Nat /\ culprit \in Elements(Path) /\ Elements(Path) \subseteq Process
      /\ files \subseteq Item \ Process
  <2>1. files \subseteq Item \ Process
    BY DEF AskInv
  <2>q. QED BY <1>4, <2>1, AskedFor
<1>7. /\ sel \in Seq(Item) /\ Len(sel) \in Nat /\ Len(sel) <= cap /\ Distinct(sel)
      /\ IsFiniteSet(Elements(sel)) /\ Cardinality(Elements(sel)) = Len(sel)
  <2>1. sel \in Seq(Item) /\ Len(sel) <= cap /\ Distinct(sel)
    BY DEF TypeInv, TypeOK
  <2>q. QED BY <2>1, LenProperties, DistinctCount
<1>8. /\ culprit \in Below[culprit] /\ Below[culprit] \subseteq Process
      /\ \A A \in SUBSET CoreWhole :
           /\ IsFiniteSet(A) /\ Cardinality(A) \in Nat /\ Cardinality(CoreWhole) \in Nat
           /\ Cardinality(A) <= Cardinality(CoreWhole)
  BY <1>4, CoreWholeSize
<1>9. Elements(Path) \in SUBSET CoreWhole /\ files \in SUBSET CoreWhole
  BY DEF CoreWhole
<1>10. Cardinality(CoreWhole) > cap => Elements(sel) # CoreWhole
  <2> SUFFICES ASSUME Elements(sel) = CoreWhole PROVE ~(Cardinality(CoreWhole) > cap)
    OBVIOUS
  <2>1. Cardinality(CoreWhole) = Len(sel)
    BY <1>7
  <2>q. QED BY <1>6, <1>7, <2>1
<1>11. CASE CoreAncestry
  <2>1. sel' = Last(Path, cap) /\ pc' = "causes" /\ (truncated' <=> Len(Path) > cap)
    BY <1>11 DEF CoreAncestry, Path
  <2>2. /\ Elements(sel') \subseteq Elements(Path)
        /\ ~truncated' => sel' = Path
    <3>1. Len(Path) <= cap => Last(Path, cap) = Path
      BY <1>6, LastProperties
    <3>2. Elements(Last(Path, cap)) \subseteq Elements(Path)
      BY <1>6, LastProperties
    <3>q. QED BY <1>6, <2>1, <3>1, <3>2
  <2>3. truncated' => Cardinality(CoreWhole) > cap
    <3>1. Cardinality(Elements(Path)) = Len(Path)
      BY <1>6, DistinctCount
    <3>2. Cardinality(Elements(Path)) <= Cardinality(CoreWhole) /\ Cardinality(CoreWhole) \in Nat
      BY <1>8, <1>9
    <3>3. Len(Path) <= Cardinality(CoreWhole)
      BY <3>1, <3>2
    <3>q. QED BY <1>6, <2>1, <3>2, <3>3
  <2>q. QED BY <1>4, <1>5, <2>1, <2>2, <2>3 DEF CoreInv
<1>12. CASE CoreCauses
  <2> DEFINE room == cap - Len(sel)
             some == First(InOrder(files), room)
  <2>1. /\ pc = "causes" /\ pc' = "walk" /\ sel' = sel \o some
        /\ (truncated' <=> truncated \/ Cardinality(files) > room) /\ seen' = {culprit}
    BY <1>12 DEF CoreCauses
  <2>2. room \in Nat /\ Len(sel) + room = cap
    BY <1>6, <1>7
  <2>3. /\ InOrder(files) \in Seq(Item) /\ Elements(InOrder(files)) = files
        /\ IsFiniteSet(files) /\ Len(InOrder(files)) = Cardinality(files) /\ Cardinality(files) \in Nat
    BY <1>6, InOrderProperties, FS_CardinalityType
  <2> HIDE DEF room
  <2>4. /\ some \in Seq(Item) /\ Elements(some) \subseteq files
        /\ Cardinality(files) <= room => some = InOrder(files)
    <3>1. InOrder(files) \in Seq(Item) /\ room \in Nat
      BY <2>2, <2>3
    <3>2. /\ some \in Seq(Item) /\ Elements(some) \subseteq Elements(InOrder(files))
          /\ Len(InOrder(files)) <= room => some = InOrder(files)
      BY <3>1, FirstProperties
    <3>q. QED BY <2>3, <3>2
  <2> HIDE DEF some
  <2>5. Elements(sel') = Elements(sel) \cup Elements(some)
    BY <1>7, <2>1, <2>4, ConcatElements
  <2>6. /\ Elements(sel) \subseteq Elements(Path)
        /\ ~truncated => Elements(Path) \subseteq Elements(sel)
        /\ truncated => Cardinality(CoreWhole) > cap
        /\ culprit \in Elements(sel)
    BY <1>4, <2>1 DEF CoreInv, HangInv
  <2>7. ~truncated' => files \subseteq Elements(sel')
    BY <2>1, <2>2, <2>3, <2>4, <2>5
  <2>8. Cardinality(files) > room => Cardinality(CoreWhole) > cap
    <3> DEFINE A == Elements(sel) \cup files
    <3>1. Elements(sel) \cap files = {}
      BY <1>6, <2>6
    <3>2. Cardinality(A) = Cardinality(Elements(sel)) + Cardinality(files)
      <4> DEFINE S == Elements(sel)
                 both == S \cap files
      <4>1. IsFiniteSet(S) /\ both = {} /\ Cardinality(S) \in Nat
        BY <1>7, <3>1
      <4> HIDE DEF S
      <4>2. Cardinality(S \cup files) = Cardinality(S) + Cardinality(files) - Cardinality(both)
        BY <2>3, <4>1, FS_Union
      <4> HIDE DEF both
      <4>3. Cardinality(both) = 0
        BY <4>1, FS_EmptySet
      <4>4. Cardinality(S \cup files) = Cardinality(S) + Cardinality(files)
        BY <2>3, <4>1, <4>2, <4>3
      <4>q. QED BY <4>4 DEF S
    <3>3. A \in SUBSET CoreWhole
      BY <1>9, <2>6
    <3> HIDE DEF A
    <3>4. Cardinality(A) <= Cardinality(CoreWhole) /\ Cardinality(CoreWhole) \in Nat
      BY <1>8, <3>3
    <3>5. Len(sel) + Cardinality(files) <= Cardinality(CoreWhole)
      BY <1>7, <3>2, <3>4
    <3>q. QED BY <1>6, <1>7, <2>2, <2>3, <3>4, <3>5
  <2>9. Elements(sel') \subseteq Elements(Path) \cup files /\ culprit \in Elements(sel')
    BY <2>4, <2>5, <2>6
  <2>10. truncated' => Cardinality(CoreWhole) > cap
    BY <2>1, <2>6, <2>8
  <2>11. ~truncated' => Elements(Path) \subseteq Elements(sel')
    BY <2>1, <2>5, <2>6
  <2>q. QED BY <1>4, <1>5, <2>1, <2>7, <2>9, <2>10, <2>11 DEF CoreInv
<1>13. CASE SkipSeen
  BY <1>4, <1>5, <1>13 DEF SkipSeen, CoreInv
<1>14. CASE CoreWalk
  <2> DEFINE h == Head(dq)
  <2>1. /\ pc = "walk" /\ dq # <<>> /\ h \notin seen /\ seen' = seen \cup {h}
        /\ \/ Len(sel) >= cap /\ truncated' = TRUE /\ pc' = "emit" /\ sel' = sel
           \/ /\ sel' = IF h \in Elements(sel) THEN sel ELSE Append(sel, h)
              /\ truncated' = truncated /\ pc' = pc
    BY <1>14 DEF CoreWalk
  <2>2. h \in Process /\ h \in Item /\ h \in Elements(dq)
    BY <2>1, QueueHead
  <2> HIDE DEF h
  <2>3. h \in Below[culprit]
    BY <1>4, <2>1, <2>2 DEF WalkInv
  <2>4. /\ Elements(sel) \subseteq Elements(Path) \cup files \cup seen
        /\ culprit \in seen /\ seen \subseteq Elements(sel)
        /\ ~truncated => files \subseteq Elements(sel)
        /\ ~truncated => Elements(Path) \subseteq Elements(sel)
        /\ truncated => Cardinality(CoreWhole) > cap
    BY <1>4, <2>1 DEF CoreInv
  <2>5. CASE truncated' = TRUE /\ pc' = "emit" /\ sel' = sel
    <3>1. CASE truncated
      BY <1>4, <1>5, <1>10, <2>4, <2>5, <3>1 DEF CoreInv
    <3>2. CASE h \notin Elements(sel)
      <4>1. h \in CoreWhole
        BY <2>1, <2>3, <2>4 DEF CoreWhole
      <4>q. QED BY <1>4, <1>5, <2>5, <3>2, <4>1 DEF CoreInv
    <3>3. CASE h \in Elements(sel)
      <4>1. h \in Elements(Path) /\ h # culprit
        BY <1>6, <2>1, <2>2, <2>4, <3>3
      <4>2. PICK i \in 1..Len(Path) : h = Path[i]
        BY <1>6, <4>1, LenProperties DEF Elements
      <4>3. \E n \in 0..N : Path[i] = Up(culprit)[n]
        BY <1>6, AncestryProperties DEF TypeInv, Path
      <4>4. PICK n \in 0..N : h = Up(culprit)[n]
        BY <4>2, <4>3
      <4>5. HasCycle
        BY <1>6, <2>3, <4>1, <4>4, AncestorBelow DEF TypeInv
      <4>q. QED BY <1>4, <1>5, <2>5, <4>5 DEF CoreInv
    <3>q. QED BY <3>2, <3>3
  <2>6. CASE /\ sel' = IF h \in Elements(sel) THEN sel ELSE Append(sel, h)
             /\ truncated' = truncated /\ pc' = pc
    <3>1. Elements(sel') = Elements(sel) \cup {h}
      <4>1. Elements(Append(sel, h)) = Elements(sel) \cup {h}
        BY <1>7, <2>2, AppendElements
      <4>q. QED BY <2>6, <4>1
    <3>q. QED BY <1>4, <1>5, <2>1, <2>4, <2>6, <3>1 DEF CoreInv
  <2>q. QED BY <2>1, <2>5, <2>6
<1>15. CASE CoreDone
  <2>1. /\ pc = "walk" /\ dq = <<>> /\ pc' = "emit" /\ sel' = sel /\ truncated' = truncated
    BY <1>15 DEF CoreDone
  <2>2. seen = Below[culprit]
    BY <1>4, <2>1, WalkEnds
  <2>3. /\ Elements(sel) \subseteq Elements(Path) \cup files \cup seen
        /\ seen \subseteq Elements(sel)
        /\ ~truncated => files \subseteq Elements(sel)
        /\ ~truncated => Elements(Path) \subseteq Elements(sel)
        /\ truncated => Cardinality(CoreWhole) > cap
    BY <1>4, <2>1 DEF CoreInv
  <2>4. ~truncated => Elements(sel) = CoreWhole
    BY <1>6, <2>2, <2>3 DEF CoreWhole
  <2>q. QED BY <1>4, <1>5, <1>10, <2>1, <2>3, <2>4 DEF CoreInv
<1>16. CASE Emit
  <2>1. pc = "emit" /\ pc' = "done" /\ sel' = sel /\ truncated' = truncated
    BY <1>16 DEF Emit
  <2>q. QED BY <1>4, <1>5, <2>1 DEF CoreInv
<1>q. QED BY <1>3, <1>11, <1>12, <1>13, <1>14, <1>15, <1>16

LEMMA NestStep ==
  ASSUME TypeInv, AskInv, TreeInv, NestInv, Next
  PROVE  NestInv'
<1>1. CASE GraphPayload
  <2>1. sel' = <<>> /\ pc' = "asked" /\ DOMAIN <<>> = {}
    BY <1>1 DEF GraphPayload, AskInv
  <2>q. QED BY <2>1 DEF NestInv
<1>2. CASE FamilyAncestry \/ FamilyCauses \/ FamilyWalk \/ FamilySiblings \/ CoreAncestry \/ CoreCauses
           \/ CoreWalk \/ CoreDone \/ AllPayload \/ Emit
  <2>1. mode # "tree"
    <3>1. CASE Emit
      BY <3>1 DEF Emit, AskInv
    <3>2. CASE ~Emit
      BY <1>2, <3>2 DEF FamilyAncestry, FamilyCauses, FamilyWalk, FamilySiblings, Family, CoreAncestry,
           CoreCauses, CoreWalk, CoreDone, AllPayload
    <3>q. QED BY <3>1, <3>2
  <2>2. mode' = mode
    BY <1>2, Frame DEF Walk, input
  <2>q. QED BY <2>1, <2>2 DEF NestInv
<1>3. SUFFICES ASSUME mode' = "tree", TreeStart \/ SkipSeen \/ TreeWalk \/ TreeDone
               PROVE  NestInv'
  BY <1>1, <1>2 DEF Next, Walk, NestInv
<1>4. UNCHANGED input /\ mode = "tree" /\ OfOne /\ parent' = parent /\ culprit' = culprit
  <2>1. UNCHANGED input
    BY <1>3, Frame DEF Walk
  <2>q. QED BY <1>3, <2>1 DEF input, OfOne
<1>5. Below' = Below /\ Relation /\ \A p \in Process : parent[p] # p
  BY <1>4, Unmoved DEF TypeInv, Relation
<1> DEFINE L == Len(sel)
           Under(x) == Below[x] \ {x}
<1>6. /\ sel \in Seq(Item) /\ L \in Nat /\ DOMAIN sel = 1..L /\ Elements(sel) = seen
      /\ dq \in Seq(Process) /\ Len(dq) \in Nat /\ DOMAIN dq = 1..Len(dq)
      /\ \A i \in 1..L : sel[i] \in seen /\ sel[i] \in Process
  <2>1. sel \in Seq(Item) /\ dq \in Seq(Process) /\ seen \subseteq Process /\ Elements(sel) = seen
    BY <1>4 DEF TypeInv, TypeOK, TreeInv
  <2>2. L \in Nat /\ DOMAIN sel = 1..L /\ Len(dq) \in Nat /\ DOMAIN dq = 1..Len(dq)
    BY <2>1, LenProperties
  <2>3. \A i \in 1..L : sel[i] \in Elements(sel)
    BY <2>2 DEF Elements
  <2>q. QED BY <2>1, <2>2, <2>3
<1>7. /\ \A i \in 1..L : \A j \in (i + 1)..L : parent[sel[j]] = sel[i] =>
           \A m \in (i + 1)..j : sel[m] \in Under(sel[i])
      /\ \A i \in 1..L : \A q \in 1..Len(dq) : parent[dq[q]] = sel[i] =>
           /\ \A m \in (i + 1)..L : sel[m] \in Under(sel[i])
           /\ \A r \in 1..q : dq[r] \in Under(sel[i]) \cup seen
      /\ pc = "walk" => \/ seen = {} /\ dq = <<culprit>>
                        \/ \A q \in 1..Len(dq) : parent[dq[q]] \in seen
  BY <1>4, <1>6 DEF NestInv
<1> DEFINE Printed(s) == \A i \in DOMAIN s : \A j \in (i + 1)..Len(s) : parent[s[j]] = s[i] =>
                           \A m \in (i + 1)..j : s[m] \in Under(s[i])
           ToCome(s, d, S) == \A i \in DOMAIN s : \A q \in DOMAIN d : parent[d[q]] = s[i] =>
                                /\ \A m \in (i + 1)..Len(s) : s[m] \in Under(s[i])
                                /\ \A r \in 1..q : d[r] \in Under(s[i]) \cup S
           Hung(d, S) == \/ S = {} /\ d = <<culprit>>
                         \/ \A q \in DOMAIN d : parent[d[q]] \in S
<1>8. SUFFICES Printed(sel') /\ ToCome(sel', dq', seen') /\ (pc' = "walk" => Hung(dq', seen'))
  BY <1>4, <1>5 DEF NestInv
<1>9. CASE TreeStart
  <2>1. sel' = <<>> /\ seen' = {} /\ dq' = <<culprit>> /\ DOMAIN <<>> = {}
    BY <1>9 DEF TreeStart, AskInv
  <2>q. QED BY <2>1
<1>10. CASE TreeDone
  <2>1. sel' = sel /\ seen' = seen /\ dq' = dq /\ pc' = "done"
    BY <1>10 DEF TreeDone
  <2>q. QED BY <1>6, <1>7, <2>1
<1>11. CASE SkipSeen
  <2>1. pc = "walk" /\ dq # <<>> /\ Head(dq) \in seen /\ sel' = sel /\ seen' = seen /\ dq' = Tail(dq)
    BY <1>11 DEF SkipSeen
  <2>2. /\ Len(dq) >= 1 /\ Len(dq') = Len(dq) - 1 /\ DOMAIN dq' = 1..(Len(dq) - 1)
        /\ \A q \in 1..(Len(dq) - 1) : dq'[q] = dq[q + 1] /\ q + 1 \in 1..Len(dq)
    <3>1. dq' \in Seq(Process) /\ Len(dq') = Len(dq) - 1 /\ \A q \in 1..(Len(dq) - 1) : dq'[q] = dq[q + 1]
      BY <1>6, <2>1, HeadTailProperties
    <3>2. Len(dq) >= 1
      BY <1>6, <2>1, EmptySeq
    <3>3. DOMAIN dq' = 1..(Len(dq) - 1)
      BY <3>1, LenProperties
    <3>q. QED BY <1>6, <3>1, <3>2, <3>3
  <2>3. Printed(sel')
    BY <1>6, <1>7, <2>1
  <2>4. ToCome(sel', dq', seen')
    <3>1. sel' = sel /\ seen' = seen /\ DOMAIN dq' = 1..(Len(dq) - 1) /\ DOMAIN sel = 1..L
      BY <1>6, <2>1, <2>2
    <3> SUFFICES ASSUME NEW i \in 1..L, NEW q \in 1..(Len(dq) - 1), parent[dq'[q]] = sel[i]
                 PROVE  /\ \A m \in (i + 1)..L : sel[m] \in Under(sel[i])
                        /\ \A r \in 1..q : dq'[r] \in Under(sel[i]) \cup seen
      <4> HIDE DEF Under
      <4>q. QED BY <3>1
    <3>2. /\ q + 1 \in 1..Len(dq) /\ dq'[q] = dq[q + 1]
          /\ \A r \in 1..q : r + 1 \in 1..(q + 1) /\ dq'[r] = dq[r + 1]
      <4>1. \A r \in 1..q : r + 1 \in 1..(q + 1) /\ r \in 1..(Len(dq) - 1)
        BY <1>6
      <4>q. QED BY <2>2, <4>1
    <3> HIDE DEF L, Under
    <3>q. QED BY <1>7, <3>2
  <2>5. Hung(dq', seen')
    <3>1. \A q \in 1..Len(dq) : parent[dq[q]] \in seen
      BY <1>7, <2>1
    <3>q. QED BY <2>1, <2>2, <3>1
  <2>q. QED BY <2>3, <2>4, <2>5
<1>12. CASE TreeWalk
  <2> DEFINE h == Head(dq)
             kids == Children(h)
             c == Len(kids)
             rest == Tail(dq)
  <2>1. /\ pc = "walk" /\ dq # <<>> /\ h \notin seen /\ seen' = seen \cup {h}
        /\ sel' = Append(sel, h) /\ dq' = kids \o rest
    BY <1>12 DEF TreeWalk
  <2>2. /\ h \in Process /\ h \in Item /\ h = dq[1] /\ Len(dq) >= 1 /\ 1 \in 1..Len(dq)
        /\ rest \in Seq(Process) /\ Len(rest) = Len(dq) - 1
        /\ \A q \in 1..(Len(dq) - 1) : rest[q] = dq[q + 1]
    <3>1. h \in Process /\ h \in Item /\ h = dq[1]
      BY <2>1, QueueHead
    <3>2. rest \in Seq(Process) /\ Len(rest) = Len(dq) - 1 /\ \A q \in 1..(Len(dq) - 1) : rest[q] = dq[q + 1]
      BY <1>6, <2>1, HeadTailProperties
    <3>3. Len(dq) >= 1
      BY <1>6, <2>1, EmptySeq
    <3>q. QED BY <1>6, <3>1, <3>2, <3>3
  <2>3. /\ kids \in Seq(Process) /\ c \in Nat
        /\ \A q \in 1..c : kids[q] \in Process /\ parent[kids[q]] = h
    <3>1. kids \in Seq(Process) /\ Elements(kids) = {x \in Process : parent[x] = h}
      BY ChildrenProperties
    <3>2. c \in Nat /\ DOMAIN kids = 1..c
      BY <3>1, LenProperties
    <3>3. \A q \in 1..c : kids[q] \in Elements(kids)
      BY <3>2 DEF Elements
    <3>q. QED BY <3>1, <3>2, <3>3
  <2>4. h \in Below[h] /\ \A q \in 1..c : kids[q] \in Under(h)
    <3>1. h \in Below[h] /\ Closed(Below[h])
      BY <1>5, <2>2, BelowProperties
    <3> HIDE DEF h, kids, c
    <3>q. QED BY <1>5, <2>3, <3>1 DEF Closed
  <2> HIDE DEF h, kids, c, rest
  <2>5. /\ Len(sel') = L + 1 /\ DOMAIN sel' = 1..(L + 1) /\ sel'[L + 1] = h
        /\ \A i \in 1..L : sel'[i] = sel[i]
    <3>1. /\ sel' \in Seq(Item) /\ Len(sel') = L + 1 /\ sel'[L + 1] = h
          /\ \A i \in 1..L : sel'[i] = sel[i]
      BY <1>6, <2>1, <2>2, AppendElements
    <3>q. QED BY <3>1, LenProperties
  <2> DEFINE D == c + (Len(dq) - 1)
  <2>6. /\ DOMAIN dq' = 1..D
        /\ \A q \in 1..D : dq'[q] = IF q <= c THEN kids[q] ELSE dq[q - c + 1]
        /\ \A q \in 1..D : q <= c \/ q - c + 1 \in 1..Len(dq)
        /\ \A q \in 1..D : \A r \in 1..q : r \in 1..D
        /\ \A q \in 1..D : q <= c => q \in 1..c
    <3>1. Len(rest) \in Nat /\ D \in Nat /\ c + Len(rest) = D
      BY <1>6, <2>2, <2>3
    <3>2. /\ kids \o rest \in Seq(Process) /\ Len(kids \o rest) = c + Len(rest)
          /\ \A q \in 1..(c + Len(rest)) : (kids \o rest)[q] = IF q <= c THEN kids[q] ELSE rest[q - c]
      <4>1. kids \in Seq(Process) /\ rest \in Seq(Process) /\ c = Len(kids)
        BY <2>2, <2>3 DEF c
      <4>q. QED BY <4>1, ConcatProperties
    <3>3. DOMAIN (kids \o rest) = 1..(c + Len(rest))
      BY <3>2, LenProperties
    <3>4. \A q \in 1..D : q <= c \/ (q - c \in 1..(Len(dq) - 1) /\ q - c + 1 \in 1..Len(dq))
      BY <1>6, <2>2, <2>3
    <3>5. \A q \in 1..D : dq'[q] = IF q <= c THEN kids[q] ELSE dq[q - c + 1]
      BY <2>1, <2>2, <3>1, <3>2, <3>4
    <3>6. (\A q \in 1..D : \A r \in 1..q : r \in 1..D) /\ (\A q \in 1..D : q <= c => q \in 1..c)
      BY <2>3, <3>1
    <3>7. DOMAIN dq' = 1..D
      BY <2>1, <3>1, <3>3
    <3>q. QED BY <3>4, <3>5, <3>6, <3>7
  <2> HIDE DEF D
  <2>7. \A i \in 1..(L + 1) : i \in 1..L \/ i = L + 1
    BY <1>6
  (* Queued behind the head are only children of what was seen before it.  *)
  <2>8. \A q \in 1..Len(dq) : q # 1 => parent[dq[q]] \in seen
    <3>1. CASE seen = {} /\ dq = <<culprit>>
      BY <3>1
    <3>2. CASE \A q \in 1..Len(dq) : parent[dq[q]] \in seen
      BY <3>2
    <3>q. QED BY <1>7, <2>1, <3>1, <3>2
  (* The head comes right after what was printed of its ancestors' trees.  *)
  <2>9. ASSUME NEW i \in 1..L, NEW q \in 1..Len(dq), parent[dq[q]] = sel[i]
        PROVE  \A m \in (i + 1)..(L + 1) : sel'[m] \in Under(sel[i])
    <3>1. /\ \A m \in (i + 1)..L : sel[m] \in Under(sel[i])
          /\ \A r \in 1..q : dq[r] \in Under(sel[i]) \cup seen
      BY <1>7, <2>9
    <3>2. 1 \in 1..q /\ \A m \in (i + 1)..(L + 1) : (m \in (i + 1)..L /\ m \in 1..L) \/ m = L + 1
      BY <1>6
    <3>3. h \in Under(sel[i])
      BY <2>1, <2>2, <3>1, <3>2
    <3> HIDE DEF L, Under
    <3>q. QED BY <2>5, <3>1, <3>2, <3>3
  <2>10. Printed(sel')
    <3> SUFFICES ASSUME NEW i \in 1..(L + 1), NEW j \in (i + 1)..(L + 1), parent[sel'[j]] = sel'[i],
                        NEW m \in (i + 1)..j
                 PROVE  sel'[m] \in Under(sel'[i])
      <4> HIDE DEF L, Under
      <4>q. QED BY <2>5
    <3>1. i \in 1..L /\ (j \in (i + 1)..L \/ j = L + 1) /\ m \in (i + 1)..(L + 1) /\ sel'[i] = sel[i]
      BY <1>6, <2>5
    <3>2. CASE j \in (i + 1)..L
      <4>1. j \in 1..L /\ m \in 1..L
        BY <1>6, <3>2
      <4>2. sel'[j] = sel[j] /\ sel'[m] = sel[m]
        BY <2>5, <4>1
      <4> HIDE DEF L, Under
      <4>q. QED BY <1>7, <3>1, <3>2, <4>2
    <3>3. CASE j = L + 1
      <4>1. parent[dq[1]] = sel[i]
        BY <2>2, <2>5, <3>1, <3>3
      <4> HIDE DEF L, Under
      <4>q. QED BY <2>2, <2>9, <3>1, <4>1
    <3>q. QED BY <3>1, <3>2, <3>3
  <2>11. ToCome(sel', dq', seen')
    <3> SUFFICES ASSUME NEW i \in 1..(L + 1), NEW q \in 1..D, parent[dq'[q]] = sel'[i]
                 PROVE  /\ \A m \in (i + 1)..(L + 1) : sel'[m] \in Under(sel'[i])
                        /\ \A r \in 1..q : dq'[r] \in Under(sel'[i]) \cup seen'
      <4> HIDE DEF L, Under
      <4>q. QED BY <2>5, <2>6
    <3>1. CASE q <= c
      <4>1. parent[dq'[q]] = h
        BY <2>3, <2>6, <3>1
      <4>2. i = L + 1
        BY <1>6, <2>1, <2>5, <2>7, <4>1
      <4>3. \A r \in 1..q : r \in 1..D /\ r <= c /\ r \in 1..c
        BY <2>3, <2>6, <3>1
      <4>4. \A r \in 1..q : dq'[r] \in Under(h)
        BY <2>4, <2>6, <4>3
      <4>5. \A m \in (i + 1)..(L + 1) : FALSE
        BY <1>6, <4>2
      <4>q. QED BY <2>5, <4>2, <4>4, <4>5
    <3>2. CASE ~(q <= c)
      <4> DEFINE q0 == q - c + 1
      <4>1. q0 \in 1..Len(dq) /\ q0 # 1 /\ dq'[q] = dq[q0]
        BY <2>3, <2>6, <3>2
      <4>2. i \in 1..L /\ sel'[i] = sel[i] /\ sel[i] \in seen /\ sel[i] \in Process
        BY <1>6, <2>1, <2>5, <2>7, <2>8, <4>1
      <4>3. parent[dq[q0]] = sel[i]
        BY <4>1, <4>2
      <4>4. \A r \in 1..q : r \in 1..D /\ (r \in 1..c \/ (~(r <= c) /\ r - c + 1 \in 1..q0))
        BY <2>3, <2>6, <3>2
      <4> HIDE DEF q0, L, Under
      <4>5. \A m \in (i + 1)..(L + 1) : sel'[m] \in Under(sel[i])
        BY <2>9, <4>1, <4>2, <4>3
      <4>6. \A r \in 1..q0 : dq[r] \in Under(sel[i]) \cup seen
        BY <1>7, <4>1, <4>2, <4>3
      <4>7. \A r \in 1..c : kids[r] \in Under(sel[i]) \cup seen
        <5>1. h \in Below[sel[i]]
          <6>1. 1 \in 1..q0
            BY <4>1
          <6>q. QED BY <2>1, <2>2, <4>6, <6>1 DEF Under
        <5>2. Closed(Below[sel[i]])
          BY <1>5, <4>2, BelowProperties
        <5>q. QED BY <2>3, <4>2, <5>1, <5>2 DEF Closed, Under
      <4>8. \A r \in 1..q : dq'[r] \in Under(sel[i]) \cup seen
        <5> SUFFICES ASSUME NEW r \in 1..q PROVE dq'[r] \in Under(sel[i]) \cup seen
          OBVIOUS
        <5>1. CASE r \in 1..c
          <6>1. r <= c
            BY <2>3, <5>1
          <6>q. QED BY <2>6, <4>4, <4>7, <5>1, <6>1
        <5>2. CASE ~(r <= c) /\ r - c + 1 \in 1..q0
          BY <2>6, <4>4, <4>6, <5>2
        <5>q. QED BY <4>4, <5>1, <5>2
      <4>q. QED BY <2>1, <4>2, <4>5, <4>8
    <3>q. QED BY <3>1, <3>2
  <2>12. Hung(dq', seen')
    <3> SUFFICES ASSUME NEW q \in 1..D PROVE parent[dq'[q]] \in seen'
      BY <2>6
    <3>1. CASE q <= c
      BY <2>1, <2>3, <2>6, <3>1
    <3>2. CASE ~(q <= c)
      <4>1. q - c + 1 \in 1..Len(dq) /\ q - c + 1 # 1 /\ dq'[q] = dq[q - c + 1]
        BY <2>3, <2>6, <3>2
      <4>q. QED BY <2>1, <2>8, <4>1
    <3>q. QED BY <3>1, <3>2
  <2>q. QED BY <2>10, <2>11, <2>12
<1>q. QED BY <1>3, <1>9, <1>10, <1>11, <1>12

-----------------------------------------------------------------------------
(* The theorems. *)

LEMMA Initially == Init => IInv
<1> SUFFICES ASSUME Init PROVE IInv
  OBVIOUS
<1>1. /\ parent \in [Process -> 0..N] /\ \A p \in Process : parent[p] # p
      /\ files = {} /\ culprit = 0 /\ cap = 0 /\ mode = "none"
      /\ sel = <<>> /\ truncated = FALSE /\ dq = <<>> /\ seen = {}
      /\ weak = {} /\ edges = {} /\ pc = "idle"
  BY DEF Init
<1>2. /\ <<>> \in Seq(Item) /\ <<>> \in Seq(Process) /\ Len(<<>>) = 0 /\ DOMAIN <<>> = {}
      /\ Elements(<<>>) = {} /\ Cardinality({}) = 0 /\ Distinct(<<>>)
  BY EmptySeq, FS_EmptySet DEF Elements, Distinct
<1>3. TypeInv
  <2>1. sel \in Seq(Item) /\ dq \in Seq(Process) /\ Distinct(sel)
    BY <1>1, <1>2
  <2>2. Cardinality(Elements(sel)) = Len(sel) /\ Len(sel) <= cap
    <3>1. Elements(sel) = {} /\ Len(sel) = 0 /\ cap = 0
      BY <1>1, <1>2
    <3>2. Cardinality(Elements(sel)) = 0
      BY <1>2, <3>1
    <3>q. QED BY <3>1, <3>2
  <2>q. QED BY <1>1, <2>1, <2>2 DEF TypeInv, TypeOK, Relation
<1>4. AskInv
  BY <1>1 DEF AskInv
<1>5. HangInv /\ EdgeInv /\ WalkInv /\ CoreInv /\ TreeInv /\ AllInv /\ NestInv
  BY <1>1 DEF HangInv, Family, EdgeInv, WalkInv, CoreInv, TreeInv, AllInv, NestInv
<1>q. QED BY <1>3, <1>4, <1>5 DEF IInv

LEMMA NextKeeps ==
  ASSUME IInv, Next
  PROVE  IInv'
<1>1. TypeInv /\ AskInv /\ HangInv /\ EdgeInv /\ WalkInv /\ CoreInv /\ TreeInv /\ AllInv /\ NestInv
  BY DEF IInv
<1>2. TypeInv' /\ AskInv'
  BY <1>1, TypeStep, AskStep
<1>3. HangInv' /\ EdgeInv'
  BY <1>1, <1>2, HangStep, EdgeStep
<1>4. WalkInv' /\ CoreInv'
  BY <1>1, WalkStep, CoreStep
<1>5. TreeInv' /\ AllInv' /\ NestInv'
  BY <1>1, TreeStep, AllStep, NestStep
<1>q. QED BY <1>2, <1>3, <1>4, <1>5 DEF IInv

LEMMA StutterKeeps ==
  ASSUME IInv, UNCHANGED vars
  PROVE  IInv'
<1>1. /\ UNCHANGED input /\ sel' = sel /\ truncated' = truncated /\ dq' = dq /\ seen' = seen
      /\ weak' = weak /\ edges' = edges /\ pc' = pc
      /\ parent' = parent /\ files' = files /\ culprit' = culprit /\ cap' = cap /\ mode' = mode
  BY DEF vars, input
<1>2. Path' = Path /\ Below' = Below /\ (HasCycle' <=> HasCycle) /\ CoreWhole' = CoreWhole
  BY <1>1, Unmoved
<1>3. TypeInv' /\ AskInv'
  BY <1>1 DEF IInv, TypeInv, TypeOK, Relation, AskInv
<1>4. HangInv'
  BY <1>1, <1>2 DEF IInv, HangInv, Hangs, Family
<1>5. EdgeInv'
  BY <1>1 DEF IInv, EdgeInv, SpawnEdges, Family
<1>6. WalkInv'
  BY <1>1, <1>2 DEF IInv, WalkInv
<1>7. CoreInv'
  BY <1>1, <1>2 DEF IInv, CoreInv
<1>8. TreeInv' /\ AllInv'
  BY <1>1, <1>2 DEF IInv, TreeInv, AllInv
<1>9. NestInv'
  BY <1>1, <1>2 DEF IInv, NestInv
<1>q. QED BY <1>3, <1>4, <1>5, <1>6, <1>7, <1>8, <1>9 DEF IInv

(* The invariant all views keep, while they are cut out of the graph:       *)
(* graph_payload, _family_payload, _all_payload and traverse.subtree.       *)
THEOREM Invariance == Spec => []IInv
<1>1. Init => IInv
  BY Initially
<1>2. IInv /\ [Next]_vars => IInv'
  BY NextKeeps, StutterKeeps
<1>q. QED BY <1>1, <1>2, PTL DEF Spec

(* No view is longer than max_nodes or shows a node twice, and all          *)
(* variables have their types.                                              *)
THEOREM TypeCorrect == Spec => []TypeOK
<1>1. IInv => TypeOK
  BY DEF IInv, TypeInv
<1>q. QED BY <1>1, Invariance, PTL

(* The picture that graph_payload or _family_payload gives of a process     *)
(* hangs together, whatever its caps cut off and however the processes      *)
(* spawned each other.                                                      *)
THEOREM HangsTogetherHolds == Spec => []HangsTogether
<1>1. IInv => HangsTogether
  BY HangsTogetherFollows
<1>q. QED BY <1>1, Invariance, PTL

LEMMA ExactOrTruncatedFollows ==
  ASSUME IInv
  PROVE  ExactOrTruncated
<1> SUFFICES ASSUME mode \in {"core", "all", "tree"}, pc = "done"
             PROVE  /\ culprit \in Elements(sel) \cup {0}
                    /\ Elements(sel) # Whole => truncated /\ mode # "tree"
                    /\ truncated => Elements(sel) # Whole \/ HasCycle
  BY DEF ExactOrTruncated
<1>1. TypeInv /\ AskInv /\ HangInv /\ CoreInv /\ TreeInv /\ AllInv
  BY DEF IInv
<1>2. CASE mode = "core"
  <2>1. culprit \in Process
    BY <1>1, <1>2, AskedFor DEF OfOne
  <2>2. Whole = CoreWhole
    <3>1. Descendants(culprit) = Below[culprit] \ {culprit}
      BY <2>1 DEF Descendants, Below
    <3>2. Whole = Descendants(culprit) \cup (Elements(Path) \cup files)
      <4> DEFINE X == Elements(Path) \cup files
                 Y == X \cup IF Len(Path) >= 2 THEN Elements(Children(Path[Len(Path) - 1])) ELSE {}
      <4>1. Whole = Descendants(culprit) \cup
                      CASE mode = "tree" -> {culprit} [] mode = "core" -> X [] Family -> Y
        BY <1>2 DEF Whole, Path
      <4> HIDE DEF X, Y
      <4>2. (CASE mode = "tree" -> {culprit} [] mode = "core" -> X [] Family -> Y) = X
        BY <1>2 DEF Family
      <4>q. QED BY <4>1, <4>2 DEF X
    <3>q. QED BY <3>1, <3>2 DEF CoreWhole, Path
  <2>3. culprit \in Elements(sel)
    BY <1>1, <1>2 DEF HangInv
  <2>4. /\ ~truncated => Elements(sel) = CoreWhole
        /\ truncated => Elements(sel) # CoreWhole \/ HasCycle
    BY <1>1, <1>2 DEF CoreInv
  <2>q. QED BY <1>2, <2>2, <2>3, <2>4
<1>3. CASE mode = "all"
  <2>1. Whole = Process /\ culprit = 0
    BY <1>1, <1>3 DEF Whole, AskInv
  <2>q. QED BY <1>1, <1>3, <2>1 DEF AllInv
<1>4. CASE mode = "tree"
  <2>1. culprit \in Process /\ Relation
    BY <1>1, <1>4, AskedFor DEF OfOne, TypeInv
  <2>2. culprit \in Below[culprit]
    BY <2>1, BelowProperties
  <2>3. Whole = Below[culprit]
    <3>1. Descendants(culprit) = Below[culprit] \ {culprit}
      BY <2>1 DEF Descendants, Below
    <3>2. Whole = Descendants(culprit) \cup {culprit}
      <4> DEFINE X == Elements(Path) \cup files
                 Y == X \cup IF Len(Path) >= 2 THEN Elements(Children(Path[Len(Path) - 1])) ELSE {}
      <4>1. Whole = Descendants(culprit) \cup
                      CASE mode = "tree" -> {culprit} [] mode = "core" -> X [] Family -> Y
        BY <1>4 DEF Whole, Path
      <4> HIDE DEF X, Y
      <4>2. (CASE mode = "tree" -> {culprit} [] mode = "core" -> X [] Family -> Y) = {culprit}
        BY <1>4 DEF Family
      <4>q. QED BY <4>1, <4>2
    <3>q. QED BY <2>2, <3>1, <3>2
  <2>4. ~truncated /\ Elements(sel) = Below[culprit]
    BY <1>1, <1>4 DEF TreeInv
  <2>q. QED BY <2>2, <2>3, <2>4
<1>q. QED BY <1>2, <1>3, <1>4

(* The core view and the view of all processes say "truncated" exactly if   *)
(* something is missing (a cycle of pids may make the core view say so      *)
(* without need), the tree is never cut, and whoever is asked about is      *)
(* shown: what graph_payload, _all_payload and traverse.subtree promise.    *)
THEOREM ExactOrTruncatedHolds == Spec => []ExactOrTruncated
<1>1. IInv => ExactOrTruncated
  BY ExactOrTruncatedFollows
<1>q. QED BY <1>1, Invariance, PTL

LEMMA TreeIsNestedFollows ==
  ASSUME IInv
  PROVE  TreeIsNested
<1> SUFFICES ASSUME mode = "tree", NEW i \in DOMAIN sel, NEW j \in (i + 1)..Len(sel),
                    parent[sel[j]] = sel[i], NEW m \in (i + 1)..j
             PROVE  sel[m] \in Descendants(sel[i])
  BY DEF TreeIsNested
<1>1. sel[m] \in Below[sel[i]] \ {sel[i]}
  BY DEF IInv, NestInv
<1>2. sel[i] \in Process
  BY DEF IInv, TreeInv, TypeInv, TypeOK, Elements
<1>q. QED BY <1>1, <1>2 DEF Descendants, Below

(* cg tree prints a depth-first walk (traverse.subtree): between a process  *)
(* and each child of it there is nothing but what the process brought about.*)
THEOREM TreeIsNestedHolds == Spec => []TreeIsNested
<1>1. IInv => TreeIsNested
  BY TreeIsNestedFollows
<1>q. QED BY <1>1, Invariance, PTL
=============================================================================
