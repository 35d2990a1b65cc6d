------------------------------- MODULE ListProofs -------------------------------
(***************************************************************************)
(* What a recursion along a list yields.  The library's rule of induction   *)
(* takes an operator, which cannot be instantiated here: these take a set.  *)
(***************************************************************************)
EXTENDS Lists, Integers, FiniteSetTheorems, SequenceTheorems, WellFoundedInduction, TLAPS

(* Induction, with a set for the formula that is proved by it.              *)
LEMMA InductionOverNat ==
  ASSUME NEW T, 0 \in T, \A n \in Nat : n \in T => n + 1 \in T
  PROVE  Nat \subseteq T
<1> SUFFICES ASSUME ~(Nat \subseteq T) PROVE FALSE
  OBVIOUS
<1> DEFINE R == {p \in Nat \X Nat : p[1] < p[2]}
<1>0. IsWellFoundedOn(R, Nat)
  BY NatLessThanWellFounded DEF OpToRel
<1>1. Nat \ T \subseteq Nat /\ Nat \ T # {}
  OBVIOUS
<1>2. PICK x \in Nat \ T : \A y \in Nat \ T : ~(<<y, x>> \in R)
  <2> HIDE DEF R
  <2>q. QED BY <1>0, <1>1, WFMin
<1>3. x \in Nat /\ x # 0 /\ x - 1 \in Nat /\ (x - 1) + 1 = x
  OBVIOUS
<1>4. x - 1 \in T
  <2>1. <<x - 1, x>> \in R
    BY <1>3
  <2>q. QED BY <2>1, <1>2, <1>3
<1>q. QED BY <1>3, <1>4

(* f is a recursion over 0..n from s0 by the given steps.                   *)
Solves(f, S, n, s0, Move) ==
  f \in [0..n -> S] /\ f[0] = s0 /\ \A i \in 1..n : f[i] = Move[i][f[i - 1]]

(* It exists whenever the steps are a function.                            *)
LEMMA RecursionExists ==
  ASSUME NEW S, NEW n \in Nat, NEW s0 \in S, NEW Move \in [1..n -> [S -> S]]
  PROVE  \E f : Solves(f, S, n, s0, Move)
<1> DEFINE Sol(m) == {f \in [0..n -> S] : f[0] = s0 /\ \A i \in 1..n : i <= m => f[i] = Move[i][f[i - 1]]}
<1> DEFINE T == {m \in Nat : Sol(m) # {}}
<1>1. 0 \in T
  <2>1. [i \in 0..n |-> s0] \in Sol(0)
    OBVIOUS
  <2>q. QED BY <2>1
<1>2. ASSUME NEW m \in Nat, m \in T PROVE m + 1 \in T
  <2>1. PICK f \in [0..n -> S] : f[0] = s0 /\ \A i \in 1..n : i <= m => f[i] = Move[i][f[i - 1]]
    BY <1>2
  <2>2. CASE m + 1 \in 1..n
    <3> DEFINE g == [f EXCEPT ![m + 1] = Move[m + 1][f[m]]]
    <3>0. m \in 0..n /\ f[m] \in S
      BY <2>1, <2>2
    <3>1. g \in [0..n -> S] /\ g[0] = s0
      BY <2>1, <2>2, <3>0
    <3>2. ASSUME NEW i \in 1..n, i <= m + 1 PROVE g[i] = Move[i][g[i - 1]]
      <4>1. i \in 0..n /\ i - 1 \in 0..n /\ i - 1 # m + 1
        BY <3>2
      <4>2. g[i - 1] = f[i - 1]
        BY <4>1, <3>0
      <4>3. CASE i = m + 1
        BY <4>1, <4>2, <4>3, <3>0, <2>2
      <4>4. CASE i # m + 1
        <5>1. i <= m
          BY <4>4, <3>2
        <5>q. QED BY <5>1, <4>1, <4>2, <4>4, <2>1
      <4>q. QED BY <4>3, <4>4
    <3>3. g \in Sol(m + 1)
      <4> HIDE DEF g
      <4>q. QED BY <3>1, <3>2
    <3> HIDE DEF g, Sol
    <3>q. QED BY <3>3
  <2>3. CASE m + 1 \notin 1..n
    <3>1. f \in Sol(m + 1)
      BY <2>1, <2>3
    <3>q. QED BY <3>1
  <2>q. QED BY <2>2, <2>3
<1>3. n \in T
  <2> HIDE DEF T
  <2>q. QED BY <1>1, <1>2, InductionOverNat
<1>q. QED BY <1>3 DEF Solves

-----------------------------------------------------------------------------

(* The function that Keep computes.                                         *)
Keeps(f, S, s, I) ==
  /\ f \in [0..Len(s) -> Seq(S)]
  /\ f[0] = <<>>
  /\ \A i \in 1..Len(s) : f[i] = IF i \in I THEN Append(f[i - 1], s[i]) ELSE f[i - 1]

LEMMA KeepRecursion ==
  ASSUME NEW S, NEW s \in Seq(S), NEW I
  PROVE  \E f : Keeps(f, S, s, I) /\ Keep(s, I) = f[Len(s)]
<1> DEFINE n == Len(s)
           Q == Seq(S)
           Def(f) == [i \in 0..n |-> IF i = 0 THEN <<>>
                        ELSE IF i \in I THEN Append(f[i - 1], s[i]) ELSE f[i - 1]]
           Move == [i \in 1..n |-> [p \in Q |-> IF i \in I THEN Append(p, s[i]) ELSE p]]
           kept == CHOOSE f : f = Def(f)
<1>0. n \in Nat /\ <<>> \in Q
  OBVIOUS
<1>1. Keep(s, I) = kept[n]
  BY DEF Keep
<1>2. ASSUME NEW i \in 1..n, NEW p \in Q PROVE Append(p, s[i]) \in Q
  <2>1. s[i] \in S
    BY ElementOfSeq
  <2>q. QED BY <2>1, AppendProperties
<1>3. Move \in [1..n -> [Q -> Q]]
  <2> HIDE DEF Q, n
  <2>q. QED BY <1>2
<1>4. PICK f : Solves(f, Q, n, <<>>, Move)
  <2> DEFINE e0 == <<>>
  <2>1. e0 \in Q
    BY <1>0
  <2>2. \E f : Solves(f, Q, n, e0, Move)
    <3> HIDE DEF Q, n, Move, e0
    <3>q. QED BY <1>0, <1>3, <2>1, RecursionExists
  <2>q. QED BY <2>2
<1>5. f = Def(f)
  <2>1. f = [i \in 0..n |-> f[i]] /\ f[0] = <<>>
    BY <1>4 DEF Solves
  <2>2. ASSUME NEW i \in 1..n PROVE f[i] = IF i \in I THEN Append(f[i - 1], s[i]) ELSE f[i - 1]
    <3>1. f[i - 1] \in Q /\ f[i] = Move[i][f[i - 1]]
      <4> HIDE DEF Q, Move
      <4>q. QED BY <1>0, <1>4 DEF Solves
    <3> HIDE DEF Q
    <3>q. QED BY <3>1
  <2>3. ASSUME NEW i \in 0..n
        PROVE  f[i] = IF i = 0 THEN <<>>
                      ELSE IF i \in I THEN Append(f[i - 1], s[i]) ELSE f[i - 1]
    <3>1. i = 0 \/ i \in 1..n
      BY <1>0
    <3> HIDE DEF Q
    <3>q. QED BY <3>1, <2>1, <2>2
  <2>q. QED BY <2>1, <2>3, Zenon
<1>6. kept = Def(kept)
  <2> HIDE DEF Def
  <2>q. QED BY <1>5
<1>7. /\ kept = [i \in 0..n |-> kept[i]] /\ kept[0] = <<>>
      /\ \A i \in 1..n : kept[i] = IF i \in I THEN Append(kept[i - 1], s[i]) ELSE kept[i - 1]
  <2> HIDE DEF kept
  <2>1. /\ kept = [i \in 0..n |-> kept[i]]
        /\ \A i \in 0..n : kept[i] = IF i = 0 THEN <<>>
               ELSE IF i \in I THEN Append(kept[i - 1], s[i]) ELSE kept[i - 1]
    BY <1>6, Zenon
  <2>2. 0 \in 0..n /\ \A i \in 1..n : i \in 0..n /\ i # 0
    BY <1>0
  <2>q. QED BY <2>1, <2>2, Zenon
<1>8. \A i \in 0..n : kept[i] \in Q
  <2> DEFINE T == {i \in Nat : i <= n => kept[i] \in Q}
  <2> HIDE DEF kept
  <2>1. 0 \in T
    BY <1>7, <1>0
  <2>2. ASSUME NEW i \in Nat, i \in T PROVE i + 1 \in T
    <3> SUFFICES ASSUME i + 1 <= n PROVE kept[i + 1] \in Q
      OBVIOUS
    <3>1. kept[i] \in Q /\ i + 1 \in 1..n /\ (i + 1) - 1 = i
      BY <2>2, <1>0
    <3>2. kept[i + 1] = IF i + 1 \in I THEN Append(kept[i], s[i + 1]) ELSE kept[i]
      BY <1>7, <3>1
    <3> HIDE DEF Q, n
    <3>q. QED BY <1>2, <3>1, <3>2
  <2>3. Nat \subseteq T
    <3> HIDE DEF T
    <3>q. QED BY <2>1, <2>2, InductionOverNat
  <2>q. QED BY <2>3, <1>0
<1>9. kept \in [0..n -> Q]
  <2> HIDE DEF kept, Q
  <2>q. QED BY <1>7, <1>8
<1>q. QED
  <2> HIDE DEF kept
  <2>1. Keeps(kept, S, s, I)
    BY <1>7, <1>9 DEF Keeps
  <2>q. QED BY <1>1, <2>1

(* f gives the place that each element of k has among the first n of s.     *)
Places(f, k, s, I, n) ==
  /\ f \in [1..Len(k) -> I \cap (1..n)]
  /\ \A i \in 1..Len(k) : k[i] = s[f[i]]
  /\ \A i, j \in 1..Len(k) : i < j => f[i] < f[j]
  /\ \A m \in I \cap (1..n) : \E i \in 1..Len(k) : f[i] = m

(* Keep returns what stands at the places asked for, all of it, and in order. *)
LEMMA KeepProperties ==
  ASSUME NEW S, NEW s \in Seq(S), NEW I
  PROVE  /\ Keep(s, I) \in Seq(S)
         /\ \E f : Places(f, Keep(s, I), s, I, Len(s))
         /\ IsFiniteSet(I \cap (1..Len(s)))
         /\ Len(Keep(s, I)) = Cardinality(I \cap (1..Len(s)))
<1>a. PICK kept : Keeps(kept, S, s, I) /\ Keep(s, I) = kept[Len(s)]
  BY KeepRecursion
<1>1. /\ kept \in [0..Len(s) -> Seq(S)] /\ kept[0] = <<>>
      /\ \A i \in 1..Len(s) : kept[i] = IF i \in I THEN Append(kept[i - 1], s[i]) ELSE kept[i - 1]
      /\ Keep(s, I) = kept[Len(s)]
  BY <1>a DEF Keeps
<1> DEFINE n == Len(s)
           Kept(i) == /\ \E f : Places(f, kept[i], s, I, i)
                      /\ IsFiniteSet(I \cap (1..i))
                      /\ Len(kept[i]) = Cardinality(I \cap (1..i))
           T == {i \in Nat : i <= n => Kept(i)}
<1>0. n \in Nat
  OBVIOUS
<1>2. 0 \in T
  <2>1. 1..0 = {} /\ I \cap (1..0) = {} /\ Len(kept[0]) = 0
    BY <1>1
  <2>2. Places([i \in 1..0 |-> 0], kept[0], s, I, 0)
    BY <2>1 DEF Places
  <2>3. IsFiniteSet(I \cap (1..0)) /\ Len(kept[0]) = Cardinality(I \cap (1..0))
    BY <2>1, FS_EmptySet
  <2>q. QED BY <2>2, <2>3
<1>3. ASSUME NEW i \in Nat, i \in T PROVE i + 1 \in T
  <2> SUFFICES ASSUME i + 1 <= n PROVE Kept(i + 1)
    OBVIOUS
  <2>0. Kept(i) /\ i \in 0..n /\ i + 1 \in 1..n /\ (i + 1) - 1 = i
    BY <1>0, <1>3
  <2>1. PICK f : Places(f, kept[i], s, I, i)
    BY <2>0
  <2>2. kept[i] \in Seq(S) /\ Len(kept[i]) \in Nat /\ s[i + 1] \in S
    <3>1. s[i + 1] \in S
      BY <2>0, ElementOfSeq
    <3>2. kept[i] \in Seq(S)
      BY <2>0, <1>1
    <3>q. QED BY <3>1, <3>2, LenProperties
  <2>3. 1..(i + 1) = (1..i) \cup {i + 1}
    OBVIOUS
  <2>4. CASE i + 1 \in I
    <3>1. kept[i + 1] = Append(kept[i], s[i + 1])
      BY <2>0, <2>4, <1>1
    <3> DEFINE m == Len(kept[i])
               k == kept[i + 1]
               g == [j \in 1..(m + 1) |-> IF j = m + 1 THEN i + 1 ELSE f[j]]
    <3>2. m \in Nat /\ Len(k) = m + 1 /\ k[m + 1] = s[i + 1] /\ \A j \in 1..m : k[j] = kept[i][j]
      BY <2>2, <3>1, AppendProperties
    <3>3. I \cap (1..(i + 1)) = (I \cap (1..i)) \cup {i + 1} /\ i + 1 \notin I \cap (1..i)
      BY <2>3, <2>4
    <3>4. \A j \in 1..(m + 1) : j = m + 1 \/ j \in 1..m
      BY <3>2
    <3>5. /\ \A j \in 1..m : f[j] \in I \cap (1..i) /\ kept[i][j] = s[f[j]]
          /\ \A j, l \in 1..m : j < l => f[j] < f[l]
          /\ \A p \in I \cap (1..i) : \E j \in 1..m : f[j] = p
      BY <2>1 DEF Places
    <3>6. /\ \A j \in 1..m : j \in 1..(m + 1) /\ g[j] = f[j]
          /\ m + 1 \in 1..(m + 1) /\ g[m + 1] = i + 1
      BY <3>2
    <3>7. g \in [1..(m + 1) -> I \cap (1..(i + 1))]
      <4>1. \A j \in 1..(m + 1) : (IF j = m + 1 THEN i + 1 ELSE f[j]) \in I \cap (1..(i + 1))
        <5> HIDE DEF m
        <5>q. QED BY <3>3, <3>4, <3>5
      <4>q. QED BY <4>1
    <3> HIDE DEF g
    <3>8. \A j \in 1..(m + 1) : k[j] = s[g[j]]
      <4> HIDE DEF m, k
      <4>q. QED BY <3>2, <3>4, <3>5, <3>6
    <3>9. \A j, l \in 1..(m + 1) : j < l => g[j] < g[l]
      <4> HIDE DEF m, k
      <4> SUFFICES ASSUME NEW j \in 1..(m + 1), NEW l \in 1..(m + 1), j < l PROVE g[j] < g[l]
        OBVIOUS
      <4>1. j \in 1..m
        BY <3>2
      <4>2. CASE l = m + 1
        BY <3>5, <3>6, <4>1, <4>2
      <4>3. CASE l \in 1..m
        BY <3>5, <3>6, <4>1, <4>3
      <4>q. QED BY <3>4, <4>2, <4>3
    <3>10. \A p \in I \cap (1..(i + 1)) : \E j \in 1..(m + 1) : g[j] = p
      <4> HIDE DEF m, k
      <4>q. QED BY <3>3, <3>5, <3>6
    <3>11. Places(g, k, s, I, i + 1)
      <4> HIDE DEF k
      <4>q. QED BY <3>2, <3>7, <3>8, <3>9, <3>10 DEF Places
    <3>12. /\ IsFiniteSet(I \cap (1..(i + 1)))
           /\ Cardinality(I \cap (1..(i + 1))) = Cardinality(I \cap (1..i)) + 1
      <4> DEFINE A == I \cap (1..i)
      <4>1. IsFiniteSet(A) /\ i + 1 \notin A
        BY <2>0, <3>3
      <4>2. IsFiniteSet(A \cup {i + 1}) /\ Cardinality(A \cup {i + 1}) = Cardinality(A) + 1
        <5> HIDE DEF A
        <5>q. QED BY <4>1, FS_AddElement
      <4>q. QED BY <4>2, <3>3
    <3>13. Len(kept[i + 1]) = Cardinality(I \cap (1..(i + 1)))
      BY <2>0, <3>2, <3>12
    <3>q. QED BY <3>11, <3>12, <3>13
  <2>5. CASE i + 1 \notin I
    <3>1. kept[i + 1] = kept[i] /\ I \cap (1..(i + 1)) = I \cap (1..i)
      BY <2>0, <2>3, <2>5, <1>1
    <3>2. Places(f, kept[i + 1], s, I, i + 1)
      BY <2>1, <3>1 DEF Places
    <3>q. QED BY <2>0, <3>1, <3>2
  <2>q. QED BY <2>4, <2>5
<1>4. n \in T
  <2> HIDE DEF T
  <2>q. QED BY <1>0, <1>2, <1>3, InductionOverNat
<1>q. QED BY <1>0, <1>1, <1>4

(* The same, of the elements only.                                          *)
LEMMA KeepElements ==
  ASSUME NEW S, NEW s \in Seq(S), NEW I
  PROVE  /\ Keep(s, I) \in Seq(S)
         /\ Elements(Keep(s, I)) = {s[i] : i \in I \cap (1..Len(s))}
<1>1. Keep(s, I) \in Seq(S)
  BY KeepProperties
<1>2. PICK f : Places(f, Keep(s, I), s, I, Len(s))
  BY KeepProperties
<1>3. DOMAIN Keep(s, I) = 1..Len(Keep(s, I))
  BY <1>1
<1>4. /\ \A i \in 1..Len(Keep(s, I)) : f[i] \in I \cap (1..Len(s)) /\ Keep(s, I)[i] = s[f[i]]
      /\ \A m \in I \cap (1..Len(s)) : \E i \in 1..Len(Keep(s, I)) : f[i] = m
  BY <1>2 DEF Places
<1>5. Elements(Keep(s, I)) = {Keep(s, I)[i] : i \in 1..Len(Keep(s, I))}
  BY <1>3 DEF Elements
<1>6. {Keep(s, I)[i] : i \in 1..Len(Keep(s, I))} = {s[i] : i \in I \cap (1..Len(s))}
  <2> DEFINE D == 1..Len(Keep(s, I))
             k == Keep(s, I)
             J == I \cap (1..Len(s))
  <2>1. (\A i \in D : f[i] \in J /\ k[i] = s[f[i]]) /\ \A m \in J : \E i \in D : f[i] = m
    BY <1>4
  <2>2. {k[i] : i \in D} = {s[i] : i \in J}
    <3> HIDE DEF D, k, J
    <3>1. ASSUME NEW i \in D PROVE k[i] \in {s[j] : j \in J}
      BY <2>1
    <3>2. ASSUME NEW j \in J PROVE s[j] \in {k[i] : i \in D}
      BY <2>1
    <3>q. QED BY <3>1, <3>2
  <2>q. QED BY <2>2
<1>q. QED BY <1>1, <1>5, <1>6

-----------------------------------------------------------------------------
(* Lists without duplicates. *)

Distinct(s) == \A i, j \in DOMAIN s : s[i] = s[j] => i = j

(* Such a list has as many elements as places.                              *)
LEMMA DistinctCount ==
  ASSUME NEW S, NEW s \in Seq(S), Distinct(s)
  PROVE  IsFiniteSet(Elements(s)) /\ Cardinality(Elements(s)) = Len(s)
<1> DEFINE D == 1..Len(s)
           E == Elements(s)
<1>1. IsFiniteSet(D) /\ Cardinality(D) = Len(s) /\ Len(s) \in Nat
  <2> DEFINE n == Len(s)
  <2>1. n \in Int /\ 1 \in Int /\ n \in Nat
    OBVIOUS
  <2>2. IsFiniteSet(1..n) /\ Cardinality(1..n) = IF 1 > n THEN 0 ELSE n - 1 + 1
    <3> HIDE DEF n
    <3>q. QED BY <2>1, FS_Interval
  <2>3. (IF 1 > n THEN 0 ELSE n - 1 + 1) = n
    <3> HIDE DEF n
    <3>q. QED BY <2>1
  <2>q. QED BY <2>1, <2>2, <2>3
<1>2. s \in Bijection(D, E)
  BY DEF Distinct, Elements, Bijection, Injection, Surjection, IsInjective
<1>3. ExistsBijection(D, E)
  BY <1>2 DEF ExistsBijection
<1> HIDE DEF D, E
<1>4. IsFiniteSet(E) /\ Cardinality(E) = Cardinality(D)
  BY <1>1, <1>3, FS_Bijection
<1>q. QED BY <1>1, <1>4 DEF E

(* A list is one over every set that its elements are of.                   *)
LEMMA SeqOfElements ==
  ASSUME NEW A, NEW B, NEW s \in Seq(A), Elements(s) \subseteq B
  PROVE  s \in Seq(B)
<1>1. Len(s) \in Nat /\ DOMAIN s = 1..Len(s) /\ s = [i \in 1..Len(s) |-> s[i]]
  BY LenProperties
<1>2. \A i \in 1..Len(s) : s[i] \in B
  BY <1>1 DEF Elements
<1>q. QED BY <1>1, <1>2

LEMMA AppendElements ==
  ASSUME NEW A, NEW s \in Seq(A), NEW x \in A
  PROVE  /\ Append(s, x) \in Seq(A) /\ Len(Append(s, x)) = Len(s) + 1
         /\ \A i \in 1..Len(s) : Append(s, x)[i] = s[i]
         /\ Append(s, x)[Len(s) + 1] = x
         /\ Elements(Append(s, x)) = Elements(s) \cup {x}
         /\ Distinct(s) /\ x \notin Elements(s) => Distinct(Append(s, x))
<1> DEFINE t == Append(s, x)
           n == Len(s)
<1>1. /\ n \in Nat /\ t \in Seq(A) /\ Len(t) = n + 1 /\ t[n + 1] = x
      /\ \A i \in 1..n : t[i] = s[i]
      /\ DOMAIN t = 1..(n + 1) /\ DOMAIN s = 1..n
      /\ \A i \in 1..(n + 1) : i \in 1..n \/ i = n + 1
      /\ \A i \in 1..n : i \in 1..(n + 1)
      /\ n + 1 \in 1..(n + 1) /\ n + 1 \notin 1..n
  BY AppendProperties, LenProperties
<1> HIDE DEF t, n
<1>2. Elements(t) \subseteq Elements(s) \cup {x}
  BY <1>1 DEF Elements
<1>3. Elements(s) \subseteq Elements(t) /\ x \in Elements(t)
  BY <1>1 DEF Elements
<1>4. Distinct(s) /\ x \notin Elements(s) => Distinct(t)
  BY <1>1 DEF Elements, Distinct
<1>5. Elements(t) = Elements(s) \cup {x}
  BY <1>2, <1>3
<1>q. QED BY <1>1, <1>4, <1>5 DEF t, n

LEMMA ConcatElements ==
  ASSUME NEW S, NEW s \in Seq(S), NEW t \in Seq(S)
  PROVE  Elements(s \o t) = Elements(s) \cup Elements(t)
<1>1. /\ s \o t \in Seq(S) /\ Len(s \o t) = Len(s) + Len(t) /\ Len(s) \in Nat /\ Len(t) \in Nat
      /\ DOMAIN (s \o t) = 1..(Len(s) + Len(t)) /\ DOMAIN s = 1..Len(s) /\ DOMAIN t = 1..Len(t)
      /\ \A i \in 1..(Len(s) + Len(t)) : (s \o t)[i] = IF i <= Len(s) THEN s[i] ELSE t[i - Len(s)]
  BY ConcatProperties, LenProperties
<1>2. ASSUME NEW i \in DOMAIN (s \o t) PROVE (s \o t)[i] \in Elements(s) \cup Elements(t)
  <2>1. CASE i <= Len(s)
    BY <1>1, <2>1 DEF Elements
  <2>2. CASE ~(i <= Len(s))
    <3>1. i - Len(s) \in DOMAIN t
      BY <1>1, <2>2
    <3>q. QED BY <1>1, <2>2, <3>1 DEF Elements
  <2>q. QED BY <2>1, <2>2
<1>3. ASSUME NEW i \in DOMAIN s PROVE s[i] \in Elements(s \o t)
  <2>1. i \in DOMAIN (s \o t) /\ (s \o t)[i] = s[i]
    BY <1>1
  <2>q. QED BY <2>1 DEF Elements
<1>4. ASSUME NEW i \in DOMAIN t PROVE t[i] \in Elements(s \o t)
  <2>1. Len(s) + i \in DOMAIN (s \o t) /\ (s \o t)[Len(s) + i] = t[i]
    BY <1>1
  <2>q. QED BY <2>1 DEF Elements
<1>5. Elements(s \o t) \subseteq Elements(s) \cup Elements(t)
  BY <1>2 DEF Elements
<1>6. Elements(s) \subseteq Elements(s \o t) /\ Elements(t) \subseteq Elements(s \o t)
  BY <1>3, <1>4 DEF Elements
<1>q. QED BY <1>5, <1>6

LEMMA ConcatDistinct ==
  ASSUME NEW S, NEW s \in Seq(S), NEW t \in Seq(S), Distinct(s), Distinct(t),
         Elements(s) \cap Elements(t) = {}
  PROVE  Distinct(s \o t)
<1> DEFINE n == Len(s)
           l == Len(t)
           u == s \o t
<1>1. /\ DOMAIN u = 1..(n + l) /\ n \in Nat /\ l \in Nat
      /\ DOMAIN s = 1..n /\ DOMAIN t = 1..l
      /\ \A i \in 1..(n + l) : u[i] = IF i <= n THEN s[i] ELSE t[i - n]
  BY ConcatProperties, LenProperties
<1> HIDE DEF n, l, u
<1>2. /\ \A i \in 1..n : i \in 1..(n + l) /\ i <= n
      /\ \A i \in (n + 1)..(n + l) : i \in 1..(n + l) /\ ~(i <= n) /\ i - n \in 1..l
      /\ \A i \in 1..(n + l) : i \in 1..n \/ i \in (n + 1)..(n + l)
      /\ \A i, j \in (n + 1)..(n + l) : i - n = j - n => i = j
  <2>1. n \in Nat /\ l \in Nat
    BY <1>1
  <2>2. \A i \in (n + 1)..(n + l) : i \in 1..(n + l) /\ ~(i <= n) /\ i - n \in 1..l
    BY <2>1
  <2>3. \A i, j \in (n + 1)..(n + l) : i - n = j - n => i = j
    BY <2>1
  <2>q. QED BY <2>1, <2>2, <2>3
<1>3. \A i \in 1..n : u[i] = s[i] /\ u[i] \in Elements(s)
  BY <1>1, <1>2 DEF Elements
<1>4. \A i \in (n + 1)..(n + l) : u[i] = t[i - n] /\ u[i] \in Elements(t)
  BY <1>1, <1>2 DEF Elements
<1>5. SUFFICES ASSUME NEW i \in 1..(n + l), NEW j \in 1..(n + l), u[i] = u[j]
               PROVE  i = j
  BY <1>1 DEF Distinct, u
<1>6. CASE i \in 1..n /\ j \in 1..n
  BY <1>1, <1>3, <1>5, <1>6 DEF Distinct
<1>7. CASE i \in (n + 1)..(n + l) /\ j \in (n + 1)..(n + l)
  <2>1. t[i - n] = t[j - n] /\ i - n \in DOMAIN t /\ j - n \in DOMAIN t
    BY <1>1, <1>2, <1>4, <1>5, <1>7
  <2>2. i - n = j - n
    BY <2>1 DEF Distinct
  <2>q. QED BY <1>2, <1>7, <2>2
<1>8. ASSUME NEW a \in 1..n, NEW b \in (n + 1)..(n + l) PROVE u[a] # u[b]
  BY <1>3, <1>4
<1>q. QED BY <1>2, <1>5, <1>6, <1>7, <1>8

LEMMA TailElements ==
  ASSUME NEW S, NEW s \in Seq(S), s # <<>>
  PROVE  /\ Head(s) \in Elements(s) /\ Head(s) = s[1] /\ 1 \in DOMAIN s
         /\ Elements(s) = {Head(s)} \cup Elements(Tail(s))
<1>1. /\ Len(s) \in Nat /\ Len(s) # 0 /\ DOMAIN s = 1..Len(s)
      /\ Tail(s) \in Seq(S) /\ Len(Tail(s)) = Len(s) - 1
      /\ DOMAIN Tail(s) = 1..(Len(s) - 1)
      /\ \A i \in 1..(Len(s) - 1) : Tail(s)[i] = s[i + 1]
  BY EmptySeq, LenProperties, HeadTailProperties
<1>2. Head(s) = s[1] /\ 1 \in DOMAIN s
  BY <1>1
<1>3. ASSUME NEW i \in DOMAIN s PROVE s[i] \in {Head(s)} \cup Elements(Tail(s))
  <2>1. CASE i = 1
    BY <1>2, <2>1
  <2>2. CASE i # 1
    <3>1. i - 1 \in DOMAIN Tail(s) /\ Tail(s)[i - 1] = s[i]
      BY <1>1, <2>2
    <3>q. QED BY <3>1 DEF Elements
  <2>q. QED BY <2>1, <2>2
<1>4. ASSUME NEW i \in DOMAIN Tail(s) PROVE Tail(s)[i] \in Elements(s)
  <2>1. i + 1 \in DOMAIN s /\ Tail(s)[i] = s[i + 1]
    BY <1>1
  <2>q. QED BY <2>1 DEF Elements
<1>5. Elements(s) \subseteq {Head(s)} \cup Elements(Tail(s)) /\ Head(s) \in Elements(s)
  BY <1>2, <1>3 DEF Elements
<1>6. Elements(Tail(s)) \subseteq Elements(s)
  BY <1>4 DEF Elements
<1>q. QED BY <1>2, <1>5, <1>6

(* What Keep returns has no duplicates either.                              *)
LEMMA KeepDistinct ==
  ASSUME NEW S, NEW s \in Seq(S), Distinct(s), NEW I
  PROVE  Distinct(Keep(s, I))
<1>1. PICK f : Places(f, Keep(s, I), s, I, Len(s))
  BY KeepProperties
<1>2. Keep(s, I) \in Seq(S)
  BY KeepProperties
<1> DEFINE k == Keep(s, I)
<1>3. /\ DOMAIN k = 1..Len(k) /\ Len(k) \in Nat /\ DOMAIN s = 1..Len(s)
      /\ \A i \in 1..Len(k) : f[i] \in 1..Len(s) /\ k[i] = s[f[i]]
      /\ \A i, j \in 1..Len(k) : i < j => f[i] < f[j]
  <2> HIDE DEF k
  <2>q. QED BY <1>1, <1>2 DEF Places, k
<1>4. SUFFICES ASSUME NEW i \in 1..Len(k), NEW j \in 1..Len(k), k[i] = k[j] PROVE i = j
  <2> HIDE DEF k
  <2>q. QED BY <1>3 DEF Distinct, k
<1>5. f[i] = f[j]
  <2> HIDE DEF k
  <2>q. QED BY <1>3, <1>4 DEF Distinct
<1>6. ~(i < j) /\ ~(j < i)
  <2> HIDE DEF k
  <2>q. QED BY <1>3, <1>5
<1> HIDE DEF k
<1>q. QED BY <1>3, <1>6

(* It looks at the places asked for, and at nothing that follows them.      *)
LEMMA KeepPrefix ==
  ASSUME NEW S, NEW s \in Seq(S), NEW t \in Seq(S), NEW I, NEW J,
         Len(t) <= Len(s), \A i \in 1..Len(t) : t[i] = s[i],
         I \cap (1..Len(s)) = J \cap (1..Len(t))
  PROVE  Keep(s, I) = Keep(t, J)
<1>1. PICK f : Keeps(f, S, s, I) /\ Keep(s, I) = f[Len(s)]
  BY KeepRecursion
<1>2. PICK g : Keeps(g, S, t, J) /\ Keep(t, J) = g[Len(t)]
  BY KeepRecursion
<1> DEFINE n == Len(s)
           m == Len(t)
           T == {i \in Nat : i <= n => f[i] = g[IF i <= m THEN i ELSE m]}
<1>3. /\ f[0] = <<>> /\ \A i \in 1..n : f[i] = IF i \in I THEN Append(f[i - 1], s[i]) ELSE f[i - 1]
      /\ g[0] = <<>> /\ \A i \in 1..m : g[i] = IF i \in J THEN Append(g[i - 1], t[i]) ELSE g[i - 1]
  BY <1>1, <1>2 DEF Keeps
<1>4. n \in Nat /\ m \in Nat /\ m <= n
  BY LenProperties
<1>5. /\ \A i \in 1..m : i \in 1..n /\ (i \in I <=> i \in J) /\ t[i] = s[i]
      /\ \A i \in 1..n : i > m => i \notin I
  BY <1>4
<1> HIDE DEF n, m
<1>6. 0 \in T
  BY <1>3, <1>4
<1>7. ASSUME NEW i \in Nat, i \in T PROVE i + 1 \in T
  <2> SUFFICES ASSUME i + 1 <= n PROVE f[i + 1] = g[IF i + 1 <= m THEN i + 1 ELSE m]
    OBVIOUS
  <2>1. i <= n /\ i + 1 \in 1..n /\ (i + 1) - 1 = i /\ f[i] = g[IF i <= m THEN i ELSE m]
    BY <1>4, <1>7
  <2>2. CASE i + 1 <= m
    <3>1. i <= m /\ i + 1 \in 1..m /\ f[i] = g[i]
      BY <1>4, <2>1, <2>2
    <3>q. QED BY <1>3, <1>5, <2>1, <2>2, <3>1
  <2>3. CASE ~(i + 1 <= m)
    <3>1. i + 1 \notin I /\ f[i + 1] = f[i]
      BY <1>3, <1>4, <1>5, <2>1, <2>3
    <3>2. i <= m => i = m
      BY <1>4, <2>3
    <3>q. QED BY <2>1, <2>3, <3>1, <3>2
  <2>q. QED BY <2>2, <2>3
<1>8. n \in T
  <2> HIDE DEF T
  <2>q. QED BY <1>4, <1>6, <1>7, InductionOverNat
<1>9. f[n] = g[m]
  <2>1. f[n] = g[IF n <= m THEN n ELSE m]
    BY <1>4, <1>8
  <2>2. n <= m => n = m
    BY <1>4
  <2>q. QED BY <2>1, <2>2
<1>q. QED BY <1>1, <1>2, <1>9 DEF n, m

(* The first n elements.                                                    *)
Front(s, n) == [i \in 1..n |-> s[i]]

LEMMA FrontProperties ==
  ASSUME NEW S, NEW s \in Seq(S), NEW n \in 0..Len(s)
  PROVE  /\ Front(s, n) \in Seq(S) /\ Len(Front(s, n)) = n /\ DOMAIN Front(s, n) = 1..n
         /\ \A i \in 1..n : Front(s, n)[i] = s[i]
         /\ Front(s, n) = SubSeq(s, 1, n)
         /\ Front(s, 0) = <<>>
         /\ n = Len(s) => Front(s, n) = s
         /\ n < Len(s) => Append(Front(s, n), s[n + 1]) = Front(s, n + 1)
<1>1. Len(s) \in Nat /\ s = [i \in 1..Len(s) |-> s[i]] /\ \A i \in 1..Len(s) : s[i] \in S
  BY LenProperties, ElementOfSeq
<1>2. Front(s, n) \in [1..n -> S]
  BY <1>1 DEF Front
<1>3. Front(s, n) \in Seq(S)
  BY <1>1, <1>2, SeqDef
<1>4. Len(Front(s, n)) = n /\ DOMAIN Front(s, n) = 1..n /\ \A i \in 1..n : Front(s, n)[i] = s[i]
  BY <1>1 DEF Front
<1>5. Front(s, n) = SubSeq(s, 1, n)
  BY <1>1 DEF Front
<1>6. Front(s, 0) = <<>>
  BY DEF Front
<1>7. n = Len(s) => Front(s, n) = s
  BY <1>1 DEF Front
<1>8. ASSUME n < Len(s) PROVE Append(Front(s, n), s[n + 1]) = Front(s, n + 1)
  <2>1. n \in Nat /\ s[n + 1] \in S
    BY <1>1, <1>8
  <2> DEFINE t == Append(Front(s, n), s[n + 1])
  <2>2. Len(t) = n + 1 /\ \A i \in 1..(n + 1) : t[i] = s[i]
    BY <1>3, <1>4, <2>1
  <2>3. t = [i \in 1..(n + 1) |-> t[i]]
    BY <1>3, <1>4, <2>1
  <2> HIDE DEF t
  <2>4. t = [i \in 1..(n + 1) |-> s[i]]
    BY <2>2, <2>3
  <2>q. QED BY <2>4 DEF t, Front
<1>q. QED BY <1>3, <1>4, <1>5, <1>6, <1>7, <1>8

LEMMA KeepAll ==
  ASSUME NEW S, NEW s \in Seq(S), NEW I, 1..Len(s) \subseteq I
  PROVE  Keep(s, I) = s
<1>1. PICK f : Keeps(f, S, s, I) /\ Keep(s, I) = f[Len(s)]
  BY KeepRecursion
<1> DEFINE n == Len(s)
           T == {i \in Nat : i <= n => f[i] = Front(s, i)}
<1>2. n \in Nat /\ f[0] = <<>> /\ \A i \in 1..n : f[i] = Append(f[i - 1], s[i])
  BY <1>1, LenProperties DEF Keeps
<1>3. 0 \in T
  BY <1>2, FrontProperties
<1>4. ASSUME NEW i \in Nat, i \in T PROVE i + 1 \in T
  <2> SUFFICES ASSUME i + 1 <= n PROVE f[i + 1] = Front(s, i + 1)
    OBVIOUS
  <2>1. i + 1 \in 1..n /\ (i + 1) - 1 = i /\ i \in 0..n /\ i < n /\ f[i] = Front(s, i)
    BY <1>2, <1>4
  <2>2. f[i + 1] = Append(Front(s, i), s[i + 1])
    BY <1>2, <2>1
  <2>3. Append(Front(s, i), s[i + 1]) = Front(s, i + 1)
    <3> HIDE DEF T
    <3>q. QED BY <2>1, FrontProperties DEF n
  <2>q. QED BY <2>2, <2>3
<1>5. n \in T
  <2> HIDE DEF T
  <2>q. QED BY <1>2, <1>3, <1>4, InductionOverNat
<1>6. f[n] = Front(s, n) /\ n \in 0..n
  BY <1>2, <1>5
<1>q. QED BY <1>1, <1>6, FrontProperties

LEMMA KeepNone ==
  ASSUME NEW S, NEW s \in Seq(S), NEW I, I \cap (1..Len(s)) = {}
  PROVE  Keep(s, I) = <<>>
<1>1. PICK f : Keeps(f, S, s, I) /\ Keep(s, I) = f[Len(s)]
  BY KeepRecursion
<1> DEFINE n == Len(s)
           T == {i \in Nat : i <= n => f[i] = <<>>}
<1>2. n \in Nat /\ f[0] = <<>> /\ \A i \in 1..n : f[i] = f[i - 1]
  BY <1>1, LenProperties DEF Keeps
<1>3. 0 \in T
  BY <1>2
<1>4. ASSUME NEW i \in Nat, i \in T PROVE i + 1 \in T
  <2> SUFFICES ASSUME i + 1 <= n PROVE f[i + 1] = <<>>
    OBVIOUS
  <2>1. i + 1 \in 1..n /\ (i + 1) - 1 = i /\ f[i] = <<>>
    BY <1>2, <1>4
  <2>q. QED BY <1>2, <2>1
<1>5. n \in T
  <2> HIDE DEF T
  <2>q. QED BY <1>2, <1>3, <1>4, InductionOverNat
<1>q. QED BY <1>1, <1>2, <1>5

(* What it keeps of the beginning of a list is the beginning of what it     *)
(* keeps of the list.                                                       *)
LEMMA KeepFront ==
  ASSUME NEW S, NEW s \in Seq(S), NEW t \in Seq(S), NEW I, NEW J,
         Len(t) <= Len(s), \A i \in 1..Len(t) : t[i] = s[i] /\ (i \in I <=> i \in J)
  PROVE  /\ Len(Keep(t, J)) <= Len(Keep(s, I))
         /\ \A i \in 1..Len(Keep(t, J)) : Keep(s, I)[i] = Keep(t, J)[i]
<1>1. PICK f : Keeps(f, S, s, I) /\ Keep(s, I) = f[Len(s)]
  BY KeepRecursion
<1>2. Keep(t, J) = Keep(s, I \cap (1..Len(t)))
  <2>1. (I \cap (1..Len(t))) \cap (1..Len(s)) = J \cap (1..Len(t))
    BY LenProperties
  <2> DEFINE K == I \cap (1..Len(t))
  <2>2. K \cap (1..Len(s)) = J \cap (1..Len(t))
    BY <2>1
  <2> HIDE DEF K
  <2>3. Keep(s, K) = Keep(t, J)
    BY <2>2, KeepPrefix
  <2>q. QED BY <2>3 DEF K
<1>3. PICK g : Keeps(g, S, t, J) /\ Keep(t, J) = g[Len(t)]
  BY KeepRecursion
<1> DEFINE n == Len(s)
           m == Len(t)
           Begins(a, b) == Len(a) <= Len(b) /\ \A i \in 1..Len(a) : a[i] = b[i]
           T == {i \in Nat : i <= n => IF i <= m THEN f[i] = g[i] ELSE Begins(g[m], f[i])}
<1>4. /\ f[0] = <<>> /\ \A i \in 1..n : f[i] = IF i \in I THEN Append(f[i - 1], s[i]) ELSE f[i - 1]
      /\ g[0] = <<>> /\ \A i \in 1..m : g[i] = IF i \in J THEN Append(g[i - 1], t[i]) ELSE g[i - 1]
      /\ \A i \in 0..n : f[i] \in Seq(S)
  BY <1>1, <1>3 DEF Keeps
<1>5. n \in Nat /\ m \in Nat /\ m <= n /\ \A i \in 1..n : s[i] \in S
  BY LenProperties, ElementOfSeq
<1>6. \A i \in 1..m : i \in 1..n /\ (i \in I <=> i \in J) /\ t[i] = s[i]
  BY <1>5
<1> HIDE DEF n, m
<1>7. 0 \in T
  BY <1>4, <1>5
<1>8. ASSUME NEW i \in Nat, i \in T PROVE i + 1 \in T
  <2> SUFFICES ASSUME i + 1 <= n
               PROVE  IF i + 1 <= m THEN f[i + 1] = g[i + 1] ELSE Begins(g[m], f[i + 1])
    OBVIOUS
  <2>1. i <= n /\ i + 1 \in 1..n /\ (i + 1) - 1 = i /\ i \in 0..n
    BY <1>5
  <2>2. IF i <= m THEN f[i] = g[i] ELSE Begins(g[m], f[i])
    BY <1>8, <2>1
  <2>3. CASE i + 1 <= m
    <3>1. i <= m /\ i + 1 \in 1..m /\ f[i] = g[i]
      BY <1>5, <2>2, <2>3
    <3>2. f[i + 1] = g[i + 1]
      BY <1>4, <1>6, <2>1, <3>1
    <3>q. QED BY <2>3, <3>2
  <2>4. CASE ~(i + 1 <= m)
    <3>1. Begins(g[m], f[i])
      <4>1. i <= m => i = m
        BY <1>5, <2>4
      <4>2. Len(f[i]) \in Nat
        BY <1>4, <2>1, LenProperties
      <4>q. QED BY <2>2, <4>1, <4>2
    <3>2. /\ f[i] \in Seq(S) /\ s[i + 1] \in S
          /\ f[i + 1] = IF i + 1 \in I THEN Append(f[i], s[i + 1]) ELSE f[i]
      BY <1>4, <1>5, <2>1
    <3>4. g[m] \in Seq(S)
      <4>1. \A k \in 0..m : g[k] \in Seq(S)
        BY <1>3 DEF Keeps, m
      <4>2. m \in 0..m
        BY <1>5
      <4>q. QED BY <4>1, <4>2
    <3>3. Begins(g[m], f[i + 1])
      <4>1. CASE f[i + 1] = f[i]
        BY <3>1, <4>1
      <4>2. CASE f[i + 1] = Append(f[i], s[i + 1])
        <5> DEFINE e == f[i]
                   h == Append(e, s[i + 1])
        <5>1. Len(h) = Len(e) + 1 /\ Len(e) \in Nat /\ \A k \in 1..Len(e) : h[k] = e[k]
          BY <3>2, AppendProperties, LenProperties
        <5>2. Len(g[m]) \in Nat /\ Begins(g[m], e)
          BY <3>1, <3>4, LenProperties
        <5> HIDE DEF e, h
        <5>3. Begins(g[m], h)
          BY <5>1, <5>2
        <5>q. QED BY <4>2, <5>3 DEF e, h
      <4>q. QED BY <3>2, <4>1, <4>2
    <3>q. QED BY <2>4, <3>3
  <2>q. QED BY <2>3, <2>4
<1>9. n \in T
  <2> HIDE DEF T
  <2>q. QED BY <1>5, <1>7, <1>8, InductionOverNat
<1>10. Begins(g[m], f[n])
  <2>1. IF n <= m THEN f[n] = g[n] ELSE Begins(g[m], f[n])
    BY <1>5, <1>9
  <2>2. n <= m => n = m
    BY <1>5
  <2>3. Len(f[n]) \in Nat
    BY <1>4, <1>5, LenProperties
  <2>q. QED BY <2>1, <2>2, <2>3
<1>q. QED BY <1>1, <1>3, <1>10 DEF n, m
-----------------------------------------------------------------------------

(* A set of numbers up to n has a greatest.                                 *)
LEMMA Greatest ==
  ASSUME NEW n \in Nat, NEW A, A \subseteq 1..n, A # {}
  PROVE  \E m \in A : \A k \in A : k <= m
<1> DEFINE T == {m \in Nat : \A B \in SUBSET (1..m) : B # {} => \E x \in B : \A k \in B : k <= x}
<1>1. 0 \in T
  <2>1. 1..0 = {}
    OBVIOUS
  <2>q. QED BY <2>1
<1>2. ASSUME NEW m \in Nat, m \in T PROVE m + 1 \in T
  <2> SUFFICES ASSUME NEW B \in SUBSET (1..(m + 1)), B # {}
               PROVE  \E x \in B : \A k \in B : k <= x
    OBVIOUS
  <2>1. CASE m + 1 \in B
    BY <2>1
  <2>2. CASE m + 1 \notin B
    <3>1. B \in SUBSET (1..m)
      BY <2>2
    <3>q. QED BY <1>2, <3>1
  <2>q. QED BY <2>1, <2>2
<1>3. n \in T
  <2> HIDE DEF T
  <2>q. QED BY <1>1, <1>2, InductionOverNat
<1>q. QED BY <1>3

LEMMA Least ==
  ASSUME NEW n \in Nat, NEW A, A \subseteq 1..n, A # {}
  PROVE  \E m \in A : \A k \in A : m <= k
<1> DEFINE B == {j \in 1..n : n + 1 - j \in A}
<1>1. PICK a \in A : TRUE
  OBVIOUS
<1>2. n + 1 - a \in B /\ B \subseteq 1..n
  BY <1>1
<1> HIDE DEF B
<1>3. PICK b \in B : \A k \in B : k <= b
  BY <1>2, Greatest
<1>4. n + 1 - b \in A /\ b \in 1..n
  BY DEF B
<1>5. ASSUME NEW k \in A PROVE n + 1 - b <= k
  <2>1. n + 1 - k \in B
    BY DEF B
  <2>2. n + 1 - k <= b
    BY <1>3, <2>1
  <2>q. QED BY <2>2, <1>4
<1>q. QED BY <1>4, <1>5

LEMMA ConcatPair ==
  ASSUME NEW S, NEW x \in S, NEW y \in S
  PROVE  /\ <<x>> \o <<y>> \in Seq(S) /\ Len(<<x>> \o <<y>>) = 2
         /\ (<<x>> \o <<y>>)[1] = x /\ (<<x>> \o <<y>>)[2] = y
<1> DEFINE s == <<x>>
           t == <<y>>
           w == s \o t
<1>1. s \in Seq(S) /\ t \in Seq(S) /\ Len(s) = 1 /\ Len(t) = 1 /\ s[1] = x /\ t[1] = y
  OBVIOUS
<1> HIDE DEF s, t
<1>2. /\ w \in Seq(S) /\ Len(w) = Len(s) + Len(t)
      /\ \A i \in 1..(Len(s) + Len(t)) : w[i] = IF i <= Len(s) THEN s[i] ELSE t[i - Len(s)]
  BY <1>1, ConcatProperties
<1> HIDE DEF w
<1>3. Len(w) = 2 /\ w[1] = s[1] /\ w[2] = t[1]
  BY <1>1, <1>2
<1>q. QED BY <1>1, <1>2, <1>3 DEF w, s, t

(* Where the elements of s \o t come from.                                  *)
LEMMA ConcatPlaces ==
  ASSUME NEW S, NEW s \in Seq(S), NEW t \in Seq(S)
  PROVE  /\ s \o t \in Seq(S) /\ Len(s) \in Nat /\ Len(t) \in Nat
         /\ Len(s \o t) = Len(s) + Len(t) /\ DOMAIN (s \o t) = 1..(Len(s) + Len(t))
         /\ DOMAIN s = 1..Len(s) /\ DOMAIN t = 1..Len(t)
         /\ \A i \in 1..Len(s) : (s \o t)[i] = s[i]
         /\ \A i \in 1..Len(t) : (s \o t)[Len(s) + i] = t[i]
         /\ \A j \in DOMAIN (s \o t) :
              \/ j \in 1..Len(s)
              \/ /\ j > Len(s) /\ j - Len(s) \in 1..Len(t)
                 /\ Len(s) + (j - Len(s)) = j /\ (s \o t)[j] = t[j - Len(s)]
<1>1. /\ s \o t \in Seq(S) /\ Len(s) \in Nat /\ Len(t) \in Nat
      /\ Len(s \o t) = Len(s) + Len(t) /\ DOMAIN (s \o t) = 1..(Len(s) + Len(t))
      /\ DOMAIN s = 1..Len(s) /\ DOMAIN t = 1..Len(t)
      /\ \A i \in 1..(Len(s) + Len(t)) : (s \o t)[i] = IF i <= Len(s) THEN s[i] ELSE t[i - Len(s)]
  BY ConcatProperties, LenProperties
<1> DEFINE n == Len(s)
           l == Len(t)
           u == s \o t
<1>2. \A i \in 1..n : u[i] = s[i]
  <2>1. n \in Nat /\ l \in Nat /\ \A i \in 1..(n + l) : u[i] = IF i <= n THEN s[i] ELSE t[i - n]
    BY <1>1
  <2> HIDE DEF n, l, u
  <2>q. QED BY <2>1
<1>3. \A i \in 1..l : u[n + i] = t[i]
  <2>1. n \in Nat /\ l \in Nat /\ \A i \in 1..(n + l) : u[i] = IF i <= n THEN s[i] ELSE t[i - n]
    BY <1>1
  <2> HIDE DEF n, l, u
  <2> SUFFICES ASSUME NEW i \in 1..l PROVE u[n + i] = t[i]
    OBVIOUS
  <2>2. n + i \in 1..(n + l) /\ ~(n + i <= n) /\ (n + i) - n = i
    BY <2>1
  <2>q. QED BY <2>1, <2>2
<1>4. \A j \in 1..(n + l) : \/ j \in 1..n
                            \/ j > n /\ j - n \in 1..l /\ n + (j - n) = j /\ u[j] = t[j - n]
  <2>1. n \in Nat /\ l \in Nat /\ \A i \in 1..(n + l) : u[i] = IF i <= n THEN s[i] ELSE t[i - n]
    BY <1>1
  <2> HIDE DEF n, l, u
  <2> SUFFICES ASSUME NEW j \in 1..(n + l), j \notin 1..n
               PROVE  j > n /\ j - n \in 1..l /\ n + (j - n) = j /\ u[j] = t[j - n]
    OBVIOUS
  <2>2. j > n /\ j - n \in 1..l /\ n + (j - n) = j /\ ~(j <= n)
    BY <2>1
  <2>q. QED BY <2>1, <2>2
<1>q. QED BY <1>1, <1>2, <1>3, <1>4

-----------------------------------------------------------------------------

(* Each element of k comes from place b of list a, and in their order.       *)
FlatPlaces(a, b, k, lists, n) ==
  /\ a \in [1..Len(k) -> 1..n] /\ b \in [1..Len(k) -> Nat]
  /\ \A i \in 1..Len(k) : b[i] \in 1..Len(lists[a[i]]) /\ k[i] = lists[a[i]][b[i]]
  /\ \A i, j \in 1..Len(k) : i < j => a[i] < a[j] \/ (a[i] = a[j] /\ b[i] < b[j])
  /\ \A m \in 1..n : \A l \in 1..Len(lists[m]) : \E i \in 1..Len(k) : a[i] = m /\ b[i] = l

(* The function that Flatten computes.                                      *)
LEMMA FlattenRecursion ==
  ASSUME NEW S, NEW lists \in Seq(Seq(S))
  PROVE  \E f : /\ f \in [0..Len(lists) -> Seq(S)] /\ f[0] = <<>>
                /\ \A i \in 1..Len(lists) : f[i] = f[i - 1] \o lists[i]
                /\ Flatten(lists) = f[Len(lists)]
<1> DEFINE n == Len(lists)
           Q == Seq(S)
           Def(f) == [i \in 0..n |-> IF i = 0 THEN <<>> ELSE f[i - 1] \o lists[i]]
           Move == [i \in 1..n |-> [p \in Q |-> p \o lists[i]]]
           flat == CHOOSE f : f = Def(f)
<1>0. n \in Nat /\ <<>> \in Q
  BY LenProperties
<1>1. Flatten(lists) = flat[n]
  BY DEF Flatten
<1>2. ASSUME NEW i \in 1..n, NEW p \in Q PROVE p \o lists[i] \in Q
  <2>1. lists[i] \in Q
    BY ElementOfSeq
  <2>q. QED BY <2>1, ConcatProperties
<1>3. Move \in [1..n -> [Q -> Q]]
  <2> HIDE DEF Q, n
  <2>q. QED BY <1>2
<1>4. PICK f : Solves(f, Q, n, <<>>, Move)
  <2> DEFINE e0 == <<>>
  <2>1. e0 \in Q
    BY <1>0
  <2>2. \E f : Solves(f, Q, n, e0, Move)
    <3> HIDE DEF Q, n, Move, e0
    <3>q. QED BY <1>0, <1>3, <2>1, RecursionExists
  <2>q. QED BY <2>2
<1>5. f = Def(f)
  <2>1. f = [i \in 0..n |-> f[i]] /\ f[0] = <<>>
    BY <1>4 DEF Solves
  <2>2. ASSUME NEW i \in 1..n PROVE f[i] = f[i - 1] \o lists[i]
    <3>1. f[i - 1] \in Q /\ f[i] = Move[i][f[i - 1]]
      <4>1. f \in [0..n -> Q] /\ \A j \in 1..n : f[j] = Move[j][f[j - 1]]
        <5> HIDE DEF Q, Move, n
        <5>q. QED BY <1>4 DEF Solves
      <4> HIDE DEF Q, Move, n
      <4>2. i - 1 \in 0..n
        BY <1>0
      <4>q. QED BY <4>1, <4>2
    <3> HIDE DEF Q
    <3>q. QED BY <3>1
  <2>3. ASSUME NEW i \in 0..n PROVE f[i] = IF i = 0 THEN <<>> ELSE f[i - 1] \o lists[i]
    <3>1. i = 0 \/ i \in 1..n
      BY <1>0
    <3> HIDE DEF Q
    <3>q. QED BY <3>1, <2>1, <2>2
  <2>q. QED BY <2>1, <2>3, Zenon
<1>6. flat = Def(flat)
  <2> HIDE DEF Def
  <2>q. QED BY <1>5
<1>7. /\ flat = [i \in 0..n |-> flat[i]] /\ flat[0] = <<>>
      /\ \A i \in 1..n : flat[i] = flat[i - 1] \o lists[i]
  <2> HIDE DEF flat
  <2>1. /\ flat = [i \in 0..n |-> flat[i]]
        /\ \A i \in 0..n : flat[i] = IF i = 0 THEN <<>> ELSE flat[i - 1] \o lists[i]
    BY <1>6, Zenon
  <2>2. 0 \in 0..n /\ \A i \in 1..n : i \in 0..n /\ i # 0
    BY <1>0
  <2>q. QED BY <2>1, <2>2, Zenon
<1>8. \A i \in 0..n : flat[i] \in Q
  <2> DEFINE T == {i \in Nat : i <= n => flat[i] \in Q}
  <2> HIDE DEF flat
  <2>1. 0 \in T
    BY <1>7, <1>0
  <2>2. ASSUME NEW i \in Nat, i \in T PROVE i + 1 \in T
    <3> SUFFICES ASSUME i + 1 <= n PROVE flat[i + 1] \in Q
      OBVIOUS
    <3>1. flat[i] \in Q /\ i + 1 \in 1..n /\ (i + 1) - 1 = i
      BY <2>2, <1>0
    <3>2. flat[i + 1] = flat[i] \o lists[i + 1]
      BY <1>7, <3>1
    <3> HIDE DEF Q, n
    <3>q. QED BY <1>2, <3>1, <3>2
  <2>3. Nat \subseteq T
    <3> HIDE DEF T
    <3>q. QED BY <2>1, <2>2, InductionOverNat
  <2>q. QED BY <2>3, <1>0
<1>9. flat \in [0..n -> Q]
  <2> HIDE DEF flat, Q
  <2>q. QED BY <1>7, <1>8
<1>q. QED
  <2> HIDE DEF flat
  <2>q. QED BY <1>1, <1>7, <1>9

(* Flatten returns the elements of the lists, all of them, and in order.    *)
LEMMA FlattenProperties ==
  ASSUME NEW S, NEW lists \in Seq(Seq(S))
  PROVE  /\ Flatten(lists) \in Seq(S)
         /\ \E a, b : FlatPlaces(a, b, Flatten(lists), lists, Len(lists))
<1> DEFINE n == Len(lists)
<1>1. PICK f : /\ f \in [0..n -> Seq(S)] /\ f[0] = <<>>
               /\ \A i \in 1..n : f[i] = f[i - 1] \o lists[i]
               /\ Flatten(lists) = f[n]
  BY FlattenRecursion
<1>2. n \in Nat /\ \A i \in 1..n : lists[i] \in Seq(S)
  BY LenProperties, ElementOfSeq
<1> HIDE DEF n
<1> DEFINE T == {i \in Nat : i <= n => \E a, b : FlatPlaces(a, b, f[i], lists, i)}
<1>3. 0 \in T
  <2>1. Len(f[0]) = 0 /\ 1..0 = {}
    BY <1>1
  <2>2. FlatPlaces([i \in 1..0 |-> 0], [i \in 1..0 |-> 0], f[0], lists, 0)
    BY <2>1 DEF FlatPlaces
  <2>q. QED BY <2>2
<1>4. ASSUME NEW i \in Nat, i \in T PROVE i + 1 \in T
  <2> SUFFICES ASSUME i + 1 <= n PROVE \E a, b : FlatPlaces(a, b, f[i + 1], lists, i + 1)
    OBVIOUS
  <2>0. i <= n /\ i \in 0..n /\ i + 1 \in 1..n /\ (i + 1) - 1 = i
    BY <1>2
  <2>1. PICK a, b : FlatPlaces(a, b, f[i], lists, i)
    BY <1>4, <2>0
  <2> DEFINE s == f[i]
             t == lists[i + 1]
             u == f[i + 1]
             c == [j \in 1..Len(u) |-> IF j <= Len(s) THEN a[j] ELSE i + 1]
             d == [j \in 1..Len(u) |-> IF j <= Len(s) THEN b[j] ELSE j - Len(s)]
  <2>2. u = s \o t /\ s \in Seq(S) /\ t \in Seq(S)
    BY <1>1, <1>2, <2>0
  <2>3. /\ Len(s) \in Nat /\ Len(t) \in Nat /\ Len(u) = Len(s) + Len(t)
        /\ DOMAIN u = 1..Len(u)
        /\ \A j \in 1..Len(s) : u[j] = s[j]
        /\ \A j \in 1..Len(t) : u[Len(s) + j] = t[j]
        /\ \A j \in DOMAIN u :
              \/ j \in 1..Len(s)
              \/ /\ j > Len(s) /\ j - Len(s) \in 1..Len(t)
                 /\ Len(s) + (j - Len(s)) = j /\ u[j] = t[j - Len(s)]
    <3> HIDE DEF s, t, u
    <3>q. QED BY <2>2, ConcatPlaces
  <2>4. /\ a \in [1..Len(s) -> 1..i] /\ b \in [1..Len(s) -> Nat]
        /\ \A j \in 1..Len(s) : b[j] \in 1..Len(lists[a[j]]) /\ s[j] = lists[a[j]][b[j]]
        /\ \A j, k \in 1..Len(s) : j < k => a[j] < a[k] \/ (a[j] = a[k] /\ b[j] < b[k])
        /\ \A m \in 1..i : \A l \in 1..Len(lists[m]) : \E j \in 1..Len(s) : a[j] = m /\ b[j] = l
    BY <2>1 DEF FlatPlaces
  <2>5. \A j \in 1..Len(s) : j \in 1..Len(u) /\ c[j] = a[j] /\ d[j] = b[j] /\ a[j] \in 1..i /\ u[j] = s[j]
    <3> HIDE DEF s, t, u
    <3>1. \A j \in 1..Len(s) : j \in 1..Len(u) /\ j <= Len(s)
      BY <2>3
    <3>q. QED BY <2>3, <2>4, <3>1
  <2>6. \A j \in 1..Len(t) : /\ Len(s) + j \in 1..Len(u) /\ c[Len(s) + j] = i + 1
                             /\ d[Len(s) + j] = j /\ u[Len(s) + j] = t[j]
    <3> HIDE DEF s, t, u
    <3>1. \A j \in 1..Len(t) : /\ Len(s) + j \in 1..Len(u) /\ ~(Len(s) + j <= Len(s))
                               /\ (Len(s) + j) - Len(s) = j
      BY <2>3
    <3>q. QED BY <2>3, <3>1
  <2>7. \A j \in 1..Len(u) : \/ j \in 1..Len(s)
                             \/ j > Len(s) /\ j - Len(s) \in 1..Len(t) /\ Len(s) + (j - Len(s)) = j
    <3> HIDE DEF s, t, u, c, d
    <3>q. QED BY <2>3
  <2>8. \A j \in 1..Len(u) :
          \/ j \in 1..Len(s)
          \/ /\ j > Len(s) /\ j - Len(s) \in 1..Len(t) /\ c[j] = i + 1
             /\ d[j] = j - Len(s) /\ u[j] = t[j - Len(s)]
    <3> HIDE DEF s, t, u, c, d
    <3>q. QED BY <2>6, <2>7
  <2>9. c \in [1..Len(u) -> 1..(i + 1)] /\ d \in [1..Len(u) -> Nat]
    <3>1. \A j \in 1..Len(u) : /\ (IF j <= Len(s) THEN a[j] ELSE i + 1) \in 1..(i + 1)
                               /\ (IF j <= Len(s) THEN b[j] ELSE j - Len(s)) \in Nat
      <4> HIDE DEF s, t, u, c, d
      <4>q. QED BY <2>3, <2>4, <2>7
    <3>q. QED BY <3>1
  <2> HIDE DEF c, d
  <2>10. \A j \in 1..Len(u) : d[j] \in 1..Len(lists[c[j]]) /\ u[j] = lists[c[j]][d[j]]
    <3> SUFFICES ASSUME NEW j \in 1..Len(u)
                 PROVE  d[j] \in 1..Len(lists[c[j]]) /\ u[j] = lists[c[j]][d[j]]
      OBVIOUS
    <3> HIDE DEF s, u
    <3>1. CASE j \in 1..Len(s)
      BY <2>4, <2>5, <3>1
    <3>2. CASE j \notin 1..Len(s)
      BY <2>8, <3>2
    <3>q. QED BY <3>1, <3>2
  <2>11. \A j, k \in 1..Len(u) : j < k => c[j] < c[k] \/ (c[j] = c[k] /\ d[j] < d[k])
    <3> SUFFICES ASSUME NEW j \in 1..Len(u), NEW k \in 1..Len(u), j < k
                 PROVE  c[j] < c[k] \/ (c[j] = c[k] /\ d[j] < d[k])
      OBVIOUS
    <3> HIDE DEF s, t, u
    <3>0. Len(s) \in Nat /\ Len(u) \in Nat
      BY <2>3
    <3>1. CASE k \in 1..Len(s)
      <4>1. j \in 1..Len(s)
        BY <3>0, <3>1
      <4>q. QED BY <2>4, <2>5, <3>1, <4>1
    <3>2. CASE k \notin 1..Len(s) /\ j \in 1..Len(s)
      <4>1. c[k] = i + 1 /\ c[j] = a[j] /\ a[j] \in 1..i
        BY <2>5, <2>8, <3>2
      <4>q. QED BY <4>1
    <3>3. CASE k \notin 1..Len(s) /\ j \notin 1..Len(s)
      <4>1. c[k] = i + 1 /\ c[j] = i + 1 /\ d[k] = k - Len(s) /\ d[j] = j - Len(s)
        BY <2>8, <3>3
      <4>q. QED BY <3>0, <4>1
    <3>q. QED BY <3>1, <3>2, <3>3
  <2>12. \A m \in 1..(i + 1) : \A l \in 1..Len(lists[m]) : \E j \in 1..Len(u) : c[j] = m /\ d[j] = l
    <3> SUFFICES ASSUME NEW m \in 1..(i + 1), NEW l \in 1..Len(lists[m])
                 PROVE  \E j \in 1..Len(u) : c[j] = m /\ d[j] = l
      OBVIOUS
    <3> HIDE DEF s, u
    <3>1. CASE m = i + 1
      BY <2>6, <3>1
    <3>2. CASE m # i + 1
      <4>1. m \in 1..i
        BY <3>2
      <4>2. PICK j \in 1..Len(s) : a[j] = m /\ b[j] = l
        BY <2>4, <4>1
      <4>3. j \in 1..Len(u) /\ c[j] = m /\ d[j] = l
        BY <2>5, <4>2
      <4>q. QED BY <4>3
    <3>q. QED BY <3>1, <3>2
  <2>13. FlatPlaces(c, d, u, lists, i + 1)
    <3> HIDE DEF s, t, u
    <3>q. QED BY <2>9, <2>10, <2>11, <2>12 DEF FlatPlaces
  <2>q. QED BY <2>13
<1>5. n \in T
  <2> HIDE DEF T
  <2>q. QED BY <1>2, <1>3, <1>4, InductionOverNat
<1>q. QED BY <1>1, <1>2, <1>5 DEF n

=============================================================================
