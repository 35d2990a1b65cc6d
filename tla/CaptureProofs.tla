----------------------------- MODULE CaptureProofs -----------------------------
(***************************************************************************)
(* Proofs about Capture, for any pids, processes, scans, faults and        *)
(* restarts, and about PollCadence, for a Duration of any width and any     *)
(* flags.  First the operators: what Segment, and so the graph, makes of a  *)
(* list of events, and what a diff is; then the inductive invariant         *)
(* PollerInv, step by step; then each property as a consequence of it.      *)
(***************************************************************************)
EXTENDS Capture, PollCadence, ListProofs

-----------------------------------------------------------------------------
(* The graph of a list of events. *)

Event == [kind : {"spawn", "exit", "sample", "file"}, pid : Nat, ppid : Nat,
          ts : Nat, id : Nat, parent : Nat]

Instance == [pid : Nat, ppid : Nat, spawn_ts : Nat, exit_ts : Int, observed : BOOLEAN,
             parent : Nat, id : Nat, ids : SUBSET Nat]

InOrder(E) == \A i, j \in DOMAIN E : i < j => E[i].ts <= E[j].ts

(* Sorting leaves a list alone that is in order.                            *)
LEMMA SortedAlready ==
  ASSUME NEW E \in Seq(Event), InOrder(E)
  PROVE  SortedByTs(E) = E
<1> DEFINE n == Len(E)
           Insert(s, e) == Keep(s, {i \in DOMAIN s : s[i].ts <= e.ts}) \o <<e>>
                             \o Keep(s, {i \in DOMAIN s : s[i].ts > e.ts})
           Def(f) == [m \in 0..n |-> IF m = 0 THEN <<>> ELSE Insert(f[m - 1], E[m])]
           sorted == CHOOSE f : f = Def(f)
           F == [m \in 0..n |-> Front(E, m)]
<1>1. SortedByTs(E) = sorted[n]
  BY DEF SortedByTs
<1>2. /\ n \in Nat /\ DOMAIN E = 1..n
      /\ \A m \in 1..n : E[m] \in Event /\ E[m].ts \in Nat
  <2>1. n \in Nat /\ DOMAIN E = 1..n /\ \A m \in 1..n : E[m] \in Event
    BY LenProperties, ElementOfSeq
  <2>q. QED BY <2>1 DEF Event
<1>3. ASSUME NEW m \in 1..n PROVE Insert(Front(E, m - 1), E[m]) = Front(E, m)
  <2> DEFINE s == Front(E, m - 1)
             A == {i \in DOMAIN s : s[i].ts <= E[m].ts}
             B == {i \in DOMAIN s : s[i].ts > E[m].ts}
  <2>1. m - 1 \in 0..n /\ m - 1 < n /\ (m - 1) + 1 = m /\ m \in DOMAIN E
    BY <1>2
  <2>2. /\ s \in Seq(Event) /\ Len(s) = m - 1 /\ DOMAIN s = 1..(m - 1)
        /\ \A i \in 1..(m - 1) : s[i] = E[i]
        /\ Append(s, E[m]) = Front(E, m)
    <3>1. \A k \in 0..Len(E) :
            /\ Front(E, k) \in Seq(Event) /\ Len(Front(E, k)) = k /\ DOMAIN Front(E, k) = 1..k
            /\ \A i \in 1..k : Front(E, k)[i] = E[i]
            /\ k < Len(E) => Append(Front(E, k), E[k + 1]) = Front(E, k + 1)
      BY FrontProperties
    <3>q. QED BY <2>1, <3>1
  <2>3. \A i \in 1..(m - 1) : E[i].ts <= E[m].ts /\ E[i].ts \in Nat /\ E[m].ts \in Nat
    <3>1. \A i \in 1..(m - 1) : i \in DOMAIN E /\ i < m /\ i \in 1..n
      BY <1>2
    <3>2. \A i \in 1..(m - 1) : E[i].ts <= E[m].ts
      BY <2>1, <3>1 DEF InOrder
    <3>3. \A i \in 1..(m - 1) : E[i].ts \in Nat
      BY <1>2, <3>1
    <3>4. E[m].ts \in Nat
      BY <1>2, <1>3
    <3>q. QED BY <3>2, <3>3, <3>4
  <2> HIDE DEF s
  <2>4. 1..Len(s) \subseteq A /\ B \cap (1..Len(s)) = {}
    <3>1. ASSUME NEW i \in 1..Len(s) PROVE i \in A /\ i \notin B
      <4>1. i \in 1..(m - 1) /\ i \in DOMAIN s /\ s[i] = E[i]
        BY <2>2
      <4>2. E[i].ts <= E[m].ts /\ E[i].ts \in Nat /\ E[m].ts \in Nat
        BY <2>3, <4>1
      <4>3. ~(E[i].ts > E[m].ts)
        BY <4>2
      <4>q. QED BY <4>1, <4>2, <4>3
    <3> HIDE DEF A, B
    <3>q. QED BY <3>1
  <2> HIDE DEF A, B
  <2>5. Keep(s, A) = s /\ Keep(s, B) = <<>>
    BY <2>2, <2>4, KeepAll, KeepNone
  <2>6. s \o <<E[m]>> \o <<>> = Append(s, E[m])
    <3>1. E[m] \in Event /\ s \in Seq(Event)
      BY <1>2, <2>2
    <3> HIDE DEF s
    <3>2. s \o <<E[m]>> = Append(s, E[m]) /\ s \o <<E[m]>> \in Seq(Event)
      BY <3>1
    <3>q. QED BY <3>2
  <2>q. QED BY <2>2, <2>5, <2>6 DEF s, A, B
<1>4. F = Def(F)
  <2>1. Front(E, 0) = <<>>
    BY DEF Front
  <2>2. ASSUME NEW m \in 0..n
        PROVE  F[m] = IF m = 0 THEN <<>> ELSE Insert(F[m - 1], E[m])
    <3>1. CASE m = 0
      BY <2>1, <3>1
    <3>2. CASE m # 0
      <4>1. m \in 1..n /\ m - 1 \in 0..n
        BY <1>2, <3>2
      <4>2. F[m] = Front(E, m) /\ F[m - 1] = Front(E, m - 1)
        BY <4>1
      <4> HIDE DEF F, Insert
      <4>q. QED BY <1>3, <3>2, <4>1, <4>2
    <3>q. QED BY <3>1, <3>2
  <2>3. F = [m \in 0..n |-> F[m]]
    OBVIOUS
  <2> HIDE DEF F, Insert
  <2>q. QED BY <2>2, <2>3, Zenon
<1>5. sorted = Def(sorted)
  <2> HIDE DEF Def, F
  <2>q. QED BY <1>4
<1>6. \A m \in 0..n : sorted[m] = IF m = 0 THEN <<>> ELSE Insert(sorted[m - 1], E[m])
  <2> HIDE DEF sorted, Insert
  <2>q. QED BY <1>5, Zenon
<1> HIDE DEF sorted
<1> DEFINE T == {m \in Nat : m <= n => sorted[m] = Front(E, m)}
<1>7. 0 \in T
  <2>1. Front(E, 0) = <<>> /\ 0 \in 0..n
    BY <1>2 DEF Front
  <2> HIDE DEF Insert, n
  <2>q. QED BY <1>6, <2>1
<1>8. ASSUME NEW m \in Nat, m \in T PROVE m + 1 \in T
  <2> SUFFICES ASSUME m + 1 <= n PROVE sorted[m + 1] = Front(E, m + 1)
    OBVIOUS
  <2>1. m + 1 \in 0..n /\ m + 1 # 0 /\ (m + 1) - 1 = m /\ m + 1 \in 1..n /\ sorted[m] = Front(E, m)
    BY <1>2, <1>8
  <2>2. sorted[m + 1] = Insert(sorted[m], E[m + 1])
    <3> HIDE DEF Insert, n
    <3>q. QED BY <1>6, <2>1
  <2>3. Insert(Front(E, m), E[m + 1]) = Front(E, m + 1)
    <3> HIDE DEF Insert, n
    <3>q. QED BY <1>3, <2>1
  <2> HIDE DEF Insert
  <2>q. QED BY <2>1, <2>2, <2>3
<1>9. n \in T
  <2> HIDE DEF T
  <2>q. QED BY <1>2, <1>7, <1>8, InductionOverNat
<1>10. sorted[n] = Front(E, n) /\ n \in 0..n
  BY <1>2, <1>9
<1>q. QED BY <1>1, <1>10, FrontProperties
-----------------------------------------------------------------------------

(* x is the instance that events a to b make.                               *)
Made(x, evs, a, b) ==
  /\ x \in Instance
  /\ x.pid = evs[a].pid /\ x.ppid = evs[a].ppid /\ x.spawn_ts = evs[a].ts
  /\ x.exit_ts = IF evs[b].kind = "exit" THEN evs[b].ts ELSE NoExit
  /\ x.observed <=> evs[a].kind = "spawn"
  /\ x.parent = evs[a].parent /\ x.id = evs[a].id
  /\ x.ids = {evs[m].id : m \in a..b}

(* The last of the first n events that goes into the k-th instance.         *)
Till(f, L, n, k) == IF k = Len(L) THEN n ELSE f[k + 1] - 1

(* L is cut out of the first n events, at the places f that open one.       *)
Cut(f, L, evs, n) ==
  /\ f \in [1..Len(L) -> 1..n]
  /\ \A k \in 1..Len(L) : /\ Opens(evs, f[k])
                          /\ f[k] <= Till(f, L, n, k)
                          /\ Made(L[k], evs, f[k], Till(f, L, n, k))
  /\ \A j, k \in 1..Len(L) : j < k => f[j] < f[k]
  /\ \A m \in 1..n : Opens(evs, m) => \E k \in 1..Len(L) : f[k] = m

NewInstance(e) ==
  [pid |-> e.pid, ppid |-> e.ppid, spawn_ts |-> e.ts,
   exit_ts |-> IF e.kind = "exit" THEN e.ts ELSE NoExit,
   observed |-> e.kind = "spawn", parent |-> e.parent, id |-> e.id, ids |-> {e.id}]

Extended(i, e) == [i EXCEPT !.exit_ts = IF e.kind = "exit" THEN e.ts ELSE @, !.ids = @ \cup {e.id}]

LEMMA NewIsMade ==
  ASSUME NEW n \in Nat, NEW evs \in [1..n -> Event], NEW m \in 1..n
  PROVE  Made(NewInstance(evs[m]), evs, m, m)
<1> DEFINE e == evs[m]
           x == NewInstance(e)
<1>1. e \in Event
  OBVIOUS
<1>2. e.pid \in Nat /\ e.ppid \in Nat /\ e.ts \in Nat /\ e.parent \in Nat /\ e.id \in Nat
  BY <1>1 DEF Event
<1>3. (IF e.kind = "exit" THEN e.ts ELSE NoExit) \in Int
  BY <1>2 DEF NoExit
<1>4. (e.kind = "spawn") \in BOOLEAN
  OBVIOUS
<1>5. x \in Instance
  <2> HIDE DEF e
  <2>q. QED BY <1>2, <1>3, <1>4 DEF NewInstance, Instance
<1>6. /\ x.pid = e.pid /\ x.ppid = e.ppid /\ x.spawn_ts = e.ts
      /\ x.exit_ts = IF e.kind = "exit" THEN e.ts ELSE NoExit
      /\ x.parent = e.parent /\ x.id = e.id /\ x.ids = {e.id}
  <2> HIDE DEF e
  <2>q. QED BY DEF NewInstance
<1>7. x.observed <=> e.kind = "spawn"
  <2> HIDE DEF e
  <2>1. x.observed = (e.kind = "spawn")
    BY Zenon DEF NewInstance
  <2>q. QED BY <2>1, Zenon
<1>8. {evs[k].id : k \in m..m} = {e.id}
  <2>1. m..m = {m}
    OBVIOUS
  <2>q. QED BY <2>1
<1> HIDE DEF x
<1>9. Made(x, evs, m, m)
  BY <1>5, <1>6, <1>7, <1>8 DEF Made
<1>q. QED BY <1>9 DEF x

LEMMA ExtendedIsMade ==
  ASSUME NEW n \in Nat, NEW evs \in [1..n -> Event], NEW a \in 1..n, NEW b \in 1..n,
         a <= b, b + 1 \in 1..n, evs[b].kind # "exit",
         NEW i, Made(i, evs, a, b)
  PROVE  Made(Extended(i, evs[b + 1]), evs, a, b + 1)
<1> DEFINE e == evs[b + 1]
           x == Extended(i, e)
<1>1. e \in Event
  OBVIOUS
<1>2. e.ts \in Nat /\ e.id \in Nat
  BY <1>1 DEF Event
<1>3. i \in Instance /\ i.exit_ts = NoExit /\ i.ids = {evs[m].id : m \in a..b}
  BY DEF Made
<1>4. i.ids \subseteq Nat
  BY <1>3 DEF Instance
<1>5. /\ x.exit_ts = (IF e.kind = "exit" THEN e.ts ELSE NoExit) /\ x.ids = i.ids \cup {e.id}
      /\ x.pid = i.pid /\ x.ppid = i.ppid /\ x.spawn_ts = i.spawn_ts
      /\ x.parent = i.parent /\ x.id = i.id
  <2> HIDE DEF e
  <2>q. QED BY <1>3 DEF Extended, Instance
<1>6. x.observed = i.observed
  <2> HIDE DEF e
  <2>q. QED BY <1>3 DEF Extended, Instance
<1>7. (IF e.kind = "exit" THEN e.ts ELSE NoExit) \in Int /\ i.ids \cup {e.id} \in SUBSET Nat
  BY <1>2, <1>4 DEF NoExit
<1>8. x \in Instance
  <2> DEFINE y == IF e.kind = "exit" THEN e.ts ELSE NoExit
             z == i.ids \cup {e.id}
  <2>1. x = [i EXCEPT !.exit_ts = y, !.ids = z]
    <3> HIDE DEF e
    <3>q. QED BY <1>3 DEF Extended, Instance
  <2>2. y \in Int /\ z \in SUBSET Nat
    BY <1>7
  <2> HIDE DEF x, y, z
  <2>q. QED BY <1>3, <2>1, <2>2 DEF Instance
<1>9. {evs[m].id : m \in a..(b + 1)} = {evs[m].id : m \in a..b} \cup {e.id}
  <2>1. a..(b + 1) = (a..b) \cup {b + 1}
    OBVIOUS
  <2> HIDE DEF e
  <2>2. {evs[m].id : m \in a..(b + 1)} = {evs[m].id : m \in a..b} \cup {evs[b + 1].id}
    BY <2>1
  <2>q. QED BY <2>2 DEF e
<1>10. i.observed <=> evs[a].kind = "spawn"
  BY DEF Made
<1>11. /\ i.pid = evs[a].pid /\ i.ppid = evs[a].ppid /\ i.spawn_ts = evs[a].ts
       /\ i.parent = evs[a].parent /\ i.id = evs[a].id
  BY DEF Made
<1>12. x.observed <=> evs[a].kind = "spawn"
  BY <1>6, <1>10, Zenon
<1> HIDE DEF x
<1>13. Made(x, evs, a, b + 1)
  BY <1>3, <1>5, <1>8, <1>9, <1>11, <1>12 DEF Made
<1>q. QED BY <1>13 DEF x
(* The function that Segment computes.                                      *)
LEMMA SegmentRecursion ==
  ASSUME NEW evs \in Seq(Event)
  PROVE  \E seg : /\ seg \in [0..Len(evs) -> Seq(Instance)] /\ seg[0] = <<>>
                  /\ \A n \in 1..Len(evs) :
                       seg[n] = IF Opens(evs, n) THEN Append(seg[n - 1], NewInstance(evs[n]))
                                ELSE [seg[n - 1] EXCEPT ![Len(seg[n - 1])] = Extended(@, evs[n])]
                  /\ Segment(evs) = seg[Len(evs)]
<1> DEFINE N == Len(evs)
           Q == Seq(Instance)
           Step(n, s) == IF Opens(evs, n) THEN Append(s, NewInstance(evs[n]))
                         ELSE [s EXCEPT ![Len(s)] = Extended(@, evs[n])]
           Def(f) == [n \in 0..N |-> IF n = 0 THEN <<>> ELSE Step(n, f[n - 1])]
           Move == [n \in 1..N |-> [s \in Q |-> Step(n, s)]]
           seg == CHOOSE f : f = Def(f)
<1>0. N \in Nat /\ <<>> \in Q /\ evs \in [1..N -> Event]
  BY LenProperties
<1>1. Segment(evs) = seg[N]
  BY DEF Segment, NewInstance, Extended
<1>2. ASSUME NEW n \in 1..N, NEW s \in Q PROVE Step(n, s) \in Q
  <2>0. evs[n] \in Event
    BY <1>0
  <2>1. NewInstance(evs[n]) \in Instance
    <3> HIDE DEF N
    <3>q. QED BY <1>0, NewIsMade DEF Made
  <2>2. Append(s, NewInstance(evs[n])) \in Q
    <3> DEFINE x == NewInstance(evs[n])
    <3> HIDE DEF x
    <3>1. x \in Instance
      BY <2>1 DEF x
    <3>2. Append(s, x) \in Q
      BY <3>1, AppendProperties
    <3>q. QED BY <3>2 DEF x
  <2>3. [s EXCEPT ![Len(s)] = Extended(@, evs[n])] \in Q
    <3> DEFINE k == Len(s)
               J == 1..k
    <3>1. k \in Nat /\ s \in [J -> Instance] /\ DOMAIN s = J
      BY LenProperties
    <3>2. CASE k = 0
      <4>1. k \notin DOMAIN s
        BY <3>1, <3>2
      <4>2. [s EXCEPT ![k] = Extended(@, evs[n])] = s
        <5> HIDE DEF k, J
        <5>q. QED BY <3>1, <4>1
      <4>q. QED BY <4>2
    <3>3. CASE k # 0
      <4>1. k \in J /\ s[k] \in Instance
        BY <3>1, <3>3
      <4>2. Extended(s[k], evs[n]) \in Instance
        <5> DEFINE i == s[k]
                   e == evs[n]
                   y == IF e.kind = "exit" THEN e.ts ELSE i.exit_ts
                   z == i.ids \cup {e.id}
        <5>1. i \in Instance /\ e \in Event
          BY <2>0, <4>1
        <5> HIDE DEF i, e
        <5>2. i.exit_ts \in Int /\ i.ids \subseteq Nat /\ e.ts \in Nat /\ e.id \in Nat
          BY <5>1 DEF Instance, Event
        <5>3. y \in Int /\ z \in SUBSET Nat
          BY <5>2
        <5>4. Extended(i, e) = [i EXCEPT !.exit_ts = y, !.ids = z]
          BY <5>1 DEF Extended, Instance
        <5> HIDE DEF y, z
        <5>5. Extended(i, e) \in Instance
          BY <5>1, <5>3, <5>4 DEF Instance
        <5>q. QED BY <5>5 DEF i, e
      <4> DEFINE v == Extended(s[k], evs[n])
                 t == [s EXCEPT ![k] = v]
      <4>3. [s EXCEPT ![k] = Extended(@, evs[n])] = t
        <5> HIDE DEF k, J
        <5>q. QED BY <3>1, <4>1
      <4>4. t \in [J -> Instance]
        <5> HIDE DEF v, k, J
        <5>1. v \in Instance
          BY <4>2 DEF v
        <5>q. QED BY <3>1, <5>1
      <4>5. t \in Q
        <5> HIDE DEF t, k
        <5>q. QED BY <3>1, <4>4 DEF J
      <4>q. QED BY <4>3, <4>5
    <3>q. QED BY <3>2, <3>3
  <2>q. QED BY <2>2, <2>3
<1> HIDE DEF Step
<1>3. Move \in [1..N -> [Q -> Q]]
  <2> HIDE DEF Q, N
  <2>q. QED BY <1>2
<1>4. PICK f : Solves(f, Q, N, <<>>, Move)
  <2> DEFINE e0 == <<>>
  <2>1. e0 \in Q
    BY <1>0
  <2>2. \E f : Solves(f, Q, N, e0, Move)
    <3> HIDE DEF Q, N, Move, e0
    <3>q. QED BY <1>0, <1>3, <2>1, RecursionExists
  <2>q. QED BY <2>2
<1>5. f = Def(f)
  <2>1. f = [n \in 0..N |-> f[n]] /\ f[0] = <<>>
    BY <1>4 DEF Solves
  <2>2. ASSUME NEW n \in 1..N PROVE f[n] = Step(n, f[n - 1])
    <3>1. f[n - 1] \in Q /\ f[n] = Move[n][f[n - 1]]
      <4>1. f \in [0..N -> Q] /\ \A j \in 1..N : f[j] = Move[j][f[j - 1]]
        <5> HIDE DEF Q, Move, N
        <5>q. QED BY <1>4 DEF Solves
      <4> HIDE DEF Q, Move, N
      <4>2. n - 1 \in 0..N
        BY <1>0
      <4>q. QED BY <4>1, <4>2
    <3> HIDE DEF Q
    <3>q. QED BY <3>1
  <2>3. ASSUME NEW n \in 0..N PROVE f[n] = IF n = 0 THEN <<>> ELSE Step(n, f[n - 1])
    <3>1. n = 0 \/ n \in 1..N
      BY <1>0
    <3> HIDE DEF Q
    <3>q. QED BY <3>1, <2>1, <2>2
  <2>q. QED BY <2>1, <2>3, Zenon
<1>6. seg = Def(seg)
  <2> HIDE DEF Def
  <2>q. QED BY <1>5
<1>7. /\ seg = [n \in 0..N |-> seg[n]] /\ seg[0] = <<>>
      /\ \A n \in 1..N : seg[n] = Step(n, seg[n - 1])
  <2> HIDE DEF seg
  <2>1. /\ seg = [n \in 0..N |-> seg[n]]
        /\ \A n \in 0..N : seg[n] = IF n = 0 THEN <<>> ELSE Step(n, seg[n - 1])
    BY <1>6, Zenon
  <2>2. 0 \in 0..N /\ \A n \in 1..N : n \in 0..N /\ n # 0
    BY <1>0
  <2>q. QED BY <2>1, <2>2, Zenon
<1>8. \A n \in 0..N : seg[n] \in Q
  <2> DEFINE T == {n \in Nat : n <= N => seg[n] \in Q}
  <2> HIDE DEF seg
  <2>1. 0 \in T
    BY <1>7, <1>0
  <2>2. ASSUME NEW n \in Nat, n \in T PROVE n + 1 \in T
    <3> SUFFICES ASSUME n + 1 <= N PROVE seg[n + 1] \in Q
      OBVIOUS
    <3>1. seg[n] \in Q /\ n + 1 \in 1..N /\ (n + 1) - 1 = n
      BY <2>2, <1>0
    <3>2. seg[n + 1] = Step(n + 1, seg[n])
      BY <1>7, <3>1
    <3> HIDE DEF Q, N
    <3>q. QED BY <1>2, <3>1, <3>2
  <2>3. Nat \subseteq T
    <3> HIDE DEF T
    <3>q. QED BY <2>1, <2>2, InductionOverNat
  <2>q. QED BY <2>3, <1>0
<1>9. seg \in [0..N -> Q]
  <2> HIDE DEF seg, Q
  <2>q. QED BY <1>7, <1>8
<1>q. QED
  <2> HIDE DEF seg
  <2>q. QED BY <1>1, <1>7, <1>9 DEF Step

(* Segment cuts the list of a pid's events where one of them opens an       *)
(* instance, and nowhere else.                                              *)
LEMMA SegmentProperties ==
  ASSUME NEW evs \in Seq(Event)
  PROVE  Segment(evs) \in Seq(Instance) /\ \E f : Cut(f, Segment(evs), evs, Len(evs))
<1> DEFINE N == Len(evs)
<1>1. PICK seg : /\ seg \in [0..N -> Seq(Instance)] /\ seg[0] = <<>>
                 /\ \A n \in 1..N :
                       seg[n] = IF Opens(evs, n) THEN Append(seg[n - 1], NewInstance(evs[n]))
                                ELSE [seg[n - 1] EXCEPT ![Len(seg[n - 1])] = Extended(@, evs[n])]
                 /\ Segment(evs) = seg[N]
  BY SegmentRecursion
<1>2. N \in Nat /\ evs \in [1..N -> Event]
  BY LenProperties
<1> HIDE DEF N
<1> DEFINE T == {n \in Nat : n <= N => \E f : Cut(f, seg[n], evs, n)}
<1>3. 0 \in T
  <2>1. Len(seg[0]) = 0 /\ 1..0 = {}
    BY <1>1
  <2>2. Cut([k \in 1..0 |-> 0], seg[0], evs, 0)
    BY <2>1 DEF Cut
  <2>q. QED BY <2>2
<1>4. ASSUME NEW n \in Nat, n \in T PROVE n + 1 \in T
  <2> SUFFICES ASSUME n + 1 <= N PROVE \E f : Cut(f, seg[n + 1], evs, n + 1)
    OBVIOUS
  <2>0. n <= N /\ n \in 0..N /\ n + 1 \in 1..N /\ (n + 1) - 1 = n
    BY <1>2
  <2>1. PICK f : Cut(f, seg[n], evs, n)
    BY <1>4, <2>0
  <2> DEFINE L == seg[n]
             M == seg[n + 1]
             k == Len(L)
  <2>2. L \in Seq(Instance) /\ k \in Nat /\ L \in [1..k -> Instance]
    BY <1>1, <2>0, LenProperties
  <2>3. /\ f \in [1..k -> 1..n]
        /\ \A j \in 1..k : /\ Opens(evs, f[j])
                           /\ f[j] <= Till(f, L, n, j)
                           /\ Made(L[j], evs, f[j], Till(f, L, n, j))
        /\ \A i, j \in 1..k : i < j => f[i] < f[j]
        /\ \A m \in 1..n : Opens(evs, m) => \E j \in 1..k : f[j] = m
    BY <2>1 DEF Cut
  <2>4. \A m \in 1..(n + 1) : m = n + 1 \/ m \in 1..n
    OBVIOUS
  <2>5. CASE Opens(evs, n + 1)
    <3> DEFINE x == NewInstance(evs[n + 1])
               g == [j \in 1..(k + 1) |-> IF j = k + 1 THEN n + 1 ELSE f[j]]
    <3>1. M = Append(L, x)
      BY <1>1, <2>0, <2>5
    <3>2. x \in Instance /\ Made(x, evs, n + 1, n + 1)
      <4>1. Made(x, evs, n + 1, n + 1)
        BY <1>2, <2>0, NewIsMade
      <4>q. QED BY <4>1 DEF Made
    <3>3. /\ M \in Seq(Instance) /\ Len(M) = k + 1 /\ M[k + 1] = x /\ \A j \in 1..k : M[j] = L[j]
      <4> HIDE DEF x, L, M
      <4>q. QED BY <2>2, <3>1, <3>2, AppendProperties
    <3>4. \A j \in 1..(k + 1) : j = k + 1 \/ (j \in 1..k /\ j # k + 1)
      <4> HIDE DEF k
      <4>q. QED BY <2>2
    <3>5. /\ \A j \in 1..k : j \in 1..(k + 1) /\ g[j] = f[j] /\ f[j] \in 1..n
          /\ k + 1 \in 1..(k + 1) /\ g[k + 1] = n + 1
      <4> HIDE DEF k, L
      <4>1. \A j \in 1..k : j \in 1..(k + 1) /\ j # k + 1
        BY <2>2
      <4>2. k + 1 \in 1..(k + 1)
        BY <2>2
      <4>q. QED BY <2>3, <4>1, <4>2
    <3>6. g \in [1..(k + 1) -> 1..(n + 1)]
      <4>1. \A j \in 1..(k + 1) : (IF j = k + 1 THEN n + 1 ELSE f[j]) \in 1..(n + 1)
        <5> HIDE DEF k, L
        <5>q. QED BY <2>3, <3>4
      <4>q. QED BY <4>1
    <3> HIDE DEF g, x, M
    <3>7. Till(g, M, n + 1, k + 1) = n + 1
      BY <3>3 DEF Till
    <3>8. \A j \in 1..k : Till(g, M, n + 1, j) = Till(f, L, n, j)
      <4> SUFFICES ASSUME NEW j \in 1..k PROVE Till(g, M, n + 1, j) = Till(f, L, n, j)
        OBVIOUS
      <4> HIDE DEF L
      <4>1. j # k + 1
        BY <2>2
      <4>2. CASE j = k
        <5>1. Till(f, L, n, k) = n
          BY DEF Till
        <5>2. Till(g, M, n + 1, k) = g[k + 1] - 1
          BY <3>3, <4>1, <4>2 DEF Till
        <5>3. g[k + 1] - 1 = n
          BY <3>5
        <5>q. QED BY <4>2, <5>1, <5>2, <5>3
      <4>3. CASE j # k
        <5>1. j + 1 \in 1..k
          <6> HIDE DEF k
          <6>q. QED BY <2>2, <4>3
        <5>q. QED BY <3>3, <3>5, <4>1, <4>3, <5>1 DEF Till
      <4>q. QED BY <4>2, <4>3
    <3>9. \A j \in 1..(k + 1) : /\ Opens(evs, g[j])
                                /\ g[j] <= Till(g, M, n + 1, j)
                                /\ Made(M[j], evs, g[j], Till(g, M, n + 1, j))
      <4> SUFFICES ASSUME NEW j \in 1..(k + 1)
                   PROVE  /\ Opens(evs, g[j])
                          /\ g[j] <= Till(g, M, n + 1, j)
                          /\ Made(M[j], evs, g[j], Till(g, M, n + 1, j))
        OBVIOUS
      <4>1. CASE j = k + 1
        BY <2>5, <3>2, <3>3, <3>5, <3>7, <4>1
      <4>2. CASE j \in 1..k
        BY <2>3, <3>3, <3>5, <3>8, <4>2
      <4>q. QED BY <3>4, <4>1, <4>2
    <3>10. \A i, j \in 1..(k + 1) : i < j => g[i] < g[j]
      <4> SUFFICES ASSUME NEW i \in 1..(k + 1), NEW j \in 1..(k + 1), i < j PROVE g[i] < g[j]
        OBVIOUS
      <4> HIDE DEF k, L
      <4>1. i \in 1..k
        BY <2>2
      <4>2. CASE j = k + 1
        BY <3>5, <4>1, <4>2
      <4>3. CASE j \in 1..k
        BY <2>3, <3>5, <4>1, <4>3
      <4>q. QED BY <3>4, <4>2, <4>3
    <3>11. \A m \in 1..(n + 1) : Opens(evs, m) => \E j \in 1..(k + 1) : g[j] = m
      <4> HIDE DEF k, L
      <4> SUFFICES ASSUME NEW m \in 1..(n + 1), Opens(evs, m) PROVE \E j \in 1..(k + 1) : g[j] = m
        OBVIOUS
      <4>1. CASE m = n + 1
        BY <3>5, <4>1
      <4>2. CASE m \in 1..n
        <5>1. PICK j \in 1..k : f[j] = m
          BY <2>3, <4>2
        <5>q. QED BY <3>5, <5>1
      <4>q. QED BY <2>4, <4>1, <4>2
    <3>12. Cut(g, M, evs, n + 1)
      <4> HIDE DEF k
      <4>q. QED BY <3>3, <3>6, <3>9, <3>10, <3>11 DEF Cut
    <3>q. QED BY <3>12 DEF M
  <2>6. CASE ~Opens(evs, n + 1)
    <3> DEFINE v == Extended(L[k], evs[n + 1])
    <3>1. M = [L EXCEPT ![k] = v]
      <4>1. M = [L EXCEPT ![k] = Extended(@, evs[n + 1])]
        BY <1>1, <2>0, <2>6
      <4>q. QED BY <4>1
    <3>2. n # 0 /\ evs[n].kind # "exit"
      <4>1. n + 1 # 1 /\ evs[(n + 1) - 1].kind # "exit"
        BY <2>6 DEF Opens
      <4>q. QED BY <2>0, <4>1
    <3>3. k \in 1..k
      <4>1. 1 \in 1..n /\ Opens(evs, 1)
        BY <3>2 DEF Opens
      <4>2. PICK j \in 1..k : f[j] = 1
        BY <2>3, <4>1
      <4> HIDE DEF k, L
      <4>q. QED BY <2>2, <4>2
    <3>4. Till(f, L, n, k) = n /\ f[k] \in 1..n /\ f[k] <= n /\ Made(L[k], evs, f[k], n)
      <4>1. Till(f, L, n, k) = n
        BY DEF Till
      <4> HIDE DEF k, L
      <4>q. QED BY <2>3, <3>3, <4>1
    <3>5. Made(v, evs, f[k], n + 1) /\ v \in Instance
      <4> DEFINE a == f[k]
                 i == L[k]
      <4>1. n \in 1..N /\ a \in 1..N /\ a <= n /\ Made(i, evs, a, n)
        BY <1>2, <2>0, <3>2, <3>4
      <4> HIDE DEF a, i
      <4>2. Made(Extended(i, evs[n + 1]), evs, a, n + 1)
        BY <1>2, <2>0, <3>2, <4>1, ExtendedIsMade
      <4>q. QED BY <4>2 DEF a, i, Made
    <3> HIDE DEF v
    <3>6. /\ M \in [1..k -> Instance] /\ M[k] = v /\ \A j \in 1..k : j # k => M[j] = L[j]
      <4> HIDE DEF L, M, k
      <4>q. QED BY <2>2, <3>1, <3>3, <3>5
    <3>7. Len(M) = k
      <4>1. DOMAIN M = 1..k
        BY <3>6
      <4>2. M \in Seq(Instance)
        BY <1>1, <2>0
      <4> HIDE DEF M, L
      <4>3. Len(M) \in Nat /\ DOMAIN M = 1..Len(M)
        BY <4>2, LenProperties
      <4> HIDE DEF k
      <4>q. QED BY <2>2, <4>1, <4>3
    <3> HIDE DEF M
    <3>8. /\ Till(f, M, n + 1, k) = n + 1
          /\ \A j \in 1..k : j # k => Till(f, M, n + 1, j) = Till(f, L, n, j)
      BY <3>7 DEF Till
    <3>9. \A j \in 1..k : /\ Opens(evs, f[j])
                          /\ f[j] <= Till(f, M, n + 1, j)
                          /\ Made(M[j], evs, f[j], Till(f, M, n + 1, j))
      <4> SUFFICES ASSUME NEW j \in 1..k
                   PROVE  /\ Opens(evs, f[j])
                          /\ f[j] <= Till(f, M, n + 1, j)
                          /\ Made(M[j], evs, f[j], Till(f, M, n + 1, j))
        OBVIOUS
      <4>1. CASE j = k
        <5>1. f[k] <= n + 1
          BY <3>4
        <5>q. QED BY <2>3, <3>3, <3>5, <3>6, <3>8, <4>1, <5>1
      <4>2. CASE j # k
        BY <2>3, <3>6, <3>8, <4>2
      <4>q. QED BY <4>1, <4>2
    <3>10. f \in [1..k -> 1..(n + 1)]
      <4>1. 1..n \subseteq 1..(n + 1)
        OBVIOUS
      <4> HIDE DEF k, L
      <4>q. QED BY <2>3, <4>1
    <3>11. \A m \in 1..(n + 1) : Opens(evs, m) => \E j \in 1..k : f[j] = m
      BY <2>3, <2>4, <2>6
    <3>12. Cut(f, M, evs, n + 1)
      <4> HIDE DEF k
      <4>q. QED BY <2>3, <3>7, <3>9, <3>10, <3>11 DEF Cut
    <3>q. QED BY <3>12 DEF M
  <2>q. QED BY <2>5, <2>6
<1>5. N \in T
  <2> HIDE DEF T
  <2>q. QED BY <1>2, <1>3, <1>4, InductionOverNat
<1>q. QED BY <1>1, <1>2, <1>5 DEF N
-----------------------------------------------------------------------------

(* The same of the whole list: event i opens an instance of its pid.        *)
OpensAt(E, i) ==
  \/ E[i].kind = "spawn"
  \/ \A m \in 1..(i - 1) :
       E[m].pid = E[i].pid => \/ E[m].kind = "exit"
                              \/ \E l \in (m + 1)..(i - 1) : E[l].pid = E[i].pid

(* The instances L of pid p are those from event o[k] to event t[k] each.   *)
Lifeline(o, t, L, E, p) ==
  /\ L \in Seq(Instance)
  /\ o \in [1..Len(L) -> DOMAIN E] /\ t \in [1..Len(L) -> DOMAIN E]
  /\ \A k \in 1..Len(L) :
       /\ o[k] <= t[k] /\ E[o[k]].pid = p /\ E[t[k]].pid = p /\ OpensAt(E, o[k])
       /\ L[k].pid = p /\ L[k].ppid = E[o[k]].ppid /\ L[k].spawn_ts = E[o[k]].ts
       /\ L[k].exit_ts = IF E[t[k]].kind = "exit" THEN E[t[k]].ts ELSE NoExit
       /\ L[k].observed <=> E[o[k]].kind = "spawn"
       /\ L[k].parent = E[o[k]].parent /\ L[k].id = E[o[k]].id
       /\ \A i \in o[k]..t[k] : E[i].pid = p => E[i].id \in L[k].ids
  /\ \A j, k \in 1..Len(L) : j < k => t[j] < o[k]
  /\ \A k \in 1..Len(L) : k > 1 => E[o[k]].kind = "spawn" \/ E[t[k - 1]].kind = "exit"
  /\ \A i \in DOMAIN E : E[i].pid = p => \E k \in 1..Len(L) : i \in o[k]..t[k]
  /\ \A i \in DOMAIN E : E[i].pid = p /\ OpensAt(E, i) => \E k \in 1..Len(L) : o[k] = i

LEMMA Lifelines ==
  ASSUME NEW E \in Seq(Event), InOrder(E), NEW p \in PidsOf(E)
  PROVE  \E o, t : Lifeline(o, t, Instances(E)[p], E, p)
<1> DEFINE N == Len(E)
           I == {i \in DOMAIN E : E[i].pid = p}
           evs == Keep(E, I)
           n == Len(evs)
           L == Segment(evs)
<1>1. Instances(E)[p] = L
  BY SortedAlready DEF Instances, OfPid
<1>2. N \in Nat /\ DOMAIN E = 1..N /\ E \in [1..N -> Event]
  BY LenProperties
<1>3. evs \in Seq(Event) /\ \E h : Places(h, evs, E, I, N)
  <2> HIDE DEF I
  <2>q. QED BY KeepProperties
<1>4. PICK h : Places(h, evs, E, I, N)
  BY <1>3
<1>5. n \in Nat /\ evs \in [1..n -> Event]
  <2> HIDE DEF evs
  <2>q. QED BY <1>3, LenProperties
<1>6. L \in Seq(Instance) /\ \E f : Cut(f, L, evs, n)
  <2> HIDE DEF evs
  <2>q. QED BY <1>3, SegmentProperties
<1>7. PICK f : Cut(f, L, evs, n)
  BY <1>6
<1>8. /\ \A i \in 1..n : h[i] \in DOMAIN E /\ E[h[i]].pid = p /\ evs[i] = E[h[i]]
      /\ \A i, j \in 1..n : i < j => h[i] < h[j]
      /\ \A m \in DOMAIN E : E[m].pid = p => \E i \in 1..n : h[i] = m
  <2>1. /\ h \in [1..n -> I \cap (1..N)]
        /\ \A i \in 1..n : evs[i] = E[h[i]]
        /\ \A i, j \in 1..n : i < j => h[i] < h[j]
        /\ \A m \in I \cap (1..N) : \E i \in 1..n : h[i] = m
    <3> HIDE DEF I, N
    <3>q. QED BY <1>4 DEF Places
  <2> HIDE DEF n, evs, N
  <2>q. QED BY <1>2, <2>1
<1> HIDE DEF evs, n
<1>9. \A i, j \in 1..n : (h[i] < h[j] => i < j) /\ (i <= j => h[i] <= h[j])
  <2> SUFFICES ASSUME NEW i \in 1..n, NEW j \in 1..n
               PROVE  (h[i] < h[j] => i < j) /\ (i <= j => h[i] <= h[j])
    OBVIOUS
  <2>1. h[i] \in Nat /\ h[j] \in Nat
    BY <1>2, <1>8
  <2>2. (i < j => h[i] < h[j]) /\ (j < i => h[j] < h[i])
    BY <1>8
  <2>q. QED BY <2>1, <2>2
<1>10. \A i \in 1..n : Opens(evs, i) <=> OpensAt(E, h[i])
  <2> SUFFICES ASSUME NEW i \in 1..n PROVE Opens(evs, i) <=> OpensAt(E, h[i])
    OBVIOUS
  <2>0. h[i] \in DOMAIN E /\ h[i] \in 1..N /\ evs[i] = E[h[i]] /\ E[h[i]].pid = p
    BY <1>2, <1>8
  <2>1. ASSUME Opens(evs, i) PROVE OpensAt(E, h[i])
    <3> SUFFICES ASSUME evs[i].kind # "spawn", NEW m \in 1..(h[i] - 1), E[m].pid = p,
                        E[m].kind # "exit"
                 PROVE  \E l \in (m + 1)..(h[i] - 1) : E[l].pid = p
      BY <2>0 DEF OpensAt
    <3>1. m \in DOMAIN E /\ m < h[i]
      BY <1>2, <2>0
    <3>2. PICK j \in 1..n : h[j] = m
      BY <1>8, <3>1
    <3>3. j < i
      BY <1>9, <3>1, <3>2
    <3>4. i # 1
      BY <1>5, <3>3
    <3>5. evs[i - 1].kind = "exit"
      BY <2>1, <3>4 DEF Opens
    <3>6. j # i - 1
      BY <1>8, <3>2, <3>5
    <3>7. i - 1 \in 1..n /\ j < i - 1 /\ i - 1 < i
      BY <1>5, <3>3, <3>4, <3>6
    <3>8. h[j] < h[i - 1] /\ h[i - 1] < h[i] /\ h[i - 1] \in DOMAIN E /\ E[h[i - 1]].pid = p
      BY <1>8, <3>7
    <3>9. h[i - 1] \in (m + 1)..(h[i] - 1)
      BY <1>2, <2>0, <3>2, <3>8
    <3>q. QED BY <3>8, <3>9
  <2>2. ASSUME OpensAt(E, h[i]) PROVE Opens(evs, i)
    <3> SUFFICES ASSUME i # 1, evs[i].kind # "spawn" PROVE evs[i - 1].kind = "exit"
      BY DEF Opens
    <3>1. i - 1 \in 1..n /\ i - 1 < i
      BY <1>5
    <3>2. h[i - 1] < h[i] /\ h[i - 1] \in DOMAIN E /\ E[h[i - 1]].pid = p /\ evs[i - 1] = E[h[i - 1]]
      BY <1>8, <3>1
    <3>3. h[i - 1] \in 1..(h[i] - 1)
      BY <1>2, <2>0, <3>2
    <3>4. ASSUME NEW l \in (h[i - 1] + 1)..(h[i] - 1), E[l].pid = p PROVE FALSE
      <4>1. l \in DOMAIN E /\ h[i - 1] < l /\ l < h[i]
        BY <1>2, <2>0, <3>2
      <4>2. PICK j \in 1..n : h[j] = l
        BY <1>8, <3>4, <4>1
      <4>3. i - 1 < j /\ j < i
        BY <1>9, <3>1, <4>1, <4>2
      <4>q. QED BY <1>5, <4>3
    <3>q. QED BY <2>0, <2>2, <3>2, <3>3, <3>4 DEF OpensAt
  <2>q. QED BY <2>1, <2>2
<1> HIDE DEF L
<1> DEFINE K == Len(L)
           T(k) == Till(f, L, n, k)
           o == [k \in 1..K |-> h[f[k]]]
           t == [k \in 1..K |-> h[T(k)]]
<1>11. /\ K \in Nat /\ f \in [1..K -> 1..n]
       /\ \A k \in 1..K : Opens(evs, f[k]) /\ f[k] <= T(k) /\ Made(L[k], evs, f[k], T(k))
       /\ \A j, k \in 1..K : j < k => f[j] < f[k]
       /\ \A m \in 1..n : Opens(evs, m) => \E k \in 1..K : f[k] = m
  <2>1. K \in Nat
    BY <1>6, LenProperties
  <2>q. QED BY <1>7, <2>1 DEF Cut
<1>12. /\ \A k \in 1..K : k # K => T(k) = f[k + 1] - 1 /\ k + 1 \in 1..K
       /\ T(K) = n
  <2>1. \A k \in 1..K : k # K => k + 1 \in 1..K
    <3> HIDE DEF K
    <3>q. QED BY <1>11
  <2>q. QED BY <2>1 DEF Till
<1> HIDE DEF K, T
<1>13. \A k \in 1..K : T(k) \in 1..n
  <2> SUFFICES ASSUME NEW k \in 1..K PROVE T(k) \in 1..n
    OBVIOUS
  <2>1. f[k] \in 1..n /\ f[k] <= T(k)
    BY <1>11
  <2>2. CASE k = K
    BY <1>5, <1>12, <2>1, <2>2
  <2>3. CASE k # K
    <3>1. T(k) = f[k + 1] - 1 /\ f[k + 1] \in 1..n
      BY <1>11, <1>12, <2>3
    <3>q. QED BY <1>5, <2>1, <3>1
  <2>q. QED BY <2>2, <2>3
<1>14. \A k \in 1..K : /\ o[k] = h[f[k]] /\ t[k] = h[T(k)] /\ f[k] \in 1..n /\ T(k) \in 1..n
                       /\ o[k] \in DOMAIN E /\ t[k] \in DOMAIN E
  BY <1>8, <1>11, <1>13
<1>15. o \in [1..K -> DOMAIN E] /\ t \in [1..K -> DOMAIN E]
  <2>1. \A k \in 1..K : h[f[k]] \in DOMAIN E /\ h[T(k)] \in DOMAIN E
    BY <1>14
  <2>q. QED BY <2>1
<1> HIDE DEF o, t
<1>16. ASSUME NEW k \in 1..K
       PROVE  /\ o[k] <= t[k] /\ E[o[k]].pid = p /\ E[t[k]].pid = p /\ OpensAt(E, o[k])
              /\ L[k].pid = p /\ L[k].ppid = E[o[k]].ppid /\ L[k].spawn_ts = E[o[k]].ts
              /\ L[k].exit_ts = IF E[t[k]].kind = "exit" THEN E[t[k]].ts ELSE NoExit
              /\ L[k].observed <=> E[o[k]].kind = "spawn"
              /\ L[k].parent = E[o[k]].parent /\ L[k].id = E[o[k]].id
              /\ \A i \in o[k]..t[k] : E[i].pid = p => E[i].id \in L[k].ids
  <2>1. /\ o[k] = h[f[k]] /\ t[k] = h[T(k)] /\ f[k] \in 1..n /\ T(k) \in 1..n
        /\ Opens(evs, f[k]) /\ f[k] <= T(k) /\ Made(L[k], evs, f[k], T(k))
    BY <1>11, <1>14
  <2>2. /\ evs[f[k]] = E[o[k]] /\ evs[T(k)] = E[t[k]]
        /\ E[o[k]].pid = p /\ E[t[k]].pid = p /\ o[k] <= t[k] /\ OpensAt(E, o[k])
    BY <1>8, <1>9, <1>10, <2>1
  <2>3. /\ L[k].pid = p /\ L[k].ppid = E[o[k]].ppid /\ L[k].spawn_ts = E[o[k]].ts
        /\ L[k].exit_ts = IF E[t[k]].kind = "exit" THEN E[t[k]].ts ELSE NoExit
        /\ L[k].parent = E[o[k]].parent /\ L[k].id = E[o[k]].id
    BY <2>1, <2>2 DEF Made
  <2>4. L[k].observed <=> E[o[k]].kind = "spawn"
    <3>1. L[k].observed <=> evs[f[k]].kind = "spawn"
      BY <2>1 DEF Made
    <3>q. QED BY <2>2, <3>1, Zenon
  <2>5. ASSUME NEW i \in o[k]..t[k], E[i].pid = p PROVE E[i].id \in L[k].ids
    <3>1. i \in DOMAIN E
      BY <1>2, <1>14
    <3>2. PICK m \in 1..n : h[m] = i
      BY <1>8, <2>5, <3>1
    <3>3. f[k] <= m /\ m <= T(k)
      <4>1. ~(m < f[k]) /\ ~(T(k) < m)
        <5>1. /\ m < f[k] => h[m] < h[f[k]]
              /\ T(k) < m => h[T(k)] < h[m]
          BY <1>8, <2>1
        <5>2. i \in Nat /\ h[f[k]] <= i /\ i <= h[T(k)] /\ h[f[k]] \in Nat /\ h[T(k)] \in Nat
          BY <1>2, <1>14, <2>1, <3>1
        <5>q. QED BY <3>2, <5>1, <5>2
      <4>q. QED BY <1>5, <2>1, <4>1
    <3>4. m \in f[k]..T(k) /\ evs[m].id = E[i].id
      BY <1>5, <1>8, <2>1, <3>2, <3>3
    <3>5. L[k].ids = {evs[j].id : j \in f[k]..T(k)}
      BY <2>1 DEF Made
    <3>q. QED BY <3>4, <3>5
  <2>q. QED BY <2>2, <2>3, <2>4, <2>5, Zenon
<1>17. \A j, k \in 1..K : j < k => t[j] < o[k]
  <2> SUFFICES ASSUME NEW j \in 1..K, NEW k \in 1..K, j < k PROVE t[j] < o[k]
    OBVIOUS
  <2>1. j # K
    BY <1>11
  <2>2. T(j) = f[j + 1] - 1 /\ j + 1 \in 1..K /\ j + 1 <= k
    BY <1>11, <1>12, <2>1
  <2>3. f[j + 1] <= f[k] /\ f[j + 1] \in 1..n /\ f[k] \in 1..n
    <3>1. j + 1 = k \/ j + 1 < k
      BY <2>2
    <3>2. f[j + 1] \in 1..n /\ f[k] \in 1..n
      BY <1>11, <2>2
    <3>3. CASE j + 1 = k
      BY <3>2, <3>3
    <3>4. CASE j + 1 < k
      <4>1. f[j + 1] < f[k]
        BY <1>11, <2>2, <3>4
      <4>q. QED BY <3>2, <4>1
    <3>q. QED BY <3>1, <3>3, <3>4
  <2>4. T(j) < f[k] /\ T(j) \in 1..n /\ f[k] \in 1..n
    BY <1>13, <2>2, <2>3
  <2>q. QED BY <1>8, <1>14, <2>4
<1>18. \A k \in 1..K : k > 1 => E[o[k]].kind = "spawn" \/ E[t[k - 1]].kind = "exit"
  <2> SUFFICES ASSUME NEW k \in 1..K, k > 1, E[o[k]].kind # "spawn"
               PROVE  E[t[k - 1]].kind = "exit"
    OBVIOUS
  <2>1. k - 1 \in 1..K /\ k - 1 # K /\ (k - 1) + 1 = k /\ k - 1 < k
    BY <1>11
  <2>2. T(k - 1) = f[k] - 1 /\ T(k - 1) \in 1..n /\ t[k - 1] = h[T(k - 1)]
    BY <1>12, <1>14, <2>1
  <2>3. f[k] # 1 /\ f[k] \in 1..n /\ o[k] = h[f[k]] /\ Opens(evs, f[k])
    BY <1>5, <1>11, <1>14, <2>2
  <2>4. evs[f[k] - 1].kind = "exit"
    <3>1. evs[f[k]].kind # "spawn"
      BY <1>8, <2>3
    <3>q. QED BY <2>3, <3>1 DEF Opens
  <2>q. QED BY <1>8, <2>2, <2>4
<1>19. \A i \in DOMAIN E : E[i].pid = p => \E k \in 1..K : i \in o[k]..t[k]
  <2> SUFFICES ASSUME NEW i \in DOMAIN E, E[i].pid = p PROVE \E k \in 1..K : i \in o[k]..t[k]
    OBVIOUS
  <2>1. PICK m \in 1..n : h[m] = i
    BY <1>8
  <2> DEFINE A == {k \in 1..K : f[k] <= m}
  <2>2. A \subseteq 1..K /\ A # {}
    <3>1. 1 \in 1..n /\ Opens(evs, 1)
      BY <1>5 DEF Opens
    <3>2. PICK k \in 1..K : f[k] = 1
      BY <1>11, <3>1
    <3>q. QED BY <1>5, <3>2
  <2>3. PICK k \in A : \A j \in A : j <= k
    <3> HIDE DEF A
    <3>q. QED BY <1>11, <2>2, Greatest
  <2>4. k \in 1..K /\ f[k] <= m
    BY <2>3
  <2>5. m <= T(k)
    <3>1. CASE k = K
      BY <1>5, <1>12, <3>1
    <3>2. CASE k # K
      <4>1. k + 1 \in 1..K /\ T(k) = f[k + 1] - 1 /\ f[k + 1] \in 1..n
        BY <1>11, <1>12, <2>4, <3>2
      <4>2. k + 1 \notin A
        BY <1>11, <2>3, <2>4
      <4>q. QED BY <4>1, <4>2
    <3>q. QED BY <3>1, <3>2
  <2>6. h[f[k]] <= h[m] /\ h[m] <= h[T(k)]
    BY <1>9, <1>14, <2>1, <2>4, <2>5
  <2>7. i \in o[k]..t[k]
    BY <1>2, <1>14, <2>1, <2>4, <2>6
  <2>q. QED BY <2>4, <2>7
<1>20. \A i \in DOMAIN E : E[i].pid = p /\ OpensAt(E, i) => \E k \in 1..K : o[k] = i
  <2> SUFFICES ASSUME NEW i \in DOMAIN E, E[i].pid = p, OpensAt(E, i)
               PROVE  \E k \in 1..K : o[k] = i
    OBVIOUS
  <2>1. PICK m \in 1..n : h[m] = i
    BY <1>8
  <2>2. PICK k \in 1..K : f[k] = m
    BY <1>10, <1>11, <2>1
  <2>q. QED BY <1>14, <2>1, <2>2
<1>21. Lifeline(o, t, L, E, p)
  BY <1>6, <1>15, <1>16, <1>17, <1>18, <1>19, <1>20 DEF Lifeline, K
<1>q. QED BY <1>1, <1>21
-----------------------------------------------------------------------------

(* What a lifeline says of the list of instances itself.                    *)
LEMMA LifelineOrder ==
  ASSUME NEW E \in Seq(Event), InOrder(E), NEW p \in PidsOf(E), NEW L, NEW o, NEW t,
         Lifeline(o, t, L, E, p)
  PROVE  /\ Len(L) \in Nat /\ Len(L) >= 1 /\ DOMAIN L = 1..Len(L)
         /\ \A k \in 1..Len(L) : /\ L[k] \in Instance /\ L[k].spawn_ts \in Nat
                                 /\ o[k] \in DOMAIN E /\ t[k] \in DOMAIN E
                                 /\ Key(L[k]) = <<p, L[k].spawn_ts>>
         /\ \A j, k \in 1..Len(L) : j <= k => o[j] <= o[k] /\ L[j].spawn_ts <= L[k].spawn_ts
         /\ \A j, k \in 1..Len(L) : j < k => o[j] < o[k]
<1> DEFINE K == Len(L)
<1>0. DOMAIN E = 1..Len(E) /\ Len(E) \in Nat
  BY LenProperties
<1>1. K \in Nat /\ DOMAIN L = 1..K /\ \A k \in 1..K : L[k] \in Instance
  <2>1. L \in Seq(Instance)
    BY DEF Lifeline
  <2>q. QED BY <2>1, LenProperties, ElementOfSeq
<1>2. /\ o \in [1..K -> DOMAIN E] /\ t \in [1..K -> DOMAIN E]
      /\ \A k \in 1..K : o[k] <= t[k] /\ L[k].pid = p /\ L[k].spawn_ts = E[o[k]].ts
      /\ \A j, k \in 1..K : j < k => t[j] < o[k]
      /\ \A i \in DOMAIN E : E[i].pid = p => \E k \in 1..K : i \in o[k]..t[k]
  BY DEF Lifeline
<1>3. PICK i \in DOMAIN E : E[i].pid = p
  BY DEF PidsOf
<1>4. K >= 1
  <2>1. PICK k \in 1..K : i \in o[k]..t[k]
    BY <1>2, <1>3
  <2> HIDE DEF K
  <2>q. QED BY <1>1, <2>1
<1> HIDE DEF K
<1>5. \A k \in 1..K : o[k] \in DOMAIN E /\ t[k] \in DOMAIN E
  BY <1>2
<1>6. \A j, k \in 1..K : j < k => o[j] < o[k]
  <2> SUFFICES ASSUME NEW j \in 1..K, NEW k \in 1..K, j < k PROVE o[j] < o[k]
    OBVIOUS
  <2>1. o[j] \in Nat /\ t[j] \in Nat /\ o[k] \in Nat
    BY <1>0, <1>5
  <2>2. o[j] <= t[j] /\ t[j] < o[k]
    BY <1>2
  <2>q. QED BY <2>1, <2>2
<1>7. \A k \in 1..K : L[k].spawn_ts \in Nat /\ Key(L[k]) = <<p, L[k].spawn_ts>>
  BY <1>1, <1>2 DEF Instance, Key
<1>8. \A j, k \in 1..K : j <= k => o[j] <= o[k] /\ L[j].spawn_ts <= L[k].spawn_ts
  <2> SUFFICES ASSUME NEW j \in 1..K, NEW k \in 1..K, j <= k
               PROVE  o[j] <= o[k] /\ L[j].spawn_ts <= L[k].spawn_ts
    OBVIOUS
  <2>0. o[j] \in Nat /\ o[k] \in Nat /\ L[j].spawn_ts \in Nat
    BY <1>0, <1>5, <1>7
  <2>1. CASE j = k
    BY <2>0, <2>1
  <2>2. CASE j # k
    <3>1. o[j] < o[k]
      BY <1>1, <1>6, <2>2
    <3>2. E[o[j]].ts <= E[o[k]].ts
      BY <1>5, <3>1 DEF InOrder
    <3>q. QED BY <1>2, <2>0, <3>1, <3>2
  <2>q. QED BY <2>1, <2>2
<1>q. QED BY <1>1, <1>4, <1>5, <1>6, <1>7, <1>8 DEF K

LEMMA GraphDomain ==
  ASSUME NEW E
  PROVE  DOMAIN Instances(E) = PidsOf(E)
BY DEF Instances

LEMMA InstancesAre ==
  ASSUME NEW E \in Seq(Event), InOrder(E)
  PROVE  \A x : x \in InstanceSet(Instances(E)) <=>
                  \E p \in PidsOf(E) : \E k \in 1..Len(Instances(E)[p]) : x = Instances(E)[p][k]
<1> DEFINE g == Instances(E)
           S(p) == {g[p][k] : k \in DOMAIN g[p]}
<1>1. \A p \in PidsOf(E) : DOMAIN g[p] = 1..Len(g[p])
  <2> SUFFICES ASSUME NEW p \in PidsOf(E) PROVE DOMAIN g[p] = 1..Len(g[p])
    OBVIOUS
  <2>1. PICK o, t : Lifeline(o, t, g[p], E, p)
    BY Lifelines
  <2>q. QED BY <2>1, LifelineOrder
<1>2. InstanceSet(g) = UNION {S(p) : p \in PidsOf(E)}
  BY GraphDomain DEF InstanceSet
<1>3. \A x : x \in InstanceSet(g) <=> \E p \in PidsOf(E) : x \in S(p)
  <2> HIDE DEF S, g
  <2>q. QED BY <1>2
<1>4. \A p \in PidsOf(E) : S(p) = {g[p][k] : k \in 1..Len(g[p])}
  BY <1>1
<1>5. \A p \in PidsOf(E) : \A x : x \in S(p) <=> \E k \in 1..Len(g[p]) : x = g[p][k]
  <2> HIDE DEF S, g
  <2>1. \A p \in PidsOf(E) : \A x : x \in {g[p][k] : k \in 1..Len(g[p])} <=> \E k \in 1..Len(g[p]) : x = g[p][k]
    OBVIOUS
  <2>q. QED BY <1>4, <2>1
<1> HIDE DEF S
<1>q. QED BY <1>3, <1>5

(* latest_instance is the last of the list, and its node shows it.          *)
LEMMA LatestIsLast ==
  ASSUME NEW E \in Seq(Event), InOrder(E), NEW p \in PidsOf(E)
  PROVE  LET L == Instances(E)[p]
         IN  /\ LatestInstance(Instances(E), p) = Key(L[Len(L)])
             /\ Node(Instances(E), Key(L[Len(L)])) = L[Len(L)]
<1> DEFINE g == Instances(E)
           L == g[p]
           K == Len(L)
<1>1. PICK o, t : Lifeline(o, t, L, E, p)
  BY Lifelines
<1>2. /\ K \in Nat /\ K >= 1 /\ DOMAIN L = 1..K
      /\ \A k \in 1..K : L[k].spawn_ts \in Nat /\ Key(L[k]) = <<p, L[k].spawn_ts>>
      /\ \A j, k \in 1..K : j <= k => L[j].spawn_ts <= L[k].spawn_ts
  <2> HIDE DEF L
  <2>q. QED BY <1>1, LifelineOrder
<1> DEFINE best(i) == i \in {L[n] : n \in DOMAIN L} /\ \A m \in DOMAIN L : L[m].spawn_ts <= i.spawn_ts
           x == CHOOSE i \in {L[n] : n \in DOMAIN L} : \A m \in DOMAIN L : L[m].spawn_ts <= i.spawn_ts
<1> HIDE DEF K
<1>3. K \in 1..K
  BY <1>2
<1>4. LatestInstance(g, p) = Key(x)
  BY DEF LatestInstance
<1>5. best(L[K])
  <2> HIDE DEF L
  <2>q. QED BY <1>2, <1>3
<1>6. best(x)
  <2> HIDE DEF L
  <2>q. QED BY <1>5
<1> HIDE DEF x
<1>7. Key(x) = Key(L[K])
  <2> HIDE DEF L
  <2>1. PICK n \in 1..K : x = L[n]
    BY <1>2, <1>6
  <2>2. L[K].spawn_ts <= L[n].spawn_ts /\ L[n].spawn_ts <= L[K].spawn_ts
    BY <1>2, <1>3, <1>6, <2>1
  <2>3. L[K].spawn_ts = L[n].spawn_ts
    BY <1>2, <1>3, <2>2
  <2>q. QED BY <1>2, <1>3, <2>1, <2>3
<1> DEFINE key == Key(L[K])
           is(m) == m \in DOMAIN L /\ Key(L[m]) = key /\ \A k \in DOMAIN L : Key(L[k]) = key => k <= m
           n == CHOOSE m \in DOMAIN L : Key(L[m]) = key /\ \A k \in DOMAIN L : Key(L[k]) = key => k <= m
<1>8. key[1] = p
  BY <1>2, <1>3
<1>9. Node(g, key) = L[n]
  <2>1. Node(g, key) = LET list == g[key[1]]
                           m == CHOOSE m \in DOMAIN list : /\ Key(list[m]) = key
                                      /\ \A k \in DOMAIN list : Key(list[k]) = key => k <= m
                       IN  list[m]
    BY DEF Node
  <2> HIDE DEF key, g
  <2>q. QED BY <1>8, <2>1
<1>10. is(K)
  <2> HIDE DEF L, key
  <2>1. Key(L[K]) = key
    BY DEF key
  <2>q. QED BY <1>2, <1>3, <2>1
<1>11. is(n)
  <2> HIDE DEF L, key
  <2>q. QED BY <1>10
<1> HIDE DEF n
<1>12. n = K
  <2> HIDE DEF L, key
  <2>1. n \in 1..K /\ K <= n
    BY <1>2, <1>10, <1>11
  <2>q. QED BY <1>2, <2>1
<1>q. QED BY <1>4, <1>7, <1>9, <1>12 DEF K

(* What a node stands for contains what any instance under its key does.    *)
LEMMA IdsOfInstance ==
  ASSUME NEW g, NEW i \in InstanceSet(g), NEW x \in i.ids
  PROVE  x \in IdsOf(g, Key(i))
BY DEF IdsOf

(* The key that the spawn rule proposes for child c as its parent.          *)
LEMMA ParentIs ==
  ASSUME NEW E \in Seq(Event), InOrder(E), NEW c \in Instance,
         c.ppid \in PidsOf(E), c.ppid # c.pid
  PROVE  LET L == Instances(E)[c.ppid]
             A == {k \in 1..Len(L) : L[k].spawn_ts <= c.spawn_ts}
         IN  /\ \A m \in A : (\A k \in A : k <= m) =>
                  ParentLiveAt(Instances(E), c) = <<c.ppid, L[m].spawn_ts>>
             /\ A = {} => ParentLiveAt(Instances(E), c) =
                            IF c.observed THEN NoKey ELSE <<c.ppid, L[1].spawn_ts>>
<1> DEFINE g == Instances(E)
           q == c.ppid
           L == g[q]
           A == {k \in 1..Len(L) : L[k].spawn_ts <= c.spawn_ts}
           all == Candidates(g, c)
           before == {x \in all : x.spawn_ts <= c.spawn_ts}
           latest == CHOOSE x \in before : \A y \in before : y.spawn_ts <= x.spawn_ts
           first == CHOOSE x \in all : \A y \in all : x.spawn_ts <= y.spawn_ts
<1>1. ParentLiveAt(g, c) = IF c.ppid = c.pid \/ all = {} THEN NoKey
                           ELSE IF before # {} THEN Key(latest)
                           ELSE IF c.observed THEN NoKey ELSE Key(first)
  BY DEF ParentLiveAt
<1>3. q \in PidsOf(E) /\ c.ppid # c.pid
  OBVIOUS
<1>4. PICK o, t : Lifeline(o, t, L, E, q)
  BY <1>3, Lifelines
<1>5. /\ Len(L) \in Nat /\ Len(L) >= 1 /\ DOMAIN L = 1..Len(L)
      /\ \A k \in 1..Len(L) : L[k].spawn_ts \in Nat /\ Key(L[k]) = <<q, L[k].spawn_ts>>
      /\ \A j, k \in 1..Len(L) : j <= k => L[j].spawn_ts <= L[k].spawn_ts
  <2> HIDE DEF L, q
  <2>q. QED BY <1>3, <1>4, LifelineOrder
<1>6. all = {L[k] : k \in 1..Len(L)}
  BY <1>3, <1>5, GraphDomain DEF Candidates
<1>7. c.spawn_ts \in Nat
  BY DEF Instance
<1>2. all # {}
  <2>1. 1 \in 1..Len(L)
    <3> HIDE DEF L
    <3>q. QED BY <1>5
  <2> HIDE DEF L, all
  <2>q. QED BY <1>6, <2>1
<1> HIDE DEF L, q, all, g
<1>8. \A x : x \in before <=> \E k \in A : x = L[k]
  BY <1>6
<1>9. ASSUME NEW m \in A, \A k \in A : k <= m
      PROVE  ParentLiveAt(g, c) = <<q, L[m].spawn_ts>>
  <2>0. m \in 1..Len(L) /\ L[m] \in before
    BY <1>8
  <2>1. \A y \in before : y.spawn_ts <= L[m].spawn_ts
    <3> SUFFICES ASSUME NEW y \in before PROVE y.spawn_ts <= L[m].spawn_ts
      OBVIOUS
    <3>1. PICK k \in A : y = L[k]
      BY <1>8
    <3> HIDE DEF before
    <3>q. QED BY <1>5, <1>9, <2>0, <3>1
  <2>2. latest \in before /\ \A y \in before : y.spawn_ts <= latest.spawn_ts
    <3> HIDE DEF before
    <3>q. QED BY <2>0, <2>1
  <2>3. PICK k \in A : latest = L[k]
    <3> HIDE DEF before, latest
    <3>q. QED BY <1>8, <2>2
  <2> HIDE DEF latest, before
  <2>4. L[k].spawn_ts <= L[m].spawn_ts /\ L[m].spawn_ts <= L[k].spawn_ts
    BY <2>0, <2>1, <2>2, <2>3
  <2>5. L[k].spawn_ts = L[m].spawn_ts /\ k \in 1..Len(L)
    BY <1>5, <2>0, <2>4
  <2>6. Key(latest) = <<q, L[m].spawn_ts>>
    BY <1>5, <2>3, <2>5
  <2>q. QED BY <1>1, <1>2, <1>3, <2>0, <2>6 DEF q
<1>10. ASSUME A = {}
       PROVE  ParentLiveAt(g, c) = IF c.observed THEN NoKey ELSE <<q, L[1].spawn_ts>>
  <2>1. before = {}
    BY <1>8, <1>10
  <2>2. ParentLiveAt(g, c) = IF c.observed THEN NoKey ELSE Key(first)
    <3> HIDE DEF before, first, latest
    <3>q. QED BY <1>1, <1>2, <1>3, <2>1 DEF q
  <2>3. 1 \in 1..Len(L) /\ L[1] \in all /\ \A y \in all : L[1].spawn_ts <= y.spawn_ts
    BY <1>5, <1>6
  <2>4. first \in all /\ \A y \in all : first.spawn_ts <= y.spawn_ts
    BY <2>3
  <2> HIDE DEF first
  <2>5. PICK k \in 1..Len(L) : first = L[k]
    BY <1>6, <2>4
  <2>6. L[k].spawn_ts = L[1].spawn_ts
    BY <1>5, <2>3, <2>4, <2>5
  <2>q. QED BY <1>5, <2>2, <2>5, <2>6
<1>q. QED BY <1>9, <1>10 DEF L, q, g

LEMMA HasParent ==
  ASSUME NEW E, NEW c, ParentLiveAt(Instances(E), c) # NoKey
  PROVE  c.ppid \in PidsOf(E) /\ c.ppid # c.pid
<1>1. c.ppid # c.pid /\ Candidates(Instances(E), c) # {}
  BY DEF ParentLiveAt
<1>2. c.ppid \in DOMAIN Instances(E)
  BY <1>1 DEF Candidates
<1>q. QED BY <1>1, <1>2, GraphDomain
-----------------------------------------------------------------------------

(* An instance as the views of two graphs compare it.                       *)
Like(x, y) ==
  x.pid = y.pid /\ x.ppid = y.ppid /\ x.spawn_ts = y.spawn_ts /\ (x.observed <=> y.observed)

(* The first n events make a beginning of every pid's instances: they are   *)
(* there in the whole graph too, and the others begin after these events.   *)
LEMMA FrontInstances ==
  ASSUME NEW E \in Seq(Event), InOrder(E), NEW n \in 0..Len(E), NEW T \in Nat,
         \A i \in 1..n : E[i].ts <= T, \A i \in (n + 1)..Len(E) : E[i].ts > T,
         NEW p \in PidsOf(Front(E, n))
  PROVE  LET M == Instances(Front(E, n))[p]
             L == Instances(E)[p]
         IN  /\ Front(E, n) \in Seq(Event) /\ InOrder(Front(E, n)) /\ p \in PidsOf(E)
             /\ \A k \in 1..Len(M) : M[k].spawn_ts <= T /\ \E j \in 1..Len(L) : Like(M[k], L[j])
             /\ \A j \in 1..Len(L) : L[j].spawn_ts <= T =>
                                       \E k \in 1..Len(M) : Like(M[k], L[j])
<1> DEFINE P == Front(E, n)
           M == Instances(P)[p]
           L == Instances(E)[p]
<1>1. /\ P \in Seq(Event) /\ Len(P) = n /\ DOMAIN P = 1..n /\ \A i \in 1..n : P[i] = E[i]
      /\ Len(E) \in Nat /\ DOMAIN E = 1..Len(E) /\ n \in Nat /\ n <= Len(E)
  BY FrontProperties, LenProperties
<1> HIDE DEF P
<1>2. InOrder(P)
  BY <1>1 DEF InOrder
<1>3. p \in PidsOf(E)
  <2>1. p \in PidsOf(P)
    BY DEF P
  <2>2. PICK i \in DOMAIN P : P[i].kind # "file" /\ P[i].pid = p
    BY <2>1 DEF PidsOf
  <2>3. i \in DOMAIN E /\ E[i] = P[i]
    BY <1>1
  <2>q. QED BY <2>2, <2>3 DEF PidsOf
<1>4. PICK o, t : Lifeline(o, t, L, E, p)
  BY <1>3, Lifelines
<1>5. PICK u, v : Lifeline(u, v, M, P, p)
  <2>1. p \in PidsOf(P)
    BY DEF P
  <2>q. QED BY <1>1, <1>2, <2>1, Lifelines
<1> HIDE DEF L, M
<1>6. \A i \in 1..n : OpensAt(E, i) <=> OpensAt(P, i)
  <2> SUFFICES ASSUME NEW i \in 1..n PROVE OpensAt(E, i) <=> OpensAt(P, i)
    OBVIOUS
  <2>1. E[i] = P[i] /\ \A m \in 1..(i - 1) : E[m] = P[m] /\ \A l \in (m + 1)..(i - 1) : E[l] = P[l]
    BY <1>1
  <2>q. QED BY <2>1 DEF OpensAt
<1>7. /\ \A k \in 1..Len(M) : /\ u[k] \in DOMAIN P /\ P[u[k]].pid = p /\ OpensAt(P, u[k])
                              /\ M[k].pid = p /\ M[k].ppid = P[u[k]].ppid
                              /\ M[k].spawn_ts = P[u[k]].ts
                              /\ M[k].observed <=> P[u[k]].kind = "spawn"
      /\ \A i \in DOMAIN P : P[i].pid = p /\ OpensAt(P, i) => \E k \in 1..Len(M) : u[k] = i
  BY <1>5 DEF Lifeline
<1>8. /\ \A k \in 1..Len(L) : /\ o[k] \in DOMAIN E /\ E[o[k]].pid = p /\ OpensAt(E, o[k])
                              /\ L[k].pid = p /\ L[k].ppid = E[o[k]].ppid
                              /\ L[k].spawn_ts = E[o[k]].ts
                              /\ L[k].observed <=> E[o[k]].kind = "spawn"
      /\ \A i \in DOMAIN E : E[i].pid = p /\ OpensAt(E, i) => \E k \in 1..Len(L) : o[k] = i
  BY <1>4 DEF Lifeline
<1>9. \A j \in 1..Len(L) : \A k \in 1..Len(M) : u[k] = o[j] => Like(M[k], L[j])
  <2> SUFFICES ASSUME NEW j \in 1..Len(L), NEW k \in 1..Len(M), u[k] = o[j]
               PROVE  Like(M[k], L[j])
    OBVIOUS
  <2>1. u[k] \in 1..n /\ P[u[k]] = E[o[j]]
    BY <1>1, <1>7
  <2>2. M[k].pid = L[j].pid /\ M[k].ppid = L[j].ppid /\ M[k].spawn_ts = L[j].spawn_ts
    <3>1. M[k].pid = p /\ M[k].ppid = P[u[k]].ppid /\ M[k].spawn_ts = P[u[k]].ts
      BY <1>7
    <3>2. L[j].pid = p /\ L[j].ppid = E[o[j]].ppid /\ L[j].spawn_ts = E[o[j]].ts
      BY <1>8
    <3>q. QED BY <2>1, <3>1, <3>2
  <2>3. M[k].observed <=> P[u[k]].kind = "spawn"
    BY <1>7
  <2>4. L[j].observed <=> E[o[j]].kind = "spawn"
    BY <1>8
  <2>5. M[k].observed <=> L[j].observed
    BY <2>1, <2>3, <2>4, Zenon
  <2>q. QED BY <2>2, <2>5 DEF Like
<1>10. ASSUME NEW k \in 1..Len(M)
       PROVE  M[k].spawn_ts <= T /\ \E j \in 1..Len(L) : Like(M[k], L[j])
  <2>1. u[k] \in 1..n /\ u[k] \in DOMAIN E /\ P[u[k]] = E[u[k]] /\ P[u[k]].pid = p /\ OpensAt(P, u[k])
        /\ M[k].spawn_ts = P[u[k]].ts
    BY <1>1, <1>7
  <2>2. PICK j \in 1..Len(L) : o[j] = u[k]
    BY <1>6, <1>8, <2>1
  <2>q. QED BY <1>9, <2>1, <2>2
<1>11. ASSUME NEW j \in 1..Len(L), L[j].spawn_ts <= T
       PROVE  \E k \in 1..Len(M) : Like(M[k], L[j])
  <2>1. o[j] \in 1..n
    <3>1. o[j] \in DOMAIN E /\ E[o[j]].ts <= T
      BY <1>8, <1>11
    <3>2. E[o[j]].ts \in Nat
      <4>1. E[o[j]] \in Event
        BY <3>1, <1>1, ElementOfSeq
      <4>q. QED BY <4>1 DEF Event
    <3>3. o[j] \notin (n + 1)..Len(E)
      BY <3>1, <3>2
    <3>q. QED BY <1>1, <3>1, <3>3
  <2>2. E[o[j]].pid = p /\ OpensAt(P, o[j]) /\ P[o[j]].pid = p /\ o[j] \in DOMAIN P
    BY <1>1, <1>6, <1>8, <2>1
  <2>3. PICK k \in 1..Len(M) : u[k] = o[j]
    BY <1>7, <2>2
  <2>q. QED BY <1>9, <2>3
<1>q. QED BY <1>1, <1>2, <1>3, <1>10, <1>11 DEF L, M, P

(* The whole graph proposes the parent that the beginning proposed.         *)
LEMMA FrontParent ==
  ASSUME NEW E \in Seq(Event), InOrder(E), NEW n \in 0..Len(E), NEW T \in Nat,
         \A i \in 1..n : E[i].ts <= T, \A i \in (n + 1)..Len(E) : E[i].ts > T,
         NEW c \in Instance, NEW d \in Instance, Like(c, d), c.spawn_ts <= T,
         ParentLiveAt(Instances(Front(E, n)), c) # NoKey
  PROVE  ParentLiveAt(Instances(E), d) = ParentLiveAt(Instances(Front(E, n)), c)
<1> DEFINE P == Front(E, n)
           q == c.ppid
           M == Instances(P)[q]
           L == Instances(E)[q]
           A == {k \in 1..Len(M) : M[k].spawn_ts <= c.spawn_ts}
           B == {k \in 1..Len(L) : L[k].spawn_ts <= d.spawn_ts}
<1>1. q \in PidsOf(P) /\ q # c.pid
  BY HasParent
<1>2. /\ P \in Seq(Event) /\ InOrder(P) /\ q \in PidsOf(E)
      /\ \A k \in 1..Len(M) : M[k].spawn_ts <= T /\ \E j \in 1..Len(L) : Like(M[k], L[j])
      /\ \A j \in 1..Len(L) : L[j].spawn_ts <= T => \E k \in 1..Len(M) : Like(M[k], L[j])
  BY <1>1, FrontInstances
<1>3. d.ppid = q /\ d.pid = c.pid /\ d.spawn_ts = c.spawn_ts
  BY DEF Like
<1>o. d.observed <=> c.observed
  BY DEF Like
<1>4. /\ \A m \in A : (\A k \in A : k <= m) => ParentLiveAt(Instances(P), c) = <<q, M[m].spawn_ts>>
      /\ A = {} => ParentLiveAt(Instances(P), c) =
                     IF c.observed THEN NoKey ELSE <<q, M[1].spawn_ts>>
  <2> HIDE DEF P
  <2>q. QED BY <1>1, <1>2, ParentIs
<1>5. /\ \A m \in B : (\A k \in B : k <= m) => ParentLiveAt(Instances(E), d) = <<q, L[m].spawn_ts>>
      /\ B = {} => ParentLiveAt(Instances(E), d) =
                     IF d.observed THEN NoKey ELSE <<q, L[1].spawn_ts>>
  <2>1. d.ppid \in PidsOf(E) /\ d.ppid # d.pid
    BY <1>1, <1>2, <1>3
  <2>2. LET K == Instances(E)[d.ppid]
            C == {k \in 1..Len(K) : K[k].spawn_ts <= d.spawn_ts}
        IN  /\ \A m \in C : (\A k \in C : k <= m) =>
                 ParentLiveAt(Instances(E), d) = <<d.ppid, K[m].spawn_ts>>
            /\ C = {} => ParentLiveAt(Instances(E), d) =
                           IF d.observed THEN NoKey ELSE <<d.ppid, K[1].spawn_ts>>
    BY <2>1, ParentIs
  <2>q. QED BY <1>3, <2>2
<1>6. PICK o, t : Lifeline(o, t, L, E, q)
  BY <1>2, Lifelines
<1>7. PICK u, v : Lifeline(u, v, M, P, q)
  <2> HIDE DEF P
  <2>q. QED BY <1>1, <1>2, Lifelines
<1>8. /\ Len(L) \in Nat /\ Len(L) >= 1 /\ \A k \in 1..Len(L) : L[k].spawn_ts \in Nat
      /\ \A j, k \in 1..Len(L) : j <= k => L[j].spawn_ts <= L[k].spawn_ts
  <2> HIDE DEF L, q
  <2>q. QED BY <1>2, <1>6, LifelineOrder
<1>9. /\ Len(M) \in Nat /\ Len(M) >= 1 /\ \A k \in 1..Len(M) : M[k].spawn_ts \in Nat
      /\ \A j, k \in 1..Len(M) : j <= k => M[j].spawn_ts <= M[k].spawn_ts
  <2> HIDE DEF M, q, P
  <2>q. QED BY <1>1, <1>2, <1>7, LifelineOrder
<1>10. c.spawn_ts \in Nat
  BY DEF Instance
<1> HIDE DEF P, q, L, M
<1>11. \A k \in 1..Len(M) : \E j \in 1..Len(L) : M[k].spawn_ts = L[j].spawn_ts
  BY <1>2 DEF Like
<1>12. \A j \in 1..Len(L) : L[j].spawn_ts <= T => \E k \in 1..Len(M) : M[k].spawn_ts = L[j].spawn_ts
  BY <1>2 DEF Like
<1>13. CASE A # {}
  <2>1. PICK m \in A : \A k \in A : k <= m
    <3>1. A \subseteq 1..Len(M)
      OBVIOUS
    <3> HIDE DEF A
    <3>q. QED BY <1>9, <1>13, <3>1, Greatest
  <2>2. PICK j0 \in 1..Len(L) : M[m].spawn_ts = L[j0].spawn_ts
    BY <1>11, <2>1
  <2>3. j0 \in B
    BY <1>3, <2>1, <2>2
  <2>4. PICK j \in B : \A k \in B : k <= j
    <3>1. B \subseteq 1..Len(L) /\ B # {}
      BY <2>3
    <3> HIDE DEF B
    <3>q. QED BY <1>8, <3>1, Greatest
  <2>5. L[j].spawn_ts <= c.spawn_ts /\ L[j].spawn_ts \in Nat /\ L[j].spawn_ts <= T /\ j \in 1..Len(L)
    BY <1>3, <1>8, <1>10, <2>4
  <2>6. PICK k \in 1..Len(M) : M[k].spawn_ts = L[j].spawn_ts
    BY <1>12, <2>5
  <2>7. k \in A /\ k <= m
    BY <2>1, <2>5, <2>6
  <2>8. M[k].spawn_ts <= M[m].spawn_ts
    BY <1>9, <2>1, <2>7
  <2>9. L[j0].spawn_ts <= L[j].spawn_ts
    BY <1>8, <2>3, <2>4
  <2>10. M[m].spawn_ts = L[j].spawn_ts
    <3> DEFINE a == M[m].spawn_ts
               b == L[j].spawn_ts
    <3>1. a \in Nat /\ b \in Nat
      BY <1>9, <2>1, <2>5
    <3>2. b <= a
      BY <2>6, <2>8
    <3>3. a <= b
      BY <2>2, <2>9
    <3> HIDE DEF a, b
    <3>4. a = b
      BY <3>1, <3>2, <3>3
    <3>q. QED BY <3>4 DEF a, b
  <2>11. ParentLiveAt(Instances(P), c) = <<q, M[m].spawn_ts>>
    <3> HIDE DEF A
    <3>q. QED BY <1>4, <2>1
  <2>12. ParentLiveAt(Instances(E), d) = <<q, L[j].spawn_ts>>
    <3> HIDE DEF B
    <3>q. QED BY <1>5, <2>4
  <2>q. QED BY <2>10, <2>11, <2>12 DEF P
<1>14. CASE A = {}
  <2>1. ~c.observed /\ ParentLiveAt(Instances(P), c) = <<q, M[1].spawn_ts>>
    <3>1. ParentLiveAt(Instances(P), c) # NoKey
      BY DEF P
    <3> HIDE DEF A
    <3>q. QED BY <1>4, <1>14, <3>1
  <2>2. B = {}
    <3> SUFFICES ASSUME NEW j \in B PROVE FALSE
      OBVIOUS
    <3>1. j \in 1..Len(L) /\ L[j].spawn_ts \in Nat /\ L[j].spawn_ts <= c.spawn_ts /\ L[j].spawn_ts <= T
      BY <1>3, <1>8, <1>10
    <3>2. PICK k \in 1..Len(M) : M[k].spawn_ts = L[j].spawn_ts
      BY <1>12, <3>1
    <3>q. QED BY <1>14, <3>1, <3>2
  <2>3. ParentLiveAt(Instances(E), d) = <<q, L[1].spawn_ts>>
    <3>1. ~d.observed
      BY <1>o, <2>1
    <3> HIDE DEF B
    <3>q. QED BY <1>5, <2>2, <3>1
  <2>4. L[1].spawn_ts = M[1].spawn_ts
    <3>1. 1 \in 1..Len(M) /\ 1 \in 1..Len(L)
      BY <1>8, <1>9
    <3>2. PICK j \in 1..Len(L) : M[1].spawn_ts = L[j].spawn_ts
      BY <1>11, <3>1
    <3>3. L[1].spawn_ts <= L[j].spawn_ts /\ M[1].spawn_ts <= T /\ M[1].spawn_ts \in Nat
          /\ L[1].spawn_ts \in Nat
      BY <1>2, <1>8, <1>9, <3>1
    <3>4. L[1].spawn_ts <= T
      BY <3>2, <3>3
    <3>5. PICK k \in 1..Len(M) : M[k].spawn_ts = L[1].spawn_ts
      BY <1>12, <3>1, <3>4
    <3>6. M[1].spawn_ts <= M[k].spawn_ts
      BY <1>9, <3>1
    <3>q. QED BY <3>2, <3>3, <3>5, <3>6
  <2>q. QED BY <2>1, <2>3, <2>4 DEF P
<1>q. QED BY <1>13, <1>14
LEMMA FrontInstance ==
  ASSUME NEW E \in Seq(Event), InOrder(E), NEW n \in 0..Len(E), NEW T \in Nat,
         \A i \in 1..n : E[i].ts <= T, \A i \in (n + 1)..Len(E) : E[i].ts > T,
         NEW c \in InstanceSet(Instances(Front(E, n)))
  PROVE  /\ c \in Instance /\ c.spawn_ts <= T
         /\ \E d \in InstanceSet(Instances(E)) : d \in Instance /\ Like(c, d) /\ Key(c) = Key(d)
<1> DEFINE P == Front(E, n)
<1>1. P \in Seq(Event) /\ InOrder(P)
  <2>1. /\ P \in Seq(Event) /\ DOMAIN P = 1..n /\ \A i \in 1..n : P[i] = E[i]
    BY FrontProperties
  <2>2. DOMAIN E = 1..Len(E) /\ Len(E) \in Nat
    BY LenProperties
  <2> HIDE DEF P
  <2>3. \A i \in 1..n : i \in DOMAIN E
    BY <2>2
  <2>q. QED BY <2>1, <2>3 DEF InOrder
<1>2. PICK p \in PidsOf(P) : \E k \in 1..Len(Instances(P)[p]) : c = Instances(P)[p][k]
  <2> DEFINE g == Instances(P)
  <2>1. \A x : x \in InstanceSet(g) <=>
                 \E p \in PidsOf(P) : \E k \in 1..Len(g[p]) : x = g[p][k]
    <3> HIDE DEF P
    <3>q. QED BY <1>1, InstancesAre
  <2>2. c \in InstanceSet(g)
    OBVIOUS
  <2> HIDE DEF g
  <2>3. \E p \in PidsOf(P) : \E k \in 1..Len(g[p]) : c = g[p][k]
    BY <2>1, <2>2
  <2>q. QED BY <2>3 DEF g
<1> DEFINE M == Instances(P)[p]
           L == Instances(E)[p]
<1>3. PICK k \in 1..Len(M) : c = M[k]
  BY <1>2
<1>4. /\ p \in PidsOf(E)
      /\ \A j \in 1..Len(M) : M[j].spawn_ts <= T /\ \E m \in 1..Len(L) : Like(M[j], L[m])
  BY FrontInstances
<1>5. PICK m \in 1..Len(L) : Like(M[k], L[m])
  BY <1>4
<1>6. \A j \in 1..Len(M) : M[j] \in Instance
  <2>1. PICK o, t : Lifeline(o, t, M, P, p)
    <3> HIDE DEF P
    <3>q. QED BY <1>1, Lifelines
  <2> HIDE DEF M, P
  <2>q. QED BY <1>1, <2>1, LifelineOrder
<1>7. \A j \in 1..Len(L) : L[j] \in Instance
  <2>1. PICK o, t : Lifeline(o, t, L, E, p)
    BY <1>4, Lifelines
  <2> HIDE DEF L
  <2>q. QED BY <1>4, <2>1, LifelineOrder
<1>8. L[m] \in InstanceSet(Instances(E))
  <2> DEFINE g == Instances(E)
  <2>1. \A x : x \in InstanceSet(g) <=>
                 \E r \in PidsOf(E) : \E j \in 1..Len(g[r]) : x = g[r][j]
    BY InstancesAre
  <2> HIDE DEF g
  <2>2. L = g[p]
    BY DEF g
  <2> HIDE DEF L
  <2>q. QED BY <1>4, <1>5, <2>1, <2>2 DEF g
<1> HIDE DEF L, M, P
<1>9. Key(c) = Key(L[m])
  BY <1>3, <1>5 DEF Like, Key
<1>q. QED BY <1>3, <1>4, <1>5, <1>6, <1>7, <1>8, <1>9

LEMMA FrontEdges ==
  ASSUME NEW E \in Seq(Event), InOrder(E), NEW n \in 0..Len(E), NEW T \in Nat,
         \A i \in 1..n : E[i].ts <= T, \A i \in (n + 1)..Len(E) : E[i].ts > T,
         NEW e \in SpawnEdges(Instances(Front(E, n)))
  PROVE  \E f \in SpawnEdges(Instances(E)) : Key(f.child) = Key(e.child) /\ f.parent = e.parent
<1> DEFINE gP == Instances(Front(E, n))
           gE == Instances(E)
<1>1. e.parent # NoKey /\ \E c \in InstanceSet(gP) : e = [child |-> c, parent |-> ParentLiveAt(gP, c)]
  <2> HIDE DEF gP
  <2>1. e \in SpawnEdges(gP)
    BY DEF gP
  <2>q. QED BY <2>1 DEF SpawnEdges
<1>2. PICK c \in InstanceSet(gP) : e = [child |-> c, parent |-> ParentLiveAt(gP, c)]
  BY <1>1
<1>3. c \in Instance /\ c.spawn_ts <= T
      /\ \E d \in InstanceSet(gE) : d \in Instance /\ Like(c, d) /\ Key(c) = Key(d)
  BY FrontInstance
<1>4. PICK d \in InstanceSet(gE) : d \in Instance /\ Like(c, d) /\ Key(c) = Key(d)
  BY <1>3
<1>5. e.child = c /\ e.parent = ParentLiveAt(gP, c)
  <2> HIDE DEF gP
  <2>q. QED BY <1>2
<1>6. ParentLiveAt(gE, d) = ParentLiveAt(gP, c)
  <2>1. /\ c \in Instance /\ d \in Instance /\ Like(c, d) /\ c.spawn_ts <= T
        /\ ParentLiveAt(gP, c) # NoKey
    BY <1>1, <1>3, <1>4, <1>5
  <2>q. QED BY <2>1, FrontParent
<1> DEFINE f == [child |-> d, parent |-> ParentLiveAt(gE, d)]
<1>7. f \in SpawnEdges(gE)
  <2> HIDE DEF gE, gP
  <2>1. f.parent # NoKey
    BY <1>1, <1>5, <1>6
  <2>q. QED BY <1>4, <2>1 DEF SpawnEdges
<1>8. Key(f.child) = Key(e.child) /\ f.parent = e.parent
  <2> HIDE DEF gE, gP
  <2>q. QED BY <1>4, <1>5, <1>6
<1> HIDE DEF f
<1>q. QED BY <1>7, <1>8

LEMMA FrontCauses ==
  ASSUME NEW E \in Seq(Event), InOrder(E), NEW n \in 0..Len(E), NEW T \in Nat,
         \A i \in 1..n : E[i].ts <= T, \A i \in (n + 1)..Len(E) : E[i].ts > T
  PROVE  Caused(Front(E, n), Instances(Front(E, n))) \subseteq Caused(E, Instances(E))
<1> DEFINE P == Front(E, n)
           gP == Instances(P)
           gE == Instances(E)
           Change(evs, s) == LatestChangeWithin(Changes(evs), s)
<1>0. /\ DOMAIN P = 1..n /\ \A i \in 1..n : P[i] = E[i]
      /\ DOMAIN E = 1..Len(E) /\ Len(E) \in Nat /\ n \in Nat /\ n <= Len(E)
      /\ \A i \in 1..Len(E) : E[i].ts \in Nat
  <2>1. \A i \in 1..Len(E) : E[i] \in Event
    BY ElementOfSeq
  <2>2. \A i \in 1..Len(E) : E[i].ts \in Nat
    BY <2>1 DEF Event
  <2>q. QED BY <2>2, FrontProperties, LenProperties
<1>1. ASSUME NEW s \in Nat, s <= T PROVE Change(P, s) = Change(E, s)
  <2> HIDE DEF P
  <2> DEFINE A == {t \in Changes(P) : t <= s /\ s - t <= Window}
             B == {t \in Changes(E) : t <= s /\ s - t <= Window}
  <2>1. ASSUME NEW t \in A PROVE t \in B
    <3>1. PICK i \in DOMAIN P : P[i].kind = "file" /\ t = P[i].ts
      BY DEF Changes
    <3>2. i \in DOMAIN E /\ E[i] = P[i]
      BY <1>0
    <3>q. QED BY <3>1, <3>2 DEF Changes
  <2>2. ASSUME NEW t \in B PROVE t \in A
    <3>1. PICK i \in DOMAIN E : E[i].kind = "file" /\ t = E[i].ts
      BY DEF Changes
    <3>2. i \notin (n + 1)..Len(E)
      BY <1>0, <1>1, <3>1
    <3>3. i \in DOMAIN P /\ P[i] = E[i]
      BY <1>0, <3>2
    <3>q. QED BY <3>1, <3>3 DEF Changes
  <2>3. A = B
    BY <2>1, <2>2
  <2>q. QED BY <2>3 DEF LatestChangeWithin
<1> HIDE DEF Change
<1> SUFFICES ASSUME NEW x \in Caused(P, gP) PROVE x \in Caused(E, gE)
  OBVIOUS
<1>2. PICK c \in InstanceSet(gP) :
        /\ Change(P, c.spawn_ts) # NoChange /\ x = Key(c)
        /\ c.spawn_ts - Change(P, c.spawn_ts) <= ConfidentDt
  <2> HIDE DEF P, gP
  <2>q. QED BY DEF Caused, FileEdges, Change
<1>3. c \in Instance /\ c.spawn_ts <= T
      /\ \E d \in InstanceSet(gE) : d \in Instance /\ Like(c, d) /\ Key(c) = Key(d)
  BY FrontInstance
<1>4. PICK d \in InstanceSet(gE) : d \in Instance /\ Like(c, d) /\ Key(c) = Key(d)
  BY <1>3
<1>5. c.spawn_ts \in Nat /\ d.spawn_ts = c.spawn_ts
  BY <1>3, <1>4 DEF Instance, Like
<1>6. Change(E, d.spawn_ts) = Change(P, c.spawn_ts)
  BY <1>1, <1>3, <1>5
<1> DEFINE e == [child |-> Key(d), dt |-> d.spawn_ts - Change(E, d.spawn_ts)]
<1>7. e \in FileEdges(E, gE)
  <2> HIDE DEF gE
  <2>1. Change(E, d.spawn_ts) # NoChange
    BY <1>2, <1>6
  <2>q. QED BY <1>4, <2>1 DEF FileEdges, Change
<1>8. e.child = x /\ e.dt <= ConfidentDt
  BY <1>2, <1>4, <1>5, <1>6
<1> HIDE DEF e, gE
<1>q. QED BY <1>7, <1>8 DEF Caused

-----------------------------------------------------------------------------
(* The past. *)

(* The slice up to a tick is a beginning of the list.                       *)
LEMMA AsOfIsFront ==
  ASSUME events \in Seq(Event), InOrder(events), NEW T \in Int
  PROVE  \E n \in 0..Len(events) : /\ AsOf(T) = Front(events, n)
                                   /\ \A i \in 1..n : events[i].ts <= T
                                   /\ \A i \in (n + 1)..Len(events) : events[i].ts > T
<1> DEFINE N == Len(events)
           A == {i \in DOMAIN events : events[i].ts <= T}
<1>1. N \in Nat /\ DOMAIN events = 1..N /\ \A i \in 1..N : events[i].ts \in Nat
  <2>1. \A i \in 1..N : events[i] \in Event
    BY ElementOfSeq
  <2>2. \A i \in 1..N : events[i].ts \in Nat
    BY <2>1 DEF Event
  <2>q. QED BY <2>2, LenProperties
<1> HIDE DEF N
<1>2. PICK n \in 0..N : A = 1..n
  <2>1. CASE A = {}
    <3>1. A = 1..0 /\ 0 \in 0..N
      BY <1>1, <2>1
    <3> HIDE DEF A
    <3>q. QED BY <3>1
  <2>2. CASE A # {}
    <3>1. PICK m \in A : \A k \in A : k <= m
      <4>1. A \subseteq 1..N
        BY <1>1
      <4> HIDE DEF A
      <4>q. QED BY <1>1, <2>2, <4>1, Greatest
    <3>2. m \in 1..N /\ events[m].ts <= T
      BY <1>1, <3>1
    <3>3. \A i \in 1..m : i \in A
      <4> SUFFICES ASSUME NEW i \in 1..m PROVE events[i].ts <= T /\ i \in DOMAIN events
        OBVIOUS
      <4>1. i \in 1..N /\ (i < m \/ i = m)
        BY <1>1, <3>2
      <4>2. i < m => events[i].ts <= events[m].ts
        BY <1>1, <3>2, <4>1 DEF InOrder
      <4>3. events[i].ts \in Nat /\ events[m].ts \in Nat
        BY <1>1, <3>2, <4>1
      <4>q. QED BY <1>1, <3>2, <4>1, <4>2, <4>3
    <3>4. A = 1..m
      <4>1. \A k \in A : k \in 1..m
        BY <1>1, <3>1
      <4> HIDE DEF A
      <4>q. QED BY <3>3, <4>1
    <3>q. QED BY <1>1, <3>2, <3>4
  <2>q. QED BY <2>1, <2>2
<1>3. n \in 0..Len(events) /\ n \in Nat /\ n <= N
  BY <1>1 DEF N
<1>4. AsOf(T) = Front(events, n)
  <2> DEFINE t == Front(events, n)
  <2>1. t \in Seq(Event) /\ Len(t) = n /\ \A i \in 1..n : t[i] = events[i]
    BY <1>3, FrontProperties
  <2>2. AsOf(T) = Keep(events, A)
    BY DEF AsOf
  <2> HIDE DEF t
  <2> HIDE DEF A
  <2>3. Len(t) <= Len(events) /\ \A i \in 1..Len(t) : t[i] = events[i]
    BY <1>3, <2>1 DEF N
  <2>4. A \cap (1..Len(events)) = A \cap (1..Len(t))
    BY <1>2, <1>3, <2>1 DEF N
  <2>5. Keep(events, A) = Keep(t, A)
    BY <2>1, <2>3, <2>4, KeepPrefix
  <2>6. 1..Len(t) \subseteq A
    BY <1>2, <2>1
  <2>7. Keep(t, A) = t
    BY <2>1, <2>6, KeepAll
  <2>q. QED BY <2>2, <2>5, <2>7 DEF t
<1>5. \A i \in 1..n : events[i].ts <= T
  BY <1>2
<1>6. \A i \in (n + 1)..Len(events) : events[i].ts > T
  <2> SUFFICES ASSUME NEW i \in (n + 1)..Len(events) PROVE events[i].ts > T
    OBVIOUS
  <2>1. i \in 1..N /\ i \in DOMAIN events /\ i \notin 1..n
    BY <1>1, <1>3 DEF N
  <2>2. i \notin A
    BY <1>2, <2>1
  <2>3. events[i].ts \in Nat
    BY <1>1, <2>1
  <2>q. QED BY <2>1, <2>2, <2>3
<1>q. QED BY <1>3, <1>4, <1>5, <1>6

LEMMA RewindHolds ==
  ASSUME events \in Seq(Event), InOrder(events), now \in Nat,
         \A i \in DOMAIN events : events[i].ts \in 1..now
  PROVE  RewindAgrees
<1>1. CASE now = 0
  <2>1. events = <<>>
    <3>1. Len(events) \in Nat /\ DOMAIN events = 1..Len(events)
      BY LenProperties
    <3>2. 1..now = {}
      BY <1>1
    <3>3. 1 \notin DOMAIN events
      BY <3>2
    <3>4. Len(events) = 0
      BY <3>1, <3>3
    <3>q. QED BY <3>4, EmptySeq
  <2>2. AsOf(now - 1) = <<>>
    <3> DEFINE T == now - 1
    <3>0. T \in Int
      OBVIOUS
    <3> HIDE DEF T
    <3>1. PICK n \in 0..Len(events) : AsOf(T) = Front(events, n)
      BY <3>0, AsOfIsFront
    <3>2. n = 0
      <4>1. Len(events) = 0
        BY <2>1
      <4>q. QED BY <4>1
    <3>3. Front(events, 0) = <<>>
      BY DEF Front
    <3>q. QED BY <3>1, <3>2, <3>3 DEF T
  <2>q. QED BY <2>1, <2>2 DEF RewindAgrees
<1>2. CASE now # 0
  <2> DEFINE T == now - 1
  <2>0. T \in Nat /\ T \in Int
    BY <1>2
  <2> HIDE DEF T
  <2>1. PICK n \in 0..Len(events) : /\ AsOf(T) = Front(events, n)
                                    /\ \A i \in 1..n : events[i].ts <= T
                                    /\ \A i \in (n + 1)..Len(events) : events[i].ts > T
    BY <2>0, AsOfIsFront
  <2> DEFINE P == Front(events, n)
             Spawns(g) == {<<Key(e.child), e.parent>> : e \in SpawnEdges(g)}
  <2>2. \A e \in SpawnEdges(Instances(P)) :
          \E f \in SpawnEdges(Instances(events)) : Key(f.child) = Key(e.child) /\ f.parent = e.parent
    BY <2>0, <2>1, FrontEdges
  <2>3. Caused(P, Instances(P)) \subseteq Caused(events, Instances(events))
    BY <2>0, <2>1, FrontCauses
  <2> HIDE DEF P
  <2>4. Spawns(Instances(P)) \subseteq Spawns(Instances(events))
    <3> SUFFICES ASSUME NEW e \in SpawnEdges(Instances(P))
                 PROVE  <<Key(e.child), e.parent>> \in Spawns(Instances(events))
      OBVIOUS
    <3>1. PICK f \in SpawnEdges(Instances(events)) : Key(f.child) = Key(e.child) /\ f.parent = e.parent
      BY <2>2
    <3>2. <<Key(f.child), f.parent>> = <<Key(e.child), e.parent>>
      BY <3>1
    <3>3. <<Key(f.child), f.parent>> \in Spawns(Instances(events))
      OBVIOUS
    <3>q. QED BY <3>2, <3>3
  <2>5. AsOf(now - 1) = P
    BY <2>1 DEF P, T
  <2>6. \A evs : /\ Shown(evs).spawns = Spawns(Instances(evs))
                 /\ Shown(evs).caused = Caused(evs, Instances(evs))
    BY DEF Shown
  <2> HIDE DEF Spawns
  <2>q. QED BY <2>3, <2>4, <2>5, <2>6 DEF RewindAgrees
<1>q. QED BY <1>1, <1>2

-----------------------------------------------------------------------------
(* The events a scan makes. *)

Process == [id : Nat, ppid : Pid \cup {Outside}]

LEMMA PidsAreNat ==
  /\ \A p \in Pid : p \in Nat /\ p # 0 /\ p # Outside /\ p \in 1..MaxPid
  /\ MaxPid \in Nat /\ Pid \subseteq 1..MaxPid /\ Busy \subseteq Pid
BY PollerAssumption DEF Outside

LEMMA EventOfFields ==
  ASSUME NEW kind \in {"spawn", "exit", "sample"}, NEW p \in Pid, NEW scan \in [Pid -> Process],
         NEW ts \in Nat
  PROVE  LET e == EventOf(kind, p, scan[p], ts, scan)
         IN  /\ e \in Event /\ e.kind = kind /\ e.pid = p /\ e.ts = ts
             /\ e.id = scan[p].id /\ e.ppid = scan[p].ppid
             /\ e.ppid \in Pid => e.parent = scan[e.ppid].id
<1> DEFINE x == scan[p]
           par == IF x.ppid = Outside THEN 0 ELSE scan[x.ppid].id
           e == EventOf(kind, p, x, ts, scan)
<1>1. x.id \in Nat /\ x.ppid \in Pid \cup {Outside}
  BY DEF Process
<1>2. x.ppid \in Nat /\ par \in Nat /\ (x.ppid \in Pid => par = scan[x.ppid].id)
  <2>1. CASE x.ppid = Outside
    <3>1. x.ppid \notin Pid /\ par = 0 /\ Outside \in Nat
      BY <2>1, PidsAreNat DEF Outside
    <3>q. QED BY <2>1, <3>1
  <2>2. CASE x.ppid \in Pid
    <3>1. scan[x.ppid].id \in Nat /\ x.ppid # Outside /\ x.ppid \in Nat
      BY <2>2, PidsAreNat DEF Process
    <3> HIDE DEF x
    <3>q. QED BY <3>1
  <2>q. QED BY <1>1, <2>1, <2>2
<1>3. p \in Nat
  BY PidsAreNat
<1>4. /\ e.kind = kind /\ e.pid = p /\ e.ts = ts /\ e.id = x.id /\ e.ppid = x.ppid /\ e.parent = par
      /\ e = [kind |-> kind, pid |-> p, ppid |-> x.ppid, ts |-> ts, id |-> x.id, parent |-> par]
  <2> HIDE DEF x
  <2>q. QED BY DEF EventOf
<1> HIDE DEF x, par, e
<1>5. e \in Event
  BY <1>1, <1>2, <1>3, <1>4 DEF Event
<1>6. e.ppid \in Pid => e.parent = scan[e.ppid].id
  BY <1>2, <1>4
<1>q. QED BY <1>4, <1>5, <1>6 DEF e, x

LEMMA SortedPids ==
  ASSUME NEW A, A \subseteq Pid
  PROVE  /\ Sorted(A) \in Seq(A) /\ Elements(Sorted(A)) = A /\ Distinct(Sorted(A))
         /\ Len(Sorted(A)) \in Nat /\ DOMAIN Sorted(A) = 1..Len(Sorted(A))
         /\ \A i \in 1..Len(Sorted(A)) : Sorted(A)[i] \in A
         /\ \A p \in A : \E i \in 1..Len(Sorted(A)) : Sorted(A)[i] = p
<1> DEFINE s == [n \in 1..MaxPid |-> n]
<1>1. s \in [1..MaxPid -> Nat] /\ MaxPid \in Nat /\ A \subseteq 1..MaxPid /\ Len(s) = MaxPid
  BY PidsAreNat
<1>2. s \in Seq(Nat)
  BY <1>1
<1>3. Distinct(s) /\ \A n \in 1..MaxPid : s[n] = n
  BY DEF Distinct
<1> HIDE DEF s
<1>4. /\ Keep(s, A) \in Seq(Nat) /\ Distinct(Keep(s, A))
      /\ Elements(Keep(s, A)) = {s[i] : i \in A \cap (1..Len(s))}
  BY <1>2, <1>3, KeepElements, KeepDistinct
<1>5. {s[i] : i \in A \cap (1..Len(s))} = A
  BY <1>1, <1>3
<1>6. Sorted(A) = Keep(s, A)
  BY DEF Sorted, s
<1> DEFINE t == Sorted(A)
<1>7. t \in Seq(Nat) /\ Distinct(t) /\ Elements(t) = A
  BY <1>4, <1>5, <1>6
<1> HIDE DEF t
<1>8. t \in Seq(A)
  BY <1>7, SeqOfElements
<1>9. Len(t) \in Nat /\ DOMAIN t = 1..Len(t)
  BY <1>7, LenProperties
<1>10. /\ \A i \in 1..Len(t) : t[i] \in A
       /\ \A p \in A : \E i \in 1..Len(t) : t[i] = p
  BY <1>7, <1>9 DEF Elements
<1>q. QED BY <1>7, <1>8, <1>9, <1>10 DEF t

Samples(new, scan, S, ts) ==
  /\ new \in Seq(Event)
  /\ \A i \in 1..Len(new) : /\ new[i].kind = "sample" /\ new[i].pid \in S /\ new[i].ts = ts
                            /\ new[i].id = scan[new[i].pid].id /\ new[i].id # 0

LEMMA SampleFacts ==
  ASSUME NEW scan \in [Pid -> Process], NEW S, S \subseteq {p \in Pid : scan[p].id # 0},
         NEW list \in Arrangements(S), NEW ts \in Nat
  PROVE  Samples(SampleEvents(scan, list, ts), scan, S, ts)
<1> DEFINE n == Cardinality(S)
           new == [i \in 1..n |-> EventOf("sample", list[i], scan[list[i]], ts, scan)]
<1>1. n \in Nat /\ DOMAIN list = 1..n /\ \A i \in 1..n : list[i] \in S
  <2>1. IsFiniteSet(1..MaxPid) /\ S \subseteq 1..MaxPid
    BY PidsAreNat, FS_Interval
  <2>2. n \in Nat
    BY <2>1, FS_Subset, FS_CardinalityType
  <2>q. QED BY <2>2 DEF Arrangements
<1>2. SampleEvents(scan, list, ts) = new
  BY <1>1 DEF SampleEvents
<1>3. ASSUME NEW i \in 1..n
      PROVE  /\ new[i] \in Event /\ new[i].kind = "sample" /\ new[i].pid \in S /\ new[i].ts = ts
             /\ new[i].id = scan[new[i].pid].id /\ new[i].id # 0
  <2> DEFINE p == list[i]
  <2>1. p \in S /\ p \in Pid /\ scan[p].id # 0
    BY <1>1
  <2>2. new[i] = EventOf("sample", p, scan[p], ts, scan)
    OBVIOUS
  <2> HIDE DEF p, new
  <2>q. QED BY <2>1, <2>2, EventOfFields
<1>4. new \in Seq(Event) /\ Len(new) = n
  <2>1. new \in [1..n -> Event]
    <3>1. \A i \in 1..n : EventOf("sample", list[i], scan[list[i]], ts, scan) \in Event
      BY <1>3
    <3> HIDE DEF n
    <3>q. QED BY <3>1
  <2> HIDE DEF n
  <2>q. QED BY <1>1, <2>1
<1> HIDE DEF new, n
<1>q. QED BY <1>2, <1>3, <1>4 DEF Samples

(* What the difference of two scans says of each process.                   *)
IsExit(e, old, cur, ts) ==
  /\ e.kind = "exit" /\ e.pid \in Pid /\ e.ts = ts
  /\ e.id = old[e.pid].id /\ e.id \notin {0, cur[e.pid].id}

IsSpawn(e, old, cur, ts) ==
  /\ e.kind = "spawn" /\ e.pid \in Pid /\ e.ts = ts
  /\ e.id = cur[e.pid].id /\ e.id \notin {0, old[e.pid].id}
  /\ e.ppid = cur[e.pid].ppid /\ (e.ppid \in Pid => e.parent = cur[e.ppid].id)

(* Of one pid nothing but an exit and then a spawn.                         *)
Differs(new, old, cur, ts) ==
  /\ new \in Seq(Event)
  /\ \A i \in 1..Len(new) : IsExit(new[i], old, cur, ts) \/ IsSpawn(new[i], old, cur, ts)
  /\ \A i, j \in 1..Len(new) :
       i < j /\ new[i].pid = new[j].pid => new[i].kind = "exit" /\ new[j].kind = "spawn"

AllOf(new, old, cur) ==
  \A p \in Pid :
    /\ old[p].id \notin {0, cur[p].id} =>
         \E i \in 1..Len(new) : new[i].kind = "exit" /\ new[i].pid = p
    /\ cur[p].id \notin {0, old[p].id} =>
         \E i \in 1..Len(new) : new[i].kind = "spawn" /\ new[i].pid = p

LEMMA DiffFacts ==
  ASSUME NEW old \in [Pid -> Process], NEW cur \in [Pid -> Process], NEW ts \in Nat
  PROVE  Differs(Diff(old, cur, ts), old, cur, ts) /\ AllOf(Diff(old, cur, ts), old, cur)
<1> DEFINE X(p) == EventOf("exit", p, old[p], ts, old)
           Y(p) == EventOf("spawn", p, cur[p], ts, cur)
           New(p) == IF cur[p].id \in {0, old[p].id} THEN <<>>
                     ELSE (IF old[p].id = 0 THEN <<>> ELSE <<X(p)>>) \o <<Y(p)>>
           Gone(p) == IF old[p].id # 0 /\ cur[p].id = 0 THEN <<X(p)>> ELSE <<>>
           pids == Sorted(Pid)
           n == Len(pids)
           A == [i \in 1..n |-> New(pids[i])]
           B == [i \in 1..n |-> Gone(pids[i])]
           a == Flatten(A)
           b == Flatten(B)
           new == a \o b
<1>1. /\ n \in Nat /\ DOMAIN pids = 1..n /\ Distinct(pids) /\ \A i \in 1..n : pids[i] \in Pid
      /\ \A p \in Pid : \E i \in 1..n : pids[i] = p
  BY SortedPids
<1>2. Diff(old, cur, ts) = new
  BY <1>1 DEF Diff
<1> HIDE DEF pids, n
<1>3. ASSUME NEW p \in Pid
      PROVE  /\ X(p) \in Event /\ X(p).kind = "exit" /\ X(p).pid = p /\ X(p).ts = ts /\ X(p).id = old[p].id
             /\ Y(p) \in Event /\ Y(p).kind = "spawn" /\ Y(p).pid = p /\ Y(p).ts = ts /\ Y(p).id = cur[p].id
             /\ Y(p).ppid = cur[p].ppid /\ (Y(p).ppid \in Pid => Y(p).parent = cur[Y(p).ppid].id)
  BY EventOfFields
<1> HIDE DEF X, Y
<1>4. ASSUME NEW p \in Pid
      PROVE  /\ New(p) \in Seq(Event) /\ Gone(p) \in Seq(Event)
             /\ Len(New(p)) \in 0..2 /\ Len(Gone(p)) \in 0..1
             /\ Len(New(p)) = 1 => /\ New(p)[1] = Y(p) /\ cur[p].id \notin {0, old[p].id}
             /\ Len(New(p)) = 2 => /\ New(p)[1] = X(p) /\ New(p)[2] = Y(p)
                                   /\ cur[p].id \notin {0, old[p].id} /\ old[p].id # 0
             /\ Len(Gone(p)) = 1 => Gone(p)[1] = X(p) /\ old[p].id # 0 /\ cur[p].id = 0
             /\ old[p].id \notin {0, cur[p].id} =>
                  (Len(New(p)) = 2 \/ Len(Gone(p)) = 1)
             /\ cur[p].id \notin {0, old[p].id} => Len(New(p)) \in {1, 2}
  <2> DEFINE x == X(p)
             y == Y(p)
             u == cur[p].id
             v == old[p].id
  <2>1. x \in Event /\ y \in Event
    BY <1>3
  <2> HIDE DEF x, y, u, v
  <2> DEFINE w == <<x>> \o <<y>>
  <2>2. /\ <<>> \in Seq(Event) /\ <<x>> \in Seq(Event) /\ <<>> \o <<y>> = <<y>>
        /\ <<y>> \in Seq(Event) /\ w \in Seq(Event)
        /\ Len(<<>>) = 0 /\ Len(<<x>>) = 1 /\ Len(<<y>>) = 1 /\ Len(w) = 2
        /\ <<x>>[1] = x /\ <<y>>[1] = y /\ w[1] = x /\ w[2] = y
    <3>1. <<>> \in Seq(Event) /\ <<x>> \in Seq(Event) /\ <<y>> \in Seq(Event)
      BY <2>1
    <3>2. <<>> \o <<y>> = <<y>>
      OBVIOUS
    <3>4. Len(<<>>) = 0 /\ Len(<<x>>) = 1 /\ Len(<<y>>) = 1
      OBVIOUS
    <3>5. <<x>>[1] = x /\ <<y>>[1] = y
      OBVIOUS
    <3>6. w \in Seq(Event) /\ Len(w) = 2 /\ w[1] = x /\ w[2] = y
      BY <2>1, ConcatPair
    <3> HIDE DEF w
    <3>q. QED BY <3>1, <3>2, <3>4, <3>5, <3>6
  <2>3. /\ New(p) = IF u \in {0, v} THEN <<>> ELSE IF v = 0 THEN <<y>> ELSE w
        /\ Gone(p) = IF v # 0 /\ u = 0 THEN <<x>> ELSE <<>>
    BY <2>2 DEF x, y, u, v
  <2> HIDE DEF New, Gone, w
  <2>4. CASE u \in {0, v}
    <3>1. New(p) = <<>>
      BY <2>3, <2>4
    <3>2. CASE v # 0 /\ u = 0
      BY <2>2, <2>3, <3>1, <3>2 DEF u, v, x
    <3>3. CASE ~(v # 0 /\ u = 0)
      BY <2>2, <2>3, <2>4, <3>1, <3>3 DEF u, v
    <3>q. QED BY <3>2, <3>3
  <2>5. CASE u \notin {0, v} /\ v = 0
    <3>1. New(p) = <<y>> /\ Gone(p) = <<>>
      BY <2>3, <2>5
    <3>q. QED BY <2>2, <2>5, <3>1 DEF u, v, y
  <2>6. CASE u \notin {0, v} /\ v # 0
    <3>1. New(p) = w /\ Gone(p) = <<>>
      BY <2>3, <2>6
    <3>q. QED BY <2>2, <2>6, <3>1 DEF u, v, x, y
  <2>q. QED BY <2>4, <2>5, <2>6
<1> HIDE DEF New, Gone
<1>5. /\ A \in Seq(Seq(Event)) /\ B \in Seq(Seq(Event)) /\ Len(A) = n /\ Len(B) = n
      /\ \A i \in 1..n : A[i] = New(pids[i]) /\ B[i] = Gone(pids[i])
  <2>1. \A i \in 1..n : New(pids[i]) \in Seq(Event) /\ Gone(pids[i]) \in Seq(Event)
    BY <1>1, <1>4
  <2> DEFINE Q == Seq(Event)
  <2> HIDE DEF Q
  <2>2. A \in [1..n -> Q] /\ B \in [1..n -> Q]
    BY <2>1 DEF Q
  <2>3. A \in Seq(Q) /\ B \in Seq(Q) /\ Len(A) = n /\ Len(B) = n
    BY <1>1, <2>2
  <2>q. QED BY <2>3 DEF Q
<1> HIDE DEF A, B
<1>6. a \in Seq(Event) /\ b \in Seq(Event)
  BY <1>5, FlattenProperties
<1>7. PICK a1, a2 : FlatPlaces(a1, a2, a, A, n)
  BY <1>5, FlattenProperties
<1>8. PICK b1, b2 : FlatPlaces(b1, b2, b, B, n)
  BY <1>5, FlattenProperties
<1> HIDE DEF a, b
<1>9. /\ \A i \in 1..Len(a) : /\ a1[i] \in 1..n /\ a2[i] \in 1..Len(New(pids[a1[i]]))
                              /\ a[i] = New(pids[a1[i]])[a2[i]] /\ pids[a1[i]] \in Pid
      /\ \A i, j \in 1..Len(a) : i < j => a1[i] < a1[j] \/ (a1[i] = a1[j] /\ a2[i] < a2[j])
      /\ \A m \in 1..n : \A l \in 1..Len(New(pids[m])) : \E i \in 1..Len(a) : a1[i] = m /\ a2[i] = l
  <2>1. /\ a1 \in [1..Len(a) -> 1..n]
        /\ \A i \in 1..Len(a) : a2[i] \in 1..Len(A[a1[i]]) /\ a[i] = A[a1[i]][a2[i]]
        /\ \A i, j \in 1..Len(a) : i < j => a1[i] < a1[j] \/ (a1[i] = a1[j] /\ a2[i] < a2[j])
        /\ \A m \in 1..n : \A l \in 1..Len(A[m]) : \E i \in 1..Len(a) : a1[i] = m /\ a2[i] = l
    BY <1>7 DEF FlatPlaces
  <2>2. \A i \in 1..Len(a) : a1[i] \in 1..n /\ A[a1[i]] = New(pids[a1[i]]) /\ pids[a1[i]] \in Pid
    BY <1>1, <1>5, <2>1
  <2>3. \A m \in 1..n : A[m] = New(pids[m])
    BY <1>5
  <2>4. \A i \in 1..Len(a) : /\ a1[i] \in 1..n /\ a2[i] \in 1..Len(New(pids[a1[i]]))
                            /\ a[i] = New(pids[a1[i]])[a2[i]] /\ pids[a1[i]] \in Pid
    <3> SUFFICES ASSUME NEW i \in 1..Len(a)
                 PROVE  /\ a1[i] \in 1..n /\ a2[i] \in 1..Len(New(pids[a1[i]]))
                        /\ a[i] = New(pids[a1[i]])[a2[i]] /\ pids[a1[i]] \in Pid
      OBVIOUS
    <3>1. a1[i] \in 1..n /\ A[a1[i]] = New(pids[a1[i]]) /\ pids[a1[i]] \in Pid
      BY <2>2
    <3>2. a2[i] \in 1..Len(A[a1[i]]) /\ a[i] = A[a1[i]][a2[i]]
      BY <2>1
    <3>q. QED BY <3>1, <3>2
  <2>5. \A m \in 1..n : \A l \in 1..Len(New(pids[m])) : \E i \in 1..Len(a) : a1[i] = m /\ a2[i] = l
    <3> SUFFICES ASSUME NEW m \in 1..n, NEW l \in 1..Len(New(pids[m]))
                 PROVE  \E i \in 1..Len(a) : a1[i] = m /\ a2[i] = l
      OBVIOUS
    <3>1. l \in 1..Len(A[m])
      BY <2>3
    <3>q. QED BY <2>1, <3>1
  <2>q. QED BY <2>1, <2>4, <2>5
<1>10. /\ \A i \in 1..Len(b) : /\ b1[i] \in 1..n /\ b2[i] \in 1..Len(Gone(pids[b1[i]]))
                               /\ b[i] = Gone(pids[b1[i]])[b2[i]] /\ pids[b1[i]] \in Pid
       /\ \A i, j \in 1..Len(b) : i < j => b1[i] < b1[j] \/ (b1[i] = b1[j] /\ b2[i] < b2[j])
       /\ \A m \in 1..n : \A l \in 1..Len(Gone(pids[m])) : \E i \in 1..Len(b) : b1[i] = m /\ b2[i] = l
  <2>1. /\ b1 \in [1..Len(b) -> 1..n]
        /\ \A i \in 1..Len(b) : b2[i] \in 1..Len(B[b1[i]]) /\ b[i] = B[b1[i]][b2[i]]
        /\ \A i, j \in 1..Len(b) : i < j => b1[i] < b1[j] \/ (b1[i] = b1[j] /\ b2[i] < b2[j])
        /\ \A m \in 1..n : \A l \in 1..Len(B[m]) : \E i \in 1..Len(b) : b1[i] = m /\ b2[i] = l
    BY <1>8 DEF FlatPlaces
  <2>2. \A i \in 1..Len(b) : b1[i] \in 1..n /\ B[b1[i]] = Gone(pids[b1[i]]) /\ pids[b1[i]] \in Pid
    BY <1>1, <1>5, <2>1
  <2>3. \A m \in 1..n : B[m] = Gone(pids[m])
    BY <1>5
  <2>4. \A i \in 1..Len(b) : /\ b1[i] \in 1..n /\ b2[i] \in 1..Len(Gone(pids[b1[i]]))
                            /\ b[i] = Gone(pids[b1[i]])[b2[i]] /\ pids[b1[i]] \in Pid
    <3> SUFFICES ASSUME NEW i \in 1..Len(b)
                 PROVE  /\ b1[i] \in 1..n /\ b2[i] \in 1..Len(Gone(pids[b1[i]]))
                        /\ b[i] = Gone(pids[b1[i]])[b2[i]] /\ pids[b1[i]] \in Pid
      OBVIOUS
    <3>1. b1[i] \in 1..n /\ B[b1[i]] = Gone(pids[b1[i]]) /\ pids[b1[i]] \in Pid
      BY <2>2
    <3>2. b2[i] \in 1..Len(B[b1[i]]) /\ b[i] = B[b1[i]][b2[i]]
      BY <2>1
    <3>q. QED BY <3>1, <3>2
  <2>5. \A m \in 1..n : \A l \in 1..Len(Gone(pids[m])) : \E i \in 1..Len(b) : b1[i] = m /\ b2[i] = l
    <3> SUFFICES ASSUME NEW m \in 1..n, NEW l \in 1..Len(Gone(pids[m]))
                 PROVE  \E i \in 1..Len(b) : b1[i] = m /\ b2[i] = l
      OBVIOUS
    <3>1. l \in 1..Len(B[m])
      BY <2>3
    <3>q. QED BY <2>1, <3>1
  <2>q. QED BY <2>1, <2>4, <2>5
<1>11. ASSUME NEW i \in 1..Len(a)
       PROVE  /\ a[i].pid = pids[a1[i]] /\ cur[a[i].pid].id \notin {0, old[a[i].pid].id}
              /\ IsExit(a[i], old, cur, ts) \/ IsSpawn(a[i], old, cur, ts)
              /\ \/ a2[i] = 1 /\ Len(New(a[i].pid)) = 1
                 \/ a2[i] = 1 /\ Len(New(a[i].pid)) = 2 /\ a[i].kind = "exit"
                 \/ a2[i] = 2 /\ Len(New(a[i].pid)) = 2 /\ a[i].kind = "spawn"
  <2> DEFINE p == pids[a1[i]]
  <2>1. p \in Pid /\ a2[i] \in 1..Len(New(p)) /\ a[i] = New(p)[a2[i]]
    BY <1>9
  <2> HIDE DEF p
  <2>2. Len(New(p)) \in 0..2 /\ a2[i] \in 1..2
    BY <1>4, <2>1
  <2>3. CASE Len(New(p)) = 1
    <3>1. a2[i] = 1 /\ a[i] = Y(p) /\ cur[p].id \notin {0, old[p].id}
      BY <1>4, <2>1, <2>3
    <3>2. a[i].pid = p
      BY <1>3, <2>1, <3>1
    <3>3. IsSpawn(a[i], old, cur, ts)
      BY <1>3, <2>1, <3>1 DEF IsSpawn
    <3>q. QED BY <2>3, <3>1, <3>2, <3>3 DEF p
  <2>4. CASE Len(New(p)) = 2 /\ a2[i] = 1
    <3>1. a[i] = X(p) /\ cur[p].id \notin {0, old[p].id} /\ old[p].id # 0
      BY <1>4, <2>1, <2>4
    <3>2. a[i].pid = p /\ a[i].kind = "exit"
      BY <1>3, <2>1, <3>1
    <3>3. IsExit(a[i], old, cur, ts)
      BY <1>3, <2>1, <3>1 DEF IsExit
    <3>q. QED BY <2>4, <3>1, <3>2, <3>3 DEF p
  <2>5. CASE Len(New(p)) = 2 /\ a2[i] = 2
    <3>1. a[i] = Y(p) /\ cur[p].id \notin {0, old[p].id}
      BY <1>4, <2>1, <2>5
    <3>2. a[i].pid = p /\ a[i].kind = "spawn"
      BY <1>3, <2>1, <3>1
    <3>3. IsSpawn(a[i], old, cur, ts)
      BY <1>3, <2>1, <3>1 DEF IsSpawn
    <3>q. QED BY <2>5, <3>1, <3>2, <3>3 DEF p
  <2>6. Len(New(p)) # 0
    BY <2>1
  <2>q. QED BY <2>2, <2>3, <2>4, <2>5, <2>6
<1>12. ASSUME NEW i \in 1..Len(b)
       PROVE  /\ b[i].pid = pids[b1[i]] /\ cur[b[i].pid].id = 0
              /\ IsExit(b[i], old, cur, ts) /\ b2[i] = 1
  <2> DEFINE p == pids[b1[i]]
  <2>1. p \in Pid /\ b2[i] \in 1..Len(Gone(p)) /\ b[i] = Gone(p)[b2[i]]
    BY <1>10
  <2> HIDE DEF p
  <2>2. Len(Gone(p)) = 1 /\ b2[i] = 1
    BY <1>4, <2>1
  <2>3. b[i] = X(p) /\ old[p].id # 0 /\ cur[p].id = 0
    BY <1>4, <2>1, <2>2
  <2>4. IsExit(b[i], old, cur, ts) /\ b[i].pid = p
    BY <1>3, <2>1, <2>3 DEF IsExit
  <2>q. QED BY <2>2, <2>3, <2>4 DEF p
<1>13. /\ new \in Seq(Event) /\ Len(a) \in Nat /\ Len(b) \in Nat
       /\ Len(new) = Len(a) + Len(b) /\ DOMAIN new = 1..(Len(a) + Len(b))
       /\ \A i \in 1..Len(a) : new[i] = a[i]
       /\ \A i \in 1..Len(b) : new[Len(a) + i] = b[i]
       /\ \A j \in DOMAIN new :
            \/ j \in 1..Len(a)
            \/ /\ j > Len(a) /\ j - Len(a) \in 1..Len(b)
               /\ Len(a) + (j - Len(a)) = j /\ new[j] = b[j - Len(a)]
  BY <1>6, ConcatPlaces
<1> HIDE DEF new
<1>14. \A i \in 1..Len(new) : IsExit(new[i], old, cur, ts) \/ IsSpawn(new[i], old, cur, ts)
  <2> SUFFICES ASSUME NEW i \in 1..Len(new)
               PROVE  IsExit(new[i], old, cur, ts) \/ IsSpawn(new[i], old, cur, ts)
    OBVIOUS
  <2>1. CASE i \in 1..Len(a)
    <3>1. new[i] = a[i]
      BY <1>13, <2>1
    <3>2. IsExit(a[i], old, cur, ts) \/ IsSpawn(a[i], old, cur, ts)
      BY <1>11, <2>1
    <3>q. QED BY <3>1, <3>2
  <2>2. CASE i \notin 1..Len(a)
    <3> DEFINE k == i - Len(a)
    <3>1. k \in 1..Len(b) /\ new[i] = b[k]
      BY <1>13, <2>2
    <3> HIDE DEF k
    <3>2. IsExit(b[k], old, cur, ts)
      BY <1>12, <3>1
    <3>q. QED BY <3>1, <3>2
  <2>q. QED BY <2>1, <2>2
<1>15. ASSUME NEW i \in 1..Len(new), NEW j \in 1..Len(new), i < j, new[i].pid = new[j].pid
       PROVE  new[i].kind = "exit" /\ new[j].kind = "spawn"
  <2>0. /\ i \in 1..Len(a) \/ (i > Len(a) /\ i - Len(a) \in 1..Len(b) /\ new[i] = b[i - Len(a)])
        /\ j \in 1..Len(a) \/ (j > Len(a) /\ j - Len(a) \in 1..Len(b) /\ new[j] = b[j - Len(a)])
    BY <1>13
  <2>1. CASE i \in 1..Len(a) /\ j \in 1..Len(a)
    <3>1. /\ new[i] = a[i] /\ new[j] = a[j] /\ a[i].pid = pids[a1[i]] /\ a[j].pid = pids[a1[j]]
          /\ a1[i] \in 1..n /\ a1[j] \in 1..n
      BY <1>9, <1>11, <1>13, <2>1
    <3>2. a1[i] = a1[j]
      BY <1>1, <1>15, <3>1 DEF Distinct
    <3>3. a2[i] < a2[j]
      <4>1. a1[i] < a1[j] \/ (a1[i] = a1[j] /\ a2[i] < a2[j])
        BY <1>9, <1>15, <2>1
      <4>q. QED BY <1>1, <3>1, <3>2, <4>1
    <3>4. a[i].pid = a[j].pid
      BY <3>1, <3>2
    <3>5. \A k \in 1..Len(a) :
            \/ a2[k] = 1 /\ Len(New(a[k].pid)) = 1
            \/ a2[k] = 1 /\ Len(New(a[k].pid)) = 2 /\ a[k].kind = "exit"
            \/ a2[k] = 2 /\ Len(New(a[k].pid)) = 2 /\ a[k].kind = "spawn"
      BY <1>11
    <3> DEFINE l == Len(New(a[i].pid))
    <3>6. \/ a2[i] = 1 /\ l = 1
          \/ a2[i] = 1 /\ l = 2 /\ a[i].kind = "exit"
          \/ a2[i] = 2 /\ l = 2 /\ a[i].kind = "spawn"
      BY <2>1, <3>5
    <3>7. \/ a2[j] = 1 /\ l = 1
          \/ a2[j] = 1 /\ l = 2 /\ a[j].kind = "exit"
          \/ a2[j] = 2 /\ l = 2 /\ a[j].kind = "spawn"
      BY <2>1, <3>4, <3>5
    <3> HIDE DEF l
    <3>8. a[i].kind = "exit" /\ a[j].kind = "spawn"
      BY <3>3, <3>6, <3>7
    <3>q. QED BY <3>1, <3>8
  <2>2. CASE i \in 1..Len(a) /\ j > Len(a) /\ j - Len(a) \in 1..Len(b) /\ new[j] = b[j - Len(a)]
    <3>1. new[i] = a[i] /\ cur[a[i].pid].id \notin {0, old[a[i].pid].id}
      BY <1>11, <1>13, <2>2
    <3>2. cur[new[j].pid].id = 0
      BY <1>12, <2>2
    <3>q. QED BY <1>15, <3>1, <3>2
  <2>3. CASE i > Len(a) /\ j \in 1..Len(a)
    BY <1>13, <1>15, <2>3
  <2>4. CASE /\ i > Len(a) /\ i - Len(a) \in 1..Len(b) /\ new[i] = b[i - Len(a)]
             /\ j > Len(a) /\ j - Len(a) \in 1..Len(b) /\ new[j] = b[j - Len(a)]
    <3> DEFINE k == i - Len(a)
               l == j - Len(a)
    <3>1. k \in 1..Len(b) /\ l \in 1..Len(b) /\ k < l /\ new[i] = b[k] /\ new[j] = b[l]
      BY <1>13, <1>15, <2>4
    <3> HIDE DEF k, l
    <3>2. /\ b[k].pid = pids[b1[k]] /\ b[l].pid = pids[b1[l]] /\ b2[k] = 1 /\ b2[l] = 1
          /\ b1[k] \in 1..n /\ b1[l] \in 1..n
      BY <1>10, <1>12, <3>1
    <3>3. b1[k] = b1[l]
      BY <1>1, <1>15, <3>1, <3>2 DEF Distinct
    <3>4. b1[k] < b1[l] \/ (b1[k] = b1[l] /\ b2[k] < b2[l])
      BY <1>10, <3>1
    <3>q. QED BY <1>1, <3>2, <3>3, <3>4
  <2>q. QED BY <2>0, <2>1, <2>2, <2>3, <2>4
<1>16. Differs(new, old, cur, ts)
  BY <1>13, <1>14, <1>15 DEF Differs
<1>17. AllOf(new, old, cur)
  <2> SUFFICES ASSUME NEW p \in Pid
               PROVE  /\ old[p].id \notin {0, cur[p].id} =>
                           \E i \in 1..Len(new) : new[i].kind = "exit" /\ new[i].pid = p
                      /\ cur[p].id \notin {0, old[p].id} =>
                           \E i \in 1..Len(new) : new[i].kind = "spawn" /\ new[i].pid = p
    BY DEF AllOf
  <2>1. PICK m \in 1..n : pids[m] = p
    BY <1>1
  <2>a. \A i \in 1..Len(a) : i \in 1..Len(new) /\ new[i] = a[i]
    BY <1>13
  <2>b. \A i \in 1..Len(b) : Len(a) + i \in 1..Len(new) /\ new[Len(a) + i] = b[i]
    BY <1>13
  <2>c. X(p).kind = "exit" /\ X(p).pid = p /\ Y(p).kind = "spawn" /\ Y(p).pid = p
    BY <1>3
  <2>2. ASSUME Len(New(p)) = 2
        PROVE  /\ \E i \in 1..Len(new) : new[i].kind = "exit" /\ new[i].pid = p
               /\ \E i \in 1..Len(new) : new[i].kind = "spawn" /\ new[i].pid = p
    <3>1. 1 \in 1..Len(New(pids[m])) /\ 2 \in 1..Len(New(pids[m]))
      BY <2>1, <2>2
    <3>2. PICK i \in 1..Len(a) : a1[i] = m /\ a2[i] = 1
      BY <1>9, <3>1
    <3>3. PICK j \in 1..Len(a) : a1[j] = m /\ a2[j] = 2
      BY <1>9, <3>1
    <3>4. a[i] = New(p)[1] /\ a[j] = New(p)[2]
      <4>1. a[i] = New(pids[a1[i]])[a2[i]] /\ a[j] = New(pids[a1[j]])[a2[j]]
        BY <1>9, <3>2, <3>3
      <4>q. QED BY <2>1, <3>2, <3>3, <4>1
    <3>5. a[i] = X(p) /\ a[j] = Y(p)
      BY <1>4, <2>2, <3>4
    <3>q. QED BY <2>a, <2>c, <3>5
  <2>3. ASSUME Len(New(p)) = 1
        PROVE  \E i \in 1..Len(new) : new[i].kind = "spawn" /\ new[i].pid = p
    <3>1. 1 \in 1..Len(New(pids[m]))
      BY <2>1, <2>3
    <3>2. PICK i \in 1..Len(a) : a1[i] = m /\ a2[i] = 1
      BY <1>9, <3>1
    <3>3. a[i] = Y(p)
      BY <1>4, <1>9, <2>1, <2>3, <3>2
    <3>q. QED BY <2>a, <2>c, <3>3
  <2>4. ASSUME Len(Gone(p)) = 1
        PROVE  \E i \in 1..Len(new) : new[i].kind = "exit" /\ new[i].pid = p
    <3>1. 1 \in 1..Len(Gone(pids[m]))
      BY <2>1, <2>4
    <3>2. PICK i \in 1..Len(b) : b1[i] = m /\ b2[i] = 1
      BY <1>10, <3>1
    <3>3. b[i] = X(p)
      BY <1>4, <1>10, <2>1, <2>4, <3>2
    <3>q. QED BY <2>b, <2>c, <3>3
  <2>q. QED BY <1>4, <2>2, <2>3, <2>4
<1>q. QED BY <1>2, <1>16, <1>17

(* What was sent of a diff when the recorder stopped.                       *)
LEMMA PartOfDiff ==
  ASSUME NEW old, NEW cur, NEW ts, NEW all, Differs(all, old, cur, ts), NEW n \in 0..Len(all)
  PROVE  Differs(SubSeq(all, 1, n), old, cur, ts)
<1> DEFINE s == Front(all, n)
<1>1. all \in Seq(Event)
  BY DEF Differs
<1>2. /\ s \in Seq(Event) /\ Len(s) = n /\ \A i \in 1..n : s[i] = all[i]
      /\ s = SubSeq(all, 1, n)
  BY <1>1, FrontProperties
<1>3. \A i \in 1..n : i \in 1..Len(all)
  BY <1>1, LenProperties
<1> HIDE DEF s
<1>4. Differs(s, old, cur, ts)
  BY <1>2, <1>3 DEF Differs
<1>q. QED BY <1>2, <1>4

-----------------------------------------------------------------------------
(* The inductive invariant. *)

TypeInv ==
  /\ proc \in [Pid -> Process] /\ prev \in [Pid -> Process]
  /\ forks \in Nat /\ now \in Nat /\ running \in BOOLEAN
  /\ baseline \subseteq 0..forks /\ early \subseteq 0..forks /\ faults \subseteq {"scan", "stop"}
  /\ events \in Seq(Event)

(* A stored event is of the past; a file change has no process, and each    *)
(* other event has one.                                                     *)
Recorded ==
  \A i \in DOMAIN events :
    /\ events[i].ts \in 1..now
    /\ events[i].kind = "file" => events[i].pid = 0 /\ events[i].id = 0
    /\ events[i].kind # "file" => events[i].pid \in Pid /\ events[i].id # 0

(* The store is in order of time, and one tick makes samples only or none.  *)
Timely ==
  /\ InOrder(events)
  /\ \A i, j \in DOMAIN events :
       events[i].ts = events[j].ts => (events[i].kind = "sample" <=> events[j].kind = "sample")

(* The processes known under a pid.                                         *)
SeenAt(p) ==
  {proc[p].id, prev[p].id} \cup {events[i].id : i \in {j \in DOMAIN events : events[j].pid = p}}

(* A process has one pid, and none after it has it while it lives.          *)
OnePid ==
  /\ \A p \in Pid : SeenAt(p) \subseteq 0..forks
  /\ \A p, q \in Pid : \A x \in SeenAt(p) : x \in SeenAt(q) => x = 0 \/ p = q
  /\ \A p \in Pid : proc[p].id # 0 => \A x \in SeenAt(p) : x <= proc[p].id

(* A recorder that is not running has no snapshot, and none ran before      *)
(* unless one was stopped.                                                  *)
Idle ==
  ~running => prev = NoProcess /\ ("stop" \notin faults => events = <<>>)

(* While the scans succeed: an exit in the store is of a process that is    *)
(* gone, and the next diff will not report it again.                        *)
ExitsAreTrue ==
  \A i \in DOMAIN events :
    events[i].kind = "exit" => \A p \in Pid : events[i].id \notin {proc[p].id, prev[p].id}

(* A process the next diff will report as new has only been sampled.        *)
NewIsFresh ==
  running =>
    \A p \in Pid :
      proc[p].id \notin {0, prev[p].id} =>
        /\ proc[p].id \notin baseline
        /\ \A i \in DOMAIN events : events[i].id = proc[p].id => events[i].kind = "sample"

(* Before the spawn of a process there are samples of it at most.           *)
SpawnedOnce ==
  \A i, j \in DOMAIN events :
    i < j /\ events[i].id = events[j].id /\ events[j].kind = "spawn" => events[i].kind = "sample"

(* An event of a process that a diff or a baseline had by then.             *)
Timed(e) == e.kind = "spawn" \/ e.id \notin early

(* No such event is of a process newer than the one in the last snapshot.   *)
SnapshotIsLast ==
  \A i \in DOMAIN events : \A p \in Pid :
    Timed(events[i]) /\ events[i].pid = p /\ prev[p].id # 0 => events[i].id <= prev[p].id

(* After an exit the processes that had such events before it are gone.     *)
SpawnsEnd ==
  \A i, j \in DOMAIN events :
    i < j /\ events[i].pid = events[j].pid /\ Timed(events[i]) /\ events[j].kind = "exit" =>
      \A p \in Pid : proc[p].id # events[i].id

(* While the recorder has not been stopped: the last event of a pid is of   *)
(* the process that a diff saw there and that is there still.               *)
LastIsLive ==
  \A p \in Pid : \A i \in DOMAIN events :
    /\ prev[p].id # 0 /\ prev[p].id = proc[p].id
    /\ events[i].pid = p /\ \A k \in DOMAIN events : events[k].pid = p => k <= i
    => events[i].id = proc[p].id /\ events[i].kind # "exit"

(* When a process was first seen, the last event of its parent's pid was of *)
(* its parent, if this was seen too.                                        *)
ParentIsLast ==
  \A i, j \in DOMAIN events :
    /\ events[j].kind = "spawn" /\ events[j].ppid \in Pid /\ events[j].parent # 0
    /\ events[i].pid = events[j].ppid /\ events[i].ts <= events[j].ts
    /\ \A k \in DOMAIN events :
         events[k].pid = events[j].ppid /\ events[k].ts <= events[j].ts => k <= i
    => events[i].id = events[j].parent

(* With no fault at all: an exit comes before the next spawn of the pid, and *)
(* has come if the pid was free in the last scan.                           *)
ExitsBetween ==
  /\ \A i, j \in DOMAIN events :
       i < j /\ events[i].pid = events[j].pid /\ Timed(events[i]) /\ events[j].kind = "spawn" =>
         \E k \in i..(j - 1) : events[k].pid = events[i].pid /\ events[k].kind = "exit"
  /\ \A i \in DOMAIN events : \A p \in Pid :
       Timed(events[i]) /\ events[i].pid = p /\ prev[p].id = 0 =>
         \E k \in DOMAIN events : k >= i /\ events[k].pid = p /\ events[k].kind = "exit"

PollerInv ==
  /\ TypeInv /\ Recorded /\ Timely /\ OnePid /\ Idle
  /\ "scan" \notin faults => ExitsAreTrue /\ NewIsFresh /\ SpawnedOnce /\ SnapshotIsLast /\ SpawnsEnd
  /\ "stop" \notin faults => LastIsLive /\ ParentIsLast
  /\ faults = {} => ExitsBetween

-----------------------------------------------------------------------------
(* What the steps do to the store. *)

New == DOMAIN events' \ DOMAIN events

(* A new event says what is so now, or was so in the last snapshot.         *)
IsFile(e) == e.kind = "file" /\ e.pid = 0 /\ e.id = 0

IsSample(e) == e.kind = "sample" /\ e.pid \in Pid /\ e.id = proc[e.pid].id /\ e.id # 0

(* A scan shows nothing that is not there.                                  *)
Snapshot(cur) == cur \in [Pid -> Process] /\ \A p \in Pid : cur[p] \in {proc[p], Free}

(* The step adds events of this tick, of the scan cur.                      *)
Grows(cur) ==
  /\ UNCHANGED <<proc, forks>> /\ faults \subseteq faults' /\ early \subseteq early'
  /\ now' \in Nat /\ now <= now'
  /\ Snapshot(cur) /\ ("scan" \notin faults' => cur = proc)
  /\ events' \in Seq(Event)
  /\ \A i \in DOMAIN events : i \in DOMAIN events' /\ events'[i] = events[i]
  /\ \A i \in DOMAIN events : \A j \in New : i < j
  /\ \A j \in New :
       /\ now' = now + 1 /\ events'[j].ts = now'
       /\ \/ IsFile(events'[j]) \/ IsSample(events'[j])
          \/ IsExit(events'[j], prev, cur, now') \/ IsSpawn(events'[j], prev, cur, now')
  /\ \A i, j \in New : events'[i].kind = "sample" <=> events'[j].kind = "sample"
  /\ \A i, j \in New :
       i < j /\ events'[i].pid = events'[j].pid =>
         \/ events'[i].kind = "sample" /\ events'[j].kind = "sample"
         \/ events'[i].kind = "exit" /\ events'[j].kind = "spawn"

Watches(cur) ==
  /\ running /\ running' /\ prev' = prev /\ baseline' = baseline /\ faults' = faults
  /\ \A j \in New : events'[j].kind \in {"sample", "file"}
  /\ \A j \in New :
       events'[j].kind = "sample" => events'[j].id = prev[events'[j].pid].id \/ events'[j].id \in early'

Diffs(cur) ==
  /\ running /\ running' /\ prev' = cur /\ baseline' = baseline
  /\ \A j \in New : events'[j].kind \in {"exit", "spawn"}
  /\ \A p \in Pid :
       /\ prev[p].id \notin {0, cur[p].id} =>
            \E j \in New : events'[j].kind = "exit" /\ events'[j].pid = p
       /\ cur[p].id \notin {0, prev[p].id} =>
            \E j \in New : events'[j].kind = "spawn" /\ events'[j].pid = p

Starts(cur) ==
  /\ ~running /\ running' /\ prev' = cur /\ baseline' = baseline \cup {proc[p].id : p \in Live}
  /\ \A j \in New : events'[j].kind = "sample"

Stops(cur) ==
  /\ running /\ ~running' /\ prev' = NoProcess /\ "stop" \in faults' /\ baseline' = baseline
  /\ \A j \in New : events'[j].kind \in {"exit", "spawn"}

Gathers(cur) == Grows(cur) /\ (Watches(cur) \/ Diffs(cur) \/ Starts(cur) \/ Stops(cur))

(* One process comes or goes.                                               *)
Comes(p) == proc[p].id = 0 /\ forks' = forks + 1 /\ proc'[p].id = forks'

Goes(p) == forks' = forks /\ proc'[p].id = 0

Turns(p) ==
  /\ p \in Pid
  /\ proc' \in [Pid -> Process] /\ (Comes(p) \/ Goes(p))
  /\ \A q \in Pid : q # p => proc'[q].id = proc[q].id
  /\ UNCHANGED <<now, running, prev, baseline, early, faults, events>>

(* The oldest event goes: the others move up.                               *)
Loses ==
  /\ UNCHANGED <<proc, forks, now, running, prev, baseline, early, faults>>
  /\ events # <<>> /\ events' \in Seq(Event)
  /\ \A j \in DOMAIN events' : j + 1 \in DOMAIN events /\ events'[j] = events[j + 1]
  /\ \A i \in DOMAIN events : i \in Nat /\ (i = 1 \/ (i - 1 \in DOMAIN events' /\ events'[i - 1] = events[i]))

LEMMA NoProcessFields ==
  /\ NoProcess \in [Pid -> Process] /\ \A p \in Pid : NoProcess[p].id = 0
<1>1. Free \in Process /\ Free.id = 0
  BY DEF Free, Process, Outside
<1>q. QED BY <1>1 DEF NoProcess

LEMMA SnapshotIds ==
  ASSUME NEW cur, Snapshot(cur), NEW p \in Pid
  PROVE  cur[p].id \in {proc[p].id, 0}
BY DEF Snapshot, Free

LEMMA ScansAre ==
  ASSUME TypeInv
  PROVE  /\ \A cur \in Scans : Snapshot(cur)
         /\ Snapshot(proc)
         /\ \A cur : faults \subseteq WithScan(cur) /\ ("scan" \notin WithScan(cur) => cur = proc)
<1>1. proc \in [Pid -> Process] /\ Free \in Process
  BY DEF TypeInv, Free, Process, Outside
<1>2. ASSUME NEW cur \in Scans
      PROVE  Snapshot(cur)
  <2>1. PICK skipped : cur = [p \in Pid |-> IF p \in skipped THEN Free ELSE proc[p]]
    BY DEF Scans
  <2>q. QED BY <1>1, <2>1 DEF Snapshot
<1>3. Snapshot(proc)
  BY <1>1 DEF Snapshot
<1>q. QED BY <1>2, <1>3 DEF WithScan

(* What is appended to the store is what is new in it.                      *)
LEMMA Appended ==
  ASSUME events \in Seq(Event), NEW new \in Seq(Event), events' = events \o new
  PROVE  /\ events' \in Seq(Event)
         /\ \A i \in DOMAIN events : i \in DOMAIN events' /\ events'[i] = events[i]
         /\ \A i \in DOMAIN events : \A j \in New : i < j
         /\ \A j \in New : \E i \in 1..Len(new) : j = Len(events) + i /\ events'[j] = new[i]
         /\ \A i \in 1..Len(new) : Len(events) + i \in New /\ events'[Len(events) + i] = new[i]
         /\ Len(events) \in Nat
<1> DEFINE m == Len(events)
           n == Len(new)
<1>1. /\ events' \in Seq(Event) /\ m \in Nat /\ n \in Nat
      /\ DOMAIN events = 1..m /\ DOMAIN events' = 1..(m + n)
      /\ \A i \in 1..m : events'[i] = events[i]
      /\ \A i \in 1..n : events'[m + i] = new[i]
  BY ConcatPlaces
<1> HIDE DEF m, n
<1>2. New = (m + 1)..(m + n)
  <2>1. New = (1..(m + n)) \ (1..m)
    BY <1>1 DEF New
  <2>q. QED BY <1>1, <2>1
<1>3. \A i \in DOMAIN events : i \in DOMAIN events' /\ events'[i] = events[i]
  BY <1>1
<1>4. \A i \in DOMAIN events : \A j \in New : i < j
  BY <1>1, <1>2
<1>5. \A j \in New : \E i \in 1..n : j = m + i /\ events'[j] = new[i]
  <2> SUFFICES ASSUME NEW j \in New PROVE \E i \in 1..n : j = m + i /\ events'[j] = new[i]
    OBVIOUS
  <2>1. j - m \in 1..n /\ j = m + (j - m)
    BY <1>1, <1>2
  <2>2. events'[m + (j - m)] = new[j - m]
    BY <1>1, <2>1
  <2>q. QED BY <2>1, <2>2
<1>6. \A i \in 1..n : m + i \in New
  BY <1>1, <1>2
<1>q. QED BY <1>1, <1>3, <1>4, <1>5, <1>6 DEF m, n

LEMMA GatherSamples ==
  ASSUME TypeInv, Start \/ SampleTick
  PROVE  \E cur : Gathers(cur)
<1>1. events \in Seq(Event) /\ now \in Nat /\ now + 1 \in Nat
  BY DEF TypeInv
<1>2. PICK scan, S, list :
        /\ Snapshot(scan) /\ S \subseteq {p \in Pid : scan[p].id # 0} /\ list \in Arrangements(S)
        /\ events' = events \o SampleEvents(scan, list, now') /\ now' = now + 1
        /\ UNCHANGED <<proc, forks>> /\ faults \subseteq faults' /\ early \subseteq early'
        /\ "scan" \notin faults' => scan = proc
        /\ \/ Start /\ prev' = scan
           \/ /\ SampleTick /\ scan = proc
              /\ \A q \in S : proc[q].id = prev[q].id \/ proc[q].id \in early'
  <2>1. CASE Start
    <3>1. Snapshot(prev') /\ faults \subseteq faults' /\ ("scan" \notin faults' => prev' = proc)
      BY <2>1, ScansAre DEF Start
    <3>2. PICK S \in SUBSET {p \in Busy : prev'[p].id # 0} :
            \E list \in Arrangements(S) : events' = events \o SampleEvents(prev', list, now')
      BY <2>1 DEF Start
    <3>3. PICK list \in Arrangements(S) : events' = events \o SampleEvents(prev', list, now')
      BY <3>2
    <3>4. S \subseteq {p \in Pid : prev'[p].id # 0}
      BY PidsAreNat
    <3>q. QED BY <2>1, <3>1, <3>3, <3>4 DEF Start
  <2>2. CASE SampleTick
    <3>1. PICK S \in SUBSET (Live \cap Busy) \ {{}} :
            /\ \E list \in Arrangements(S) : events' = events \o SampleEvents(proc, list, now')
            /\ early' = early \cup {proc[p].id : p \in {q \in S : prev[q].id # proc[q].id}}
      BY <2>2 DEF SampleTick
    <3>2. PICK list \in Arrangements(S) : events' = events \o SampleEvents(proc, list, now')
      BY <3>1
    <3>3. S \subseteq {p \in Pid : proc[p].id # 0}
      BY <3>1 DEF Live
    <3>4. now' = now + 1 /\ UNCHANGED <<proc, forks, faults>>
      BY <2>2 DEF SampleTick
    <3>5. early \subseteq early' /\ \A q \in S : proc[q].id = prev[q].id \/ proc[q].id \in early'
      BY <3>1
    <3>q. QED BY <2>2, <3>2, <3>3, <3>4, <3>5, ScansAre
  <2>q. QED BY <2>1, <2>2
<1> DEFINE new == SampleEvents(scan, list, now')
<1>4. Samples(new, scan, S, now')
  BY <1>1, <1>2, SampleFacts DEF Snapshot
<1> HIDE DEF new
<1>5. /\ events' = events \o new /\ now' = now + 1
  BY <1>2 DEF new
<1>6. /\ new \in Seq(Event)
      /\ \A i \in 1..Len(new) : /\ new[i].kind = "sample" /\ new[i].pid \in S /\ new[i].ts = now'
                                /\ new[i].id = scan[new[i].pid].id /\ new[i].id # 0
  BY <1>4 DEF Samples
<1>7. /\ events' \in Seq(Event)
      /\ \A i \in DOMAIN events : i \in DOMAIN events' /\ events'[i] = events[i]
      /\ \A i \in DOMAIN events : \A j \in New : i < j
      /\ \A j \in New : \E i \in 1..Len(new) : events'[j] = new[i]
  BY <1>1, <1>5, <1>6, Appended
<1>8. \A j \in New : /\ IsSample(events'[j]) /\ events'[j].kind = "sample" /\ events'[j].ts = now'
                     /\ events'[j].pid \in S
  <2> SUFFICES ASSUME NEW j \in New
               PROVE  /\ IsSample(events'[j]) /\ events'[j].kind = "sample" /\ events'[j].ts = now'
                      /\ events'[j].pid \in S
    OBVIOUS
  <2>1. PICK i \in 1..Len(new) : events'[j] = new[i]
    BY <1>7
  <2>2. new[i].pid \in S /\ new[i].pid \in Pid
    BY <1>2, <1>6
  <2>3. scan[new[i].pid].id = proc[new[i].pid].id
    BY <1>2, <1>6, <2>2, SnapshotIds
  <2>q. QED BY <1>6, <2>1, <2>2, <2>3 DEF IsSample
<1>9. Grows(scan)
  <2>1. now' \in Nat /\ now <= now'
    BY <1>1, <1>5
  <2>2. /\ UNCHANGED <<proc, forks>> /\ faults \subseteq faults' /\ early \subseteq early'
        /\ Snapshot(scan) /\ ("scan" \notin faults' => scan = proc)
    BY <1>2
  <2>3. \A j \in New : /\ now' = now + 1 /\ events'[j].ts = now'
                       /\ events'[j].kind = "sample" /\ IsSample(events'[j])
    BY <1>5, <1>8
  <2>q. QED BY <1>7, <2>1, <2>2, <2>3, Zenon DEF Grows
<1>10. CASE Start /\ prev' = scan
  <2>1. Starts(scan)
    BY <1>8, <1>10 DEF Starts, Start
  <2>q. QED BY <1>9, <2>1 DEF Gathers
<1>11. CASE SampleTick /\ \A q \in S : proc[q].id = prev[q].id \/ proc[q].id \in early'
  <2>1. \A j \in New : events'[j].id = prev[events'[j].pid].id \/ events'[j].id \in early'
    BY <1>8, <1>11 DEF IsSample
  <2>2. Watches(scan)
    BY <1>8, <1>11, <2>1 DEF Watches, SampleTick
  <2>q. QED BY <1>9, <2>2 DEF Gathers
<1>q. QED BY <1>2, <1>10, <1>11

LEMMA GatherFiles ==
  ASSUME TypeInv, FileChange
  PROVE  \E cur : Gathers(cur)
<1> DEFINE e == [kind |-> "file", pid |-> 0, ppid |-> Outside, ts |-> now', id |-> 0, parent |-> 0]
<1>1. events \in Seq(Event) /\ now \in Nat /\ now' = now + 1 /\ now' \in Nat
  BY DEF TypeInv, FileChange
<1>2. e \in Event
  BY <1>1 DEF Event, Outside
<1>3. e.kind = "file" /\ e.pid = 0 /\ e.id = 0 /\ e.ts = now'
  OBVIOUS
<1>4. events' = Append(events, e)
  BY DEF FileChange
<1> HIDE DEF e
<1>5. events' = events \o <<e>> /\ <<e>> \in Seq(Event) /\ Len(<<e>>) = 1 /\ <<e>>[1] = e
  BY <1>1, <1>2, <1>4
<1>6. /\ events' \in Seq(Event)
      /\ \A i \in DOMAIN events : i \in DOMAIN events' /\ events'[i] = events[i]
      /\ \A i \in DOMAIN events : \A j \in New : i < j
      /\ \A j \in New : \E i \in 1..Len(<<e>>) : j = Len(events) + i /\ events'[j] = <<e>>[i]
  BY <1>1, <1>5, Appended
<1>7. \A j \in New : j = Len(events) + 1 /\ events'[j] = e
  BY <1>5, <1>6
<1>8. Len(events) \in Nat
  BY <1>1, LenProperties
<1>9. Grows(proc)
  <2>1. \A i, j \in New : ~(i < j)
    BY <1>7, <1>8
  <2>2. UNCHANGED <<proc, forks, early, faults>> /\ Snapshot(proc)
    BY ScansAre DEF FileChange
  <2>q. QED BY <1>1, <1>3, <1>6, <1>7, <2>1, <2>2 DEF Grows, IsFile
<1>10. Watches(proc)
  BY <1>3, <1>7 DEF Watches, FileChange
<1>q. QED BY <1>9, <1>10 DEF Gathers

(* A diff, or as much of it as was sent.                                    *)
LEMMA DiffGrows ==
  ASSUME TypeInv, NEW cur, Snapshot(cur), NEW new, Differs(new, prev, cur, now'),
         events' = events \o new, now' = now + 1, UNCHANGED <<proc, forks, early>>,
         faults \subseteq faults', "scan" \notin faults' => cur = proc
  PROVE  Grows(cur) /\ \A j \in New : events'[j].kind \in {"exit", "spawn"}
<1>1. events \in Seq(Event) /\ now \in Nat /\ now' \in Nat
  BY DEF TypeInv
<1>2. /\ new \in Seq(Event)
      /\ \A i \in 1..Len(new) : IsExit(new[i], prev, cur, now') \/ IsSpawn(new[i], prev, cur, now')
      /\ \A i, j \in 1..Len(new) :
           i < j /\ new[i].pid = new[j].pid => new[i].kind = "exit" /\ new[j].kind = "spawn"
  BY DEF Differs
<1>3. /\ events' \in Seq(Event)
      /\ \A i \in DOMAIN events : i \in DOMAIN events' /\ events'[i] = events[i]
      /\ \A i \in DOMAIN events : \A j \in New : i < j
      /\ \A j \in New : \E i \in 1..Len(new) : j = Len(events) + i /\ events'[j] = new[i]
      /\ Len(events) \in Nat
  BY <1>1, <1>2, Appended
<1>4. ASSUME NEW j \in New
      PROVE  /\ IsExit(events'[j], prev, cur, now') \/ IsSpawn(events'[j], prev, cur, now')
             /\ events'[j].ts = now' /\ events'[j].kind \in {"exit", "spawn"}
  <2>1. PICK i \in 1..Len(new) : events'[j] = new[i]
    BY <1>3
  <2>2. IsExit(events'[j], prev, cur, now') \/ IsSpawn(events'[j], prev, cur, now')
    BY <1>2, <2>1
  <2>q. QED BY <2>2 DEF IsExit, IsSpawn
<1>5. \A i, j \in New : i < j /\ events'[i].pid = events'[j].pid =>
                          events'[i].kind = "exit" /\ events'[j].kind = "spawn"
  <2> SUFFICES ASSUME NEW i \in New, NEW j \in New, i < j, events'[i].pid = events'[j].pid
               PROVE  events'[i].kind = "exit" /\ events'[j].kind = "spawn"
    OBVIOUS
  <2>1. PICK a \in 1..Len(new) : i = Len(events) + a /\ events'[i] = new[a]
    BY <1>3
  <2>2. PICK b \in 1..Len(new) : j = Len(events) + b /\ events'[j] = new[b]
    BY <1>3
  <2>3. a < b
    <3> DEFINE m == Len(events)
    <3>1. m \in Nat /\ i = m + a /\ j = m + b /\ a \in Int /\ b \in Int
      BY <1>3, <2>1, <2>2
    <3> HIDE DEF m
    <3>q. QED BY <3>1
  <2>q. QED BY <1>2, <2>1, <2>2, <2>3
<1>6. Grows(cur)
  <2>1. now' \in Nat /\ now <= now'
    BY <1>1
  <2>2. \A j \in New : /\ now' = now + 1 /\ events'[j].ts = now'
                       /\ IsExit(events'[j], prev, cur, now') \/ IsSpawn(events'[j], prev, cur, now')
    BY <1>4
  <2>3. \A i, j \in New : events'[i].kind = "sample" <=> events'[j].kind = "sample"
    <3> SUFFICES ASSUME NEW i \in New, NEW j \in New
                 PROVE  events'[i].kind = "sample" <=> events'[j].kind = "sample"
      OBVIOUS
    <3>1. events'[i].kind \in {"exit", "spawn"} /\ events'[j].kind \in {"exit", "spawn"}
      BY <1>4
    <3>q. QED BY <3>1
  <2>q. QED BY <1>3, <1>5, <2>1, <2>2, <2>3, Zenon DEF Grows
<1>q. QED BY <1>4, <1>6

LEMMA GatherDiff ==
  ASSUME TypeInv, DiffTick
  PROVE  \E cur : Gathers(cur)
<1> DEFINE new == Diff(prev, prev', now')
<1>1. /\ events \in Seq(Event) /\ now \in Nat /\ now' = now + 1 /\ now' \in Nat
      /\ prev \in [Pid -> Process] /\ proc \in [Pid -> Process] /\ events' = events \o new
  BY DEF TypeInv, DiffTick
<1>2. /\ Snapshot(prev') /\ prev' \in [Pid -> Process]
      /\ faults \subseteq faults' /\ ("scan" \notin faults' => prev' = proc)
  BY ScansAre DEF DiffTick, Snapshot
<1>3. Differs(new, prev, prev', now') /\ AllOf(new, prev, prev')
  BY <1>1, <1>2, DiffFacts
<1>4. UNCHANGED <<proc, forks, baseline, early>> /\ running /\ running'
  BY DEF DiffTick
<1> HIDE DEF new
<1>5. Grows(prev') /\ \A j \in New : events'[j].kind \in {"exit", "spawn"}
  BY <1>1, <1>2, <1>3, <1>4, DiffGrows
<1>6. \A i \in 1..Len(new) : Len(events) + i \in New /\ events'[Len(events) + i] = new[i]
  <2>1. new \in Seq(Event)
    BY <1>3 DEF Differs
  <2>q. QED BY <1>1, <2>1, Appended
<1>7. \A p \in Pid :
        /\ prev[p].id \notin {0, prev'[p].id} =>
             \E j \in New : events'[j].kind = "exit" /\ events'[j].pid = p
        /\ prev'[p].id \notin {0, prev[p].id} =>
             \E j \in New : events'[j].kind = "spawn" /\ events'[j].pid = p
  <2> SUFFICES ASSUME NEW p \in Pid
               PROVE  /\ prev[p].id \notin {0, prev'[p].id} =>
                            \E j \in New : events'[j].kind = "exit" /\ events'[j].pid = p
                      /\ prev'[p].id \notin {0, prev[p].id} =>
                            \E j \in New : events'[j].kind = "spawn" /\ events'[j].pid = p
    OBVIOUS
  <2>1. ASSUME prev[p].id \notin {0, prev'[p].id}
        PROVE  \E j \in New : events'[j].kind = "exit" /\ events'[j].pid = p
    <3>1. PICK i \in 1..Len(new) : new[i].kind = "exit" /\ new[i].pid = p
      BY <1>3, <2>1 DEF AllOf
    <3>q. QED BY <1>6, <3>1
  <2>2. ASSUME prev'[p].id \notin {0, prev[p].id}
        PROVE  \E j \in New : events'[j].kind = "spawn" /\ events'[j].pid = p
    <3>1. PICK i \in 1..Len(new) : new[i].kind = "spawn" /\ new[i].pid = p
      BY <1>3, <2>2 DEF AllOf
    <3>q. QED BY <1>6, <3>1
  <2>q. QED BY <2>1, <2>2
<1>8. Diffs(prev')
  BY <1>4, <1>5, <1>7 DEF Diffs
<1>q. QED BY <1>5, <1>8 DEF Gathers

LEMMA GatherStop ==
  ASSUME TypeInv, Stop
  PROVE  \E cur : Gathers(cur)
<1>1. /\ events \in Seq(Event) /\ now \in Nat /\ now + 1 \in Nat
      /\ prev \in [Pid -> Process] /\ proc \in [Pid -> Process]
  BY DEF TypeInv
<1>2. /\ running /\ ~running' /\ prev' = NoProcess /\ "stop" \in faults'
      /\ UNCHANGED <<proc, forks, baseline, early>>
  BY DEF Stop
<1>3. CASE UNCHANGED <<now, events>> /\ faults' = faults \cup {"stop"}
  <2>1. New = {}
    BY <1>3 DEF New
  <2>2. Grows(proc)
    BY <1>1, <1>2, <1>3, <2>1, ScansAre DEF Grows
  <2>3. Stops(proc)
    BY <1>2, <2>1 DEF Stops
  <2>q. QED BY <2>2, <2>3 DEF Gathers
<1>4. CASE /\ now' = now + 1
           /\ \E cur \in Scans :
                /\ faults' = WithScan(cur) \cup {"stop"}
                /\ \E n \in 0..Len(Diff(prev, cur, now')) :
                     events' = events \o SubSeq(Diff(prev, cur, now'), 1, n)
  <2>1. PICK cur \in Scans :
          /\ faults' = WithScan(cur) \cup {"stop"}
          /\ \E n \in 0..Len(Diff(prev, cur, now')) :
               events' = events \o SubSeq(Diff(prev, cur, now'), 1, n)
    BY <1>4
  <2>2. /\ Snapshot(cur) /\ cur \in [Pid -> Process] /\ faults \subseteq faults'
        /\ "scan" \notin faults' => cur = proc
    BY <2>1, ScansAre DEF Snapshot
  <2> DEFINE all == Diff(prev, cur, now')
  <2>3. PICK n \in 0..Len(all) : events' = events \o SubSeq(all, 1, n)
    BY <2>1
  <2>4. Differs(all, prev, cur, now')
    BY <1>1, <1>4, <2>2, DiffFacts
  <2> HIDE DEF all
  <2>5. Differs(SubSeq(all, 1, n), prev, cur, now')
    BY <2>4, PartOfDiff
  <2>6. Grows(cur) /\ \A j \in New : events'[j].kind \in {"exit", "spawn"}
    BY <1>2, <1>4, <2>2, <2>3, <2>5, DiffGrows
  <2>7. Stops(cur)
    BY <1>2, <2>6 DEF Stops
  <2>q. QED BY <2>6, <2>7 DEF Gathers
<1>q. QED BY <1>3, <1>4 DEF Stop

LEMMA Gathering ==
  ASSUME TypeInv, Collect \/ Stop
  PROVE  \E cur : Gathers(cur)
BY GatherSamples, GatherFiles, GatherDiff, GatherStop DEF Collect

LEMMA Turning ==
  ASSUME TypeInv, System
  PROVE  \E p : Turns(p)
<1>1. proc \in [Pid -> Process] /\ forks \in Nat
  BY DEF TypeInv
<1>2. ASSUME NEW parent \in Pid \cup {Outside}, NEW p \in Pid, Fork(parent, p)
      PROVE  Turns(p)
  <2> DEFINE x == [id |-> forks + 1, ppid |-> parent]
  <2>1. x \in Process /\ x.id = forks + 1
    BY <1>1 DEF Process
  <2>2. proc' = [proc EXCEPT ![p] = x] /\ forks' = forks + 1 /\ p \in Pid \ Live
        /\ UNCHANGED <<now, running, prev, baseline, early, faults, events>>
    BY <1>2 DEF Fork
  <2> HIDE DEF x
  <2>3. proc' \in [Pid -> Process] /\ proc'[p] = x /\ \A q \in Pid : q # p => proc'[q] = proc[q]
    BY <1>1, <2>1, <2>2
  <2>4. proc[p].id = 0
    BY <2>2 DEF Live
  <2>q. QED BY <2>1, <2>2, <2>3, <2>4 DEF Turns, Comes
<1>3. ASSUME NEW p \in Pid, Exit(p)
      PROVE  Turns(p)
  <2>1. ASSUME NEW q \in Pid
        PROVE  /\ proc'[q] \in Process
               /\ q # p => proc'[q].id = proc[q].id
               /\ q = p => proc'[q].id = 0
    <3>1. proc[q] \in Process
      BY <1>1
    <3>2. proc'[q] = IF q = p THEN Free
                     ELSE IF proc[q].ppid = p THEN [proc[q] EXCEPT !.ppid = Outside]
                     ELSE proc[q]
      BY <1>3 DEF Exit
    <3>3. Free \in Process /\ Free.id = 0
      BY DEF Free, Process, Outside
    <3> DEFINE r == proc[q]
               s == [r EXCEPT !.ppid = Outside]
    <3>4. s \in Process /\ s.id = r.id
      <4>1. r \in Process
        BY <3>1
      <4> HIDE DEF r
      <4>q. QED BY <4>1 DEF Process
    <3> HIDE DEF s
    <3>5. proc'[q] \in {Free, s, proc[q]} /\ (q = p => proc'[q] = Free)
          /\ (q # p => proc'[q] \in {s, proc[q]})
      BY <3>2 DEF s
    <3>q. QED BY <3>1, <3>3, <3>4, <3>5
  <2>2. proc' = [q \in Pid |-> proc'[q]]
    BY <1>3 DEF Exit
  <2>3. proc' \in [Pid -> Process]
    BY <2>1, <2>2
  <2>4. forks' = forks /\ UNCHANGED <<now, running, prev, baseline, early, faults, events>>
    BY <1>3 DEF Exit
  <2>q. QED BY <2>1, <2>3, <2>4 DEF Turns, Goes
<1>q. QED BY <1>2, <1>3 DEF System

LEMMA Losing ==
  ASSUME TypeInv, EvictOldest
  PROVE  Loses
<1>1. events \in Seq(Event) /\ events # <<>> /\ events' = Tail(events)
      /\ UNCHANGED <<proc, forks, now, running, prev, baseline, early, faults>>
  BY DEF TypeInv, EvictOldest
<1> DEFINE n == Len(events)
<1>2. n \in Nat /\ n > 0 /\ DOMAIN events = 1..n
  BY <1>1, EmptySeq, LenProperties
<1>3. /\ events' \in Seq(Event) /\ Len(events') = n - 1
      /\ \A i \in 1..(n - 1) : events'[i] = events[i + 1]
  BY <1>1
<1>4. DOMAIN events' = 1..(n - 1)
  BY <1>3, LenProperties
<1> HIDE DEF n
<1>5. \A j \in DOMAIN events' : j + 1 \in DOMAIN events /\ events'[j] = events[j + 1]
  BY <1>2, <1>3, <1>4
<1>6. ASSUME NEW i \in DOMAIN events
      PROVE  i \in Nat /\ (i = 1 \/ (i - 1 \in DOMAIN events' /\ events'[i - 1] = events[i]))
  <2>1. i \in 1..n
    BY <1>2
  <2>2. i = 1 \/ i - 1 \in 1..(n - 1)
    BY <1>2, <2>1
  <2>3. ASSUME i - 1 \in 1..(n - 1) PROVE events'[i - 1] = events[i]
    <3>1. events'[i - 1] = events[(i - 1) + 1] /\ (i - 1) + 1 = i
      BY <1>3, <2>1, <2>3
    <3>q. QED BY <3>1
  <2>q. QED BY <1>4, <2>1, <2>2, <2>3
<1>q. QED BY <1>1, <1>3, <1>5, <1>6 DEF Loses

-----------------------------------------------------------------------------
(* Types, and what is so of each event by itself.                           *)

LEMMA EventAt ==
  ASSUME events \in Seq(Event)
  PROVE  /\ Len(events) \in Nat /\ DOMAIN events = 1..Len(events)
         /\ \A i \in DOMAIN events :
              /\ i \in Nat /\ events[i] \in Event /\ events[i].pid \in Nat /\ events[i].id \in Nat
              /\ events[i].ts \in Nat /\ events[i].kind \in {"spawn", "exit", "sample", "file"}
              /\ events[i].ppid \in Nat /\ events[i].parent \in Nat
<1>1. Len(events) \in Nat /\ DOMAIN events = 1..Len(events)
  BY LenProperties
<1>2. \A i \in DOMAIN events : i \in Nat /\ events[i] \in Event
  BY <1>1, ElementOfSeq
<1>3. \A e \in Event : /\ e.pid \in Nat /\ e.id \in Nat /\ e.ts \in Nat
                       /\ e.kind \in {"spawn", "exit", "sample", "file"}
                       /\ e.ppid \in Nat /\ e.parent \in Nat
  BY DEF Event
<1>q. QED BY <1>1, <1>2, <1>3

LEMMA OldOrNew ==
  \A j \in DOMAIN events' : j \in DOMAIN events \/ j \in New
BY DEF New

LEMMA TypesKept ==
  ASSUME TypeInv, \A p \in Pid : proc[p].id \in 0..forks, Next
  PROVE  TypeInv'
<1>1. CASE Collect \/ Stop
  <2>1. PICK cur : Gathers(cur)
    BY <1>1, Gathering
  <2>2. /\ proc' = proc /\ forks' = forks /\ now' \in Nat /\ events' \in Seq(Event)
        /\ cur \in [Pid -> Process]
    BY <2>1 DEF Gathers, Grows, Snapshot
  <2>3. /\ running' \in BOOLEAN
        /\ prev' \in [Pid -> Process]
        /\ baseline' \subseteq 0..forks /\ early' \subseteq 0..forks
        /\ faults' \subseteq {"scan", "stop"}
    <3>1. /\ proc \in [Pid -> Process] /\ prev \in [Pid -> Process] /\ forks \in Nat
          /\ running \in BOOLEAN /\ baseline \subseteq 0..forks /\ early \subseteq 0..forks
          /\ faults \subseteq {"scan", "stop"}
      BY DEF TypeInv
    <3>2. prev' \in {prev, cur, NoProcess}
      BY <2>1 DEF Gathers, Watches, Diffs, Starts, Stops
    <3>3. prev' \in [Pid -> Process]
      BY <2>2, <3>1, <3>2, NoProcessFields
    <3>4. running' \in BOOLEAN
      BY <1>1, <3>1 DEF Collect, Start, DiffTick, SampleTick, FileChange, Stop
    <3>5. faults' \subseteq {"scan", "stop"}
      BY <1>1, <3>1 DEF Collect, Start, DiffTick, SampleTick, FileChange, Stop, WithScan
    <3>6. baseline' \subseteq 0..forks
      <4>1. CASE Start
        <5>1. baseline' = baseline \cup {proc[p].id : p \in Live}
          BY <4>1 DEF Start
        <5>2. \A p \in Live : proc[p].id \in 0..forks
          BY DEF Live
        <5>q. QED BY <3>1, <5>1, <5>2
      <4>2. CASE ~Start
        BY <1>1, <3>1, <4>2 DEF Collect, DiffTick, SampleTick, FileChange, Stop
      <4>q. QED BY <4>1, <4>2
    <3>7. early' \subseteq 0..forks
      <4>1. CASE SampleTick
        <5>1. PICK S \in SUBSET (Live \cap Busy) \ {{}} :
                early' = early \cup {proc[p].id : p \in {q \in S : prev[q].id # proc[q].id}}
          BY <4>1 DEF SampleTick
        <5>2. \A p \in S : proc[p].id \in 0..forks
          BY <5>1 DEF Live
        <5>q. QED BY <3>1, <5>1, <5>2
      <4>2. CASE ~SampleTick
        BY <1>1, <3>1, <4>2 DEF Collect, Start, DiffTick, FileChange, Stop
      <4>q. QED BY <4>1, <4>2
    <3>q. QED BY <3>3, <3>4, <3>5, <3>6, <3>7
  <2>q. QED BY <2>2, <2>3 DEF TypeInv
<1>2. CASE System
  <2>1. PICK p : Turns(p)
    BY <1>2, Turning
  <2>2. forks \in Nat /\ forks' \in {forks, forks + 1}
    BY <2>1 DEF Turns, Comes, Goes, TypeInv
  <2>3. baseline \subseteq 0..forks' /\ early \subseteq 0..forks'
    <3>1. baseline \subseteq 0..forks /\ early \subseteq 0..forks
      BY DEF TypeInv
    <3>2. 0..forks \subseteq 0..forks'
      BY <2>2
    <3>q. QED BY <3>1, <3>2
  <2>q. QED BY <2>1, <2>2, <2>3 DEF Turns, TypeInv
<1>3. CASE EvictOldest
  BY <1>3, Losing DEF TypeInv, Loses
<1>q. QED BY <1>1, <1>2, <1>3 DEF Next

LEMMA RecordedKept ==
  ASSUME TypeInv, Recorded, Next
  PROVE  Recorded'
<1>1. CASE Collect \/ Stop
  <2>1. PICK cur : Gathers(cur)
    BY <1>1, Gathering
  <2>2. Grows(cur)
    BY <2>1 DEF Gathers
  <2>3. /\ now \in Nat /\ now' \in Nat /\ now <= now'
        /\ \A i \in DOMAIN events : events'[i] = events[i]
        /\ \A j \in New : now' = now + 1 /\ events'[j].ts = now'
    BY <2>2 DEF Grows, TypeInv
  <2>4. \A j \in New : \/ IsFile(events'[j]) \/ IsSample(events'[j])
                      \/ IsExit(events'[j], prev, cur, now') \/ IsSpawn(events'[j], prev, cur, now')
    BY <2>2 DEF Grows
  <2> SUFFICES ASSUME NEW j \in DOMAIN events'
               PROVE  /\ events'[j].ts \in 1..now'
                      /\ events'[j].kind = "file" => events'[j].pid = 0 /\ events'[j].id = 0
                      /\ events'[j].kind # "file" => events'[j].pid \in Pid /\ events'[j].id # 0
    BY DEF Recorded
  <2>5. CASE j \in DOMAIN events
    <3>1. events[j].ts \in 1..now /\ 1..now \subseteq 1..now'
      BY <2>3, <2>5 DEF Recorded
    <3>q. QED BY <2>3, <2>5, <3>1 DEF Recorded
  <2>6. CASE j \in New
    <3>1. events'[j].ts \in 1..now'
      BY <2>3, <2>6
    <3>q. QED BY <2>4, <2>6, <3>1 DEF IsFile, IsSample, IsExit, IsSpawn
  <2>q. QED BY <2>5, <2>6, OldOrNew
<1>2. CASE System
  <2>1. PICK p : Turns(p)
    BY <1>2, Turning
  <2>q. QED BY <2>1 DEF Turns, Recorded
<1>3. CASE EvictOldest
  BY <1>3, Losing DEF Recorded, Loses
<1>q. QED BY <1>1, <1>2, <1>3 DEF Next

LEMMA TimelyKept ==
  ASSUME TypeInv, Recorded, Timely, Next
  PROVE  Timely'
<1>0. events \in Seq(Event) /\ now \in Nat /\ \A i \in DOMAIN events : i \in Nat
  BY EventAt DEF TypeInv
<1>1. CASE Collect \/ Stop
  <2>1. PICK cur : Gathers(cur)
    BY <1>1, Gathering
  <2>2. /\ \A i \in DOMAIN events : events'[i] = events[i]
        /\ \A i \in DOMAIN events : \A j \in New : i < j
        /\ \A j \in New : now' = now + 1 /\ events'[j].ts = now'
        /\ \A i, j \in New : events'[i].kind = "sample" <=> events'[j].kind = "sample"
        /\ events' \in Seq(Event)
    BY <2>1 DEF Gathers, Grows
  <2>3. \A i \in DOMAIN events : events[i].ts \in 1..now
    BY DEF Recorded
  <2>4. \A j \in New : j \in Nat
    <3>1. DOMAIN events' = 1..Len(events') /\ Len(events') \in Nat
      BY <2>2, LenProperties
    <3>q. QED BY <3>1 DEF New
  <2>5. ASSUME NEW i \in DOMAIN events', NEW j \in DOMAIN events'
        PROVE  /\ i < j => events'[i].ts <= events'[j].ts
               /\ events'[i].ts = events'[j].ts =>
                    (events'[i].kind = "sample" <=> events'[j].kind = "sample")
    <3>1. CASE i \in DOMAIN events /\ j \in DOMAIN events
      BY <2>2, <3>1 DEF Timely, InOrder
    <3>2. CASE i \in DOMAIN events /\ j \in New
      <4>1. events'[i].ts \in 1..now /\ events'[j].ts = now + 1
        BY <2>2, <2>3, <3>2
      <4>2. events'[i].ts < events'[j].ts /\ events'[i].ts # events'[j].ts
        BY <1>0, <4>1
      <4>3. events'[i].ts <= events'[j].ts
        BY <1>0, <4>1
      <4>q. QED BY <4>2, <4>3
    <3>3. CASE i \in New /\ j \in DOMAIN events
      <4>1. j < i /\ i \in Nat /\ j \in Nat
        BY <1>0, <2>2, <2>4, <3>3
      <4>2. events'[j].ts \in 1..now /\ events'[i].ts = now + 1
        BY <2>2, <2>3, <3>3
      <4>3. ~(i < j) /\ events'[i].ts # events'[j].ts
        BY <1>0, <4>1, <4>2
      <4>q. QED BY <4>3
    <3>4. CASE i \in New /\ j \in New
      <4>1. events'[i].ts = now + 1 /\ events'[j].ts = now + 1 /\ now + 1 <= now + 1
        BY <1>0, <2>2, <3>4
      <4>2. events'[i].kind = "sample" <=> events'[j].kind = "sample"
        BY <2>2, <3>4
      <4>q. QED BY <4>1, <4>2
    <3>q. QED BY <3>1, <3>2, <3>3, <3>4, OldOrNew
  <2>6. InOrder(events')
    BY <2>5 DEF InOrder
  <2>q. QED BY <2>5, <2>6 DEF Timely
<1>2. CASE System
  <2>1. PICK p : Turns(p)
    BY <1>2, Turning
  <2>q. QED BY <2>1 DEF Turns, Timely
<1>3. CASE EvictOldest
  <2>1. Loses
    BY <1>3, Losing
  <2>2. \A j \in DOMAIN events' : j + 1 \in DOMAIN events /\ events'[j] = events[j + 1]
    BY <2>1 DEF Loses
  <2>3. DOMAIN events' = 1..Len(events')
    BY <2>1, LenProperties DEF Loses
  <2>4. ASSUME NEW i \in DOMAIN events', NEW j \in DOMAIN events'
        PROVE  /\ i < j => events'[i].ts <= events'[j].ts
               /\ events'[i].ts = events'[j].ts =>
                    (events'[i].kind = "sample" <=> events'[j].kind = "sample")
    <3>1. i < j => i + 1 < j + 1
      BY <2>3
    <3>q. QED BY <2>2, <3>1 DEF Timely, InOrder
  <2>5. InOrder(events')
    BY <2>4 DEF InOrder
  <2>q. QED BY <2>4, <2>5 DEF Timely
<1>q. QED BY <1>1, <1>2, <1>3 DEF Next

-----------------------------------------------------------------------------
(* Who was seen under which pid.                                            *)

LEMMA InSeen ==
  ASSUME NEW p
  PROVE  /\ proc[p].id \in SeenAt(p) /\ prev[p].id \in SeenAt(p)
         /\ \A i \in DOMAIN events : events[i].pid = p => events[i].id \in SeenAt(p)
BY DEF SeenAt

LEMMA IdFacts ==
  ASSUME TypeInv, Recorded, OnePid
  PROVE  /\ forks \in Nat
         /\ \A p \in Pid : proc[p].id \in 0..forks /\ prev[p].id \in 0..forks
         /\ \A i \in DOMAIN events : events[i].id \in 0..forks
         /\ \A p, q \in Pid : \A x \in {proc[p].id, prev[p].id} :
              x \in {proc[q].id, prev[q].id} => x = 0 \/ p = q
         /\ \A i \in DOMAIN events : \A p \in Pid :
              events[i].id \in {proc[p].id, prev[p].id} => events[i].id = 0 \/ events[i].pid = p
         /\ \A i, j \in DOMAIN events :
              events[i].id = events[j].id => events[i].id = 0 \/ events[i].pid = events[j].pid
         /\ \A p \in Pid : proc[p].id # 0 =>
              /\ prev[p].id <= proc[p].id
              /\ \A i \in DOMAIN events : events[i].pid = p => events[i].id <= proc[p].id
<1>1. forks \in Nat
  BY DEF TypeInv
<1>2. /\ \A p \in Pid : SeenAt(p) \subseteq 0..forks
      /\ \A p, q \in Pid : \A x \in SeenAt(p) : x \in SeenAt(q) => x = 0 \/ p = q
      /\ \A p \in Pid : proc[p].id # 0 => \A x \in SeenAt(p) : x <= proc[p].id
  BY DEF OnePid
<1>3. \A i \in DOMAIN events : events[i].id = 0 \/ events[i].pid \in Pid
  BY DEF Recorded
<1>4. \A p \in Pid : /\ proc[p].id \in SeenAt(p) /\ prev[p].id \in SeenAt(p)
                     /\ \A i \in DOMAIN events : events[i].pid = p => events[i].id \in SeenAt(p)
  BY InSeen
<1>5. \A p \in Pid : proc[p].id \in 0..forks /\ prev[p].id \in 0..forks
  BY <1>2, <1>4
<1>6. \A i \in DOMAIN events : events[i].id \in 0..forks
  <2> SUFFICES ASSUME NEW i \in DOMAIN events PROVE events[i].id \in 0..forks
    OBVIOUS
  <2>1. CASE events[i].id = 0
    BY <1>1, <2>1
  <2>2. CASE events[i].pid \in Pid
    BY <1>2, <1>4, <2>2
  <2>q. QED BY <1>3, <2>1, <2>2
<1>7. \A p, q \in Pid : \A x \in {proc[p].id, prev[p].id} :
        x \in {proc[q].id, prev[q].id} => x = 0 \/ p = q
  BY <1>2, <1>4
<1>8. \A i \in DOMAIN events : \A p \in Pid :
        events[i].id \in {proc[p].id, prev[p].id} => events[i].id = 0 \/ events[i].pid = p
  BY <1>2, <1>3, <1>4
<1>9. \A i, j \in DOMAIN events :
        events[i].id = events[j].id => events[i].id = 0 \/ events[i].pid = events[j].pid
  BY <1>2, <1>3, <1>4
<1>10. \A p \in Pid : proc[p].id # 0 =>
         /\ prev[p].id <= proc[p].id
         /\ \A i \in DOMAIN events : events[i].pid = p => events[i].id <= proc[p].id
  BY <1>2, <1>4
<1>q. QED BY <1>1, <1>5, <1>6, <1>7, <1>8, <1>9, <1>10

(* An event that is new is of a process known under its pid.                *)
LEMMA NewIsSeen ==
  ASSUME TypeInv, NEW cur, Gathers(cur), NEW p \in Pid
  PROVE  SeenAt(p)' \subseteq SeenAt(p) \cup {0}
<1>1. Grows(cur)
  BY DEF Gathers
<1>2. proc' = proc /\ Snapshot(cur)
  BY <1>1 DEF Grows
<1>3. proc[p].id \in SeenAt(p) /\ prev[p].id \in SeenAt(p) /\ cur[p].id \in {proc[p].id, 0}
  BY <1>2, SnapshotIds, InSeen
<1>4. prev'[p].id \in {prev[p].id, proc[p].id, 0}
  <2>1. prev' \in {prev, cur, NoProcess}
    BY DEF Gathers, Watches, Diffs, Starts, Stops
  <2>q. QED BY <1>3, <2>1, NoProcessFields
<1>5. ASSUME NEW i \in DOMAIN events', events'[i].pid = p
      PROVE  events'[i].id \in SeenAt(p) \cup {0}
  <2>1. CASE i \in DOMAIN events
    <3>1. events'[i] = events[i]
      BY <1>1, <2>1 DEF Grows
    <3>q. QED BY <1>5, <2>1, <3>1, InSeen
  <2>2. CASE i \in New
    <3>1. \/ IsFile(events'[i]) \/ IsSample(events'[i])
          \/ IsExit(events'[i], prev, cur, now') \/ IsSpawn(events'[i], prev, cur, now')
      BY <1>1, <2>2 DEF Grows
    <3>q. QED BY <1>3, <1>5, <3>1 DEF IsFile, IsSample, IsExit, IsSpawn
  <2>q. QED BY <2>1, <2>2, OldOrNew
<1>q. QED BY <1>2, <1>3, <1>4, <1>5 DEF SeenAt

LEMMA OnePidKept ==
  ASSUME TypeInv, Recorded, OnePid, Next
  PROVE  OnePid'
<1>0. /\ \A p \in Pid : SeenAt(p) \subseteq 0..forks
      /\ \A p, q \in Pid : \A x \in SeenAt(p) : x \in SeenAt(q) => x = 0 \/ p = q
      /\ \A p \in Pid : proc[p].id # 0 => \A x \in SeenAt(p) : x <= proc[p].id
      /\ forks \in Nat /\ 0 \in 0..forks
  BY DEF OnePid, TypeInv
<1>1. CASE \/ \E cur : Gathers(cur)
           \/ Loses
  <2>1. proc' = proc /\ forks' = forks
    BY <1>1 DEF Gathers, Grows, Loses
  <2>2. \A p \in Pid : SeenAt(p)' \subseteq SeenAt(p) \cup {0}
    <3>1. CASE \E cur : Gathers(cur)
      BY <3>1, NewIsSeen
    <3>2. CASE Loses
      BY <3>2 DEF Loses, SeenAt
    <3>q. QED BY <1>1, <3>1, <3>2
  <2>3. \A p \in Pid : (SeenAt(p))' \subseteq 0..forks'
    BY <1>0, <2>1, <2>2
  <2>4. \A p, q \in Pid : \A x \in SeenAt(p)' : x \in SeenAt(q)' => x = 0 \/ p = q
    BY <1>0, <2>2
  <2>5. \A p \in Pid : proc'[p].id # 0 => \A x \in SeenAt(p)' : x <= proc'[p].id
    <3> SUFFICES ASSUME NEW p \in Pid, proc'[p].id # 0, NEW x \in SeenAt(p)'
                 PROVE  x <= proc'[p].id
      OBVIOUS
    <3>1. proc[p].id \in 0..forks
      BY <1>0, InSeen
    <3>2. x \in SeenAt(p) \/ x = 0
      BY <2>2
    <3>q. QED BY <1>0, <2>1, <3>1, <3>2
  <2>q. QED BY <2>3, <2>4, <2>5 DEF OnePid
<1>2. CASE System
  <2>1. PICK p : Turns(p)
    BY <1>2, Turning
  <2>2. /\ p \in Pid /\ proc' \in [Pid -> Process] /\ (Comes(p) \/ Goes(p))
        /\ \A q \in Pid : q # p => proc'[q].id = proc[q].id
        /\ UNCHANGED <<prev, events>>
    BY <2>1 DEF Turns
  <2>3. \A q \in Pid : q # p => SeenAt(q)' = SeenAt(q)
    BY <2>2 DEF SeenAt
  <2>4. SeenAt(p)' \subseteq SeenAt(p) \cup {proc'[p].id}
    BY <2>2 DEF SeenAt
  <2>5. proc[p].id \in 0..forks /\ proc[p].id \in SeenAt(p)
    BY <1>0, <2>2, InSeen
  <2>6. CASE Comes(p)
    <3>1. proc[p].id = 0 /\ forks' = forks + 1 /\ proc'[p].id = forks + 1
      BY <2>6 DEF Comes
    <3>2. \A q \in Pid : (SeenAt(q))' \subseteq 0..forks'
      BY <1>0, <2>2, <2>3, <2>4, <3>1
    <3>3. \A q \in Pid : (forks + 1) \notin SeenAt(q)
      BY <1>0
    <3>4. \A q, r \in Pid : \A x \in SeenAt(q)' : x \in SeenAt(r)' => x = 0 \/ q = r
      BY <1>0, <2>2, <2>3, <2>4, <3>1, <3>3
    <3>5. \A q \in Pid : proc'[q].id # 0 => \A x \in SeenAt(q)' : x <= proc'[q].id
      <4> SUFFICES ASSUME NEW q \in Pid, proc'[q].id # 0, NEW x \in SeenAt(q)'
                   PROVE  x <= proc'[q].id
        OBVIOUS
      <4>1. CASE q = p
        <5>1. x \in 0..forks \/ x = forks + 1
          BY <1>0, <2>2, <2>4, <3>1, <4>1
        <5>q. QED BY <1>0, <3>1, <4>1, <5>1
      <4>2. CASE q # p
        BY <1>0, <2>2, <2>3, <4>2
      <4>q. QED BY <4>1, <4>2
    <3>q. QED BY <3>2, <3>4, <3>5 DEF OnePid
  <2>7. CASE Goes(p)
    <3>1. forks' = forks /\ proc'[p].id = 0
      BY <2>7 DEF Goes
    <3>2. \A q \in Pid : SeenAt(q)' \subseteq SeenAt(q) \cup {0}
      BY <2>3, <2>4, <3>1
    <3>3. \A q \in Pid : (SeenAt(q))' \subseteq 0..forks'
      BY <1>0, <3>1, <3>2
    <3>4. \A q, r \in Pid : \A x \in SeenAt(q)' : x \in SeenAt(r)' => x = 0 \/ q = r
      BY <1>0, <3>2
    <3>5. \A q \in Pid : proc'[q].id # 0 => \A x \in SeenAt(q)' : x <= proc'[q].id
      BY <1>0, <2>2, <2>3, <3>1
    <3>q. QED BY <3>3, <3>4, <3>5 DEF OnePid
  <2>q. QED BY <2>2, <2>6, <2>7
<1>q. QED BY <1>1, <1>2, Gathering, Losing DEF Next

LEMMA NewSays ==
  ASSUME NEW cur, Gathers(cur), NEW j \in New
  PROVE  /\ Snapshot(cur) /\ ("scan" \notin faults' => cur = proc)
         /\ proc' = proc /\ forks' = forks /\ faults \subseteq faults'
         /\ j \in DOMAIN events' /\ now' = now + 1 /\ events'[j].ts = now'
         /\ events'[j].kind \in {"exit", "spawn", "sample", "file"}
         /\ events'[j].kind = "exit" =>
              /\ events'[j].pid \in Pid /\ events'[j].id = prev[events'[j].pid].id
              /\ events'[j].id # 0 /\ events'[j].id # cur[events'[j].pid].id
         /\ events'[j].kind = "spawn" =>
              /\ events'[j].pid \in Pid /\ events'[j].id = proc[events'[j].pid].id
              /\ events'[j].id = cur[events'[j].pid].id
              /\ events'[j].id # 0 /\ events'[j].id # prev[events'[j].pid].id
              /\ events'[j].ppid \in Pid => events'[j].parent = cur[events'[j].ppid].id
         /\ events'[j].kind = "sample" =>
              /\ events'[j].pid \in Pid /\ events'[j].id = proc[events'[j].pid].id
              /\ events'[j].id # 0
         /\ events'[j].kind = "file" => events'[j].id = 0 /\ events'[j].pid = 0
<1>1. Grows(cur)
  BY DEF Gathers
<1>2. /\ Snapshot(cur) /\ ("scan" \notin faults' => cur = proc)
      /\ proc' = proc /\ forks' = forks /\ faults \subseteq faults'
      /\ now' = now + 1 /\ events'[j].ts = now'
  BY <1>1 DEF Grows
<1>3. \/ IsFile(events'[j]) \/ IsSample(events'[j])
      \/ IsExit(events'[j], prev, cur, now') \/ IsSpawn(events'[j], prev, cur, now')
  BY <1>1 DEF Grows
<1>4. j \in DOMAIN events'
  BY DEF New
<1> DEFINE e == events'[j]
<1>6. IsFile(e) => e.kind = "file" /\ e.id = 0 /\ e.pid = 0
  BY DEF IsFile
<1>7. IsSample(e) => e.kind = "sample" /\ e.pid \in Pid /\ e.id = proc[e.pid].id /\ e.id # 0
  BY DEF IsSample
<1>8. IsExit(e, prev, cur, now') =>
        /\ e.kind = "exit" /\ e.pid \in Pid /\ e.id = prev[e.pid].id
        /\ e.id # 0 /\ e.id # cur[e.pid].id
  BY DEF IsExit
<1>9. IsSpawn(e, prev, cur, now') =>
        /\ e.kind = "spawn" /\ e.pid \in Pid /\ e.id = cur[e.pid].id /\ e.id = proc[e.pid].id
        /\ e.id # 0 /\ e.id # prev[e.pid].id
        /\ (e.ppid \in Pid => e.parent = cur[e.ppid].id)
  BY <1>2, SnapshotIds DEF IsSpawn
<1> HIDE DEF e
<1>10. CASE IsFile(e)
  BY <1>2, <1>4, <1>6, <1>10 DEF e
<1>11. CASE IsSample(e)
  BY <1>2, <1>4, <1>7, <1>11 DEF e
<1>12. CASE IsExit(e, prev, cur, now')
  BY <1>2, <1>4, <1>8, <1>12 DEF e
<1>13. CASE IsSpawn(e, prev, cur, now')
  BY <1>2, <1>4, <1>9, <1>13 DEF e
<1>q. QED BY <1>3, <1>10, <1>11, <1>12, <1>13 DEF e

LEMMA OldStays ==
  ASSUME NEW cur, Gathers(cur), NEW i \in DOMAIN events
  PROVE  i \in DOMAIN events' /\ events'[i] = events[i] /\ \A j \in New : i < j
BY DEF Gathers, Grows

LEMMA IdleKept ==
  ASSUME TypeInv, Idle, Next
  PROVE  Idle'
<1>1. CASE Collect \/ Stop
  <2>1. PICK cur : Gathers(cur)
    BY <1>1, Gathering
  <2>q. QED BY <2>1 DEF Gathers, Watches, Diffs, Starts, Stops, Idle
<1>2. CASE System
  BY <1>2, Turning DEF Turns, Idle
<1>3. CASE EvictOldest
  BY <1>3, Losing DEF Loses, Idle
<1>q. QED BY <1>1, <1>2, <1>3 DEF Next

-----------------------------------------------------------------------------
(* While the scans succeed. *)

LEMMA ExitsKept ==
  ASSUME TypeInv, Recorded, OnePid, ExitsAreTrue, Next, "scan" \notin faults'
  PROVE  ExitsAreTrue'
<1>0. \A i \in DOMAIN events : events[i].kind = "exit" => events[i].pid \in Pid /\ events[i].id # 0
  BY DEF Recorded
<1>1. CASE Collect \/ Stop
  <2>1. PICK cur : Gathers(cur)
    BY <1>1, Gathering
  <2>2. cur = proc /\ proc' = proc
    BY <2>1 DEF Gathers, Grows
  <2> SUFFICES ASSUME NEW j \in DOMAIN events', events'[j].kind = "exit", NEW p \in Pid
               PROVE  events'[j].id # proc[p].id /\ events'[j].id # prev'[p].id
    BY <2>2 DEF ExitsAreTrue
  <2>3. prev' \in {prev, proc, NoProcess}
    BY <2>1, <2>2 DEF Gathers, Watches, Diffs, Starts, Stops
  <2>4. CASE j \in DOMAIN events
    <3>1. events'[j] = events[j] /\ events[j].kind = "exit" /\ events[j].id # 0
      BY <1>0, <2>1, <2>4, OldStays
    <3>2. events[j].id # proc[p].id /\ events[j].id # prev[p].id
      BY <2>4, <3>1 DEF ExitsAreTrue
    <3>q. QED BY <2>3, <3>1, <3>2, NoProcessFields
  <2>5. CASE j \in New
    <3> DEFINE q == events'[j].pid
               x == events'[j].id
    <3>1. q \in Pid /\ x = prev[q].id /\ x # 0 /\ x # proc[q].id
      BY <2>1, <2>2, <2>5, NewSays
    <3>2. prev' \in {proc, NoProcess}
      BY <2>1, <2>2, <2>5 DEF Gathers, Watches, Diffs, Starts, Stops
    <3> HIDE DEF x, q
    <3>3. x # proc[p].id
      <4>1. CASE p = q
        BY <3>1, <4>1
      <4>2. CASE p # q
        BY <3>1, <4>2, IdFacts
      <4>q. QED BY <4>1, <4>2
    <3>4. x # prev'[p].id
      BY <3>1, <3>2, <3>3, NoProcessFields
    <3>q. QED BY <3>3, <3>4 DEF x
  <2>q. QED BY <2>4, <2>5, OldOrNew
<1>2. CASE System
  <2>1. PICK p : Turns(p)
    BY <1>2, Turning
  <2> SUFFICES ASSUME NEW j \in DOMAIN events, events[j].kind = "exit", NEW q \in Pid
               PROVE  events[j].id # proc'[q].id /\ events[j].id # prev[q].id
    BY <2>1 DEF ExitsAreTrue, Turns
  <2>2. events[j].id # proc[q].id /\ events[j].id # prev[q].id
    BY DEF ExitsAreTrue
  <2>3. proc'[q].id \in {proc[q].id, 0, forks + 1}
    BY <2>1 DEF Turns, Comes, Goes
  <2>4. events[j].id # 0 /\ events[j].id \in 0..forks /\ forks \in Nat
    BY <1>0, IdFacts
  <2>q. QED BY <2>2, <2>3, <2>4
<1>3. CASE EvictOldest
  BY <1>3, Losing DEF Loses, ExitsAreTrue
<1>q. QED BY <1>1, <1>2, <1>3 DEF Next

LEMMA FreshKept ==
  ASSUME TypeInv, Recorded, OnePid, NewIsFresh, Next, "scan" \notin faults'
  PROVE  NewIsFresh'
<1>1. CASE Collect \/ Stop
  <2>1. PICK cur : Gathers(cur)
    BY <1>1, Gathering
  <2>2. cur = proc /\ proc' = proc
    BY <2>1 DEF Gathers, Grows
  <2> SUFFICES ASSUME running', NEW p \in Pid, proc[p].id # 0, proc[p].id # prev'[p].id
               PROVE  /\ proc[p].id \notin baseline'
                      /\ \A i \in DOMAIN events' : events'[i].id = proc[p].id =>
                                                     events'[i].kind = "sample"
    BY <2>2 DEF NewIsFresh
  <2>3. Watches(cur)
    BY <2>1, <2>2 DEF Gathers, Diffs, Starts, Stops
  <2>4. running /\ prev' = prev /\ baseline' = baseline
        /\ \A j \in New : events'[j].kind \in {"sample", "file"}
    BY <2>3 DEF Watches
  <2>5. /\ proc[p].id \notin baseline
        /\ \A i \in DOMAIN events : events[i].id = proc[p].id => events[i].kind = "sample"
    BY <2>4 DEF NewIsFresh
  <2>6. ASSUME NEW i \in DOMAIN events', events'[i].id = proc[p].id
        PROVE  events'[i].kind = "sample"
    <3>1. CASE i \in DOMAIN events
      BY <2>1, <2>5, <2>6, <3>1, OldStays
    <3>2. CASE i \in New
      <4>1. events'[i].kind = "file" => events'[i].id = 0
        BY <2>1, <3>2, NewSays
      <4>q. QED BY <2>4, <2>6, <3>2, <4>1
    <3>q. QED BY <3>1, <3>2, OldOrNew
  <2>q. QED BY <2>4, <2>5, <2>6
<1>2. CASE System
  <2>1. PICK p : Turns(p)
    BY <1>2, Turning
  <2> SUFFICES ASSUME running, NEW q \in Pid, proc'[q].id # 0, proc'[q].id # prev[q].id
               PROVE  /\ proc'[q].id \notin baseline
                      /\ \A i \in DOMAIN events : events[i].id = proc'[q].id =>
                                                    events[i].kind = "sample"
    BY <2>1 DEF NewIsFresh, Turns
  <2>2. CASE proc'[q].id = proc[q].id
    BY <2>2 DEF NewIsFresh
  <2>3. CASE proc'[q].id # proc[q].id
    <3>1. proc'[q].id = forks + 1
      BY <2>1, <2>3 DEF Turns, Comes, Goes
    <3>2. baseline \subseteq 0..forks /\ forks \in Nat
      BY DEF TypeInv
    <3>3. \A i \in DOMAIN events : events[i].id \in 0..forks
      BY IdFacts
    <3>q. QED BY <3>1, <3>2, <3>3
  <2>q. QED BY <2>2, <2>3
<1>3. CASE EvictOldest
  <2>1. Loses
    BY <1>3, Losing
  <2>2. SUFFICES ASSUME running', NEW p \in Pid, proc'[p].id \notin {0, prev'[p].id}
                 PROVE  /\ proc'[p].id \notin baseline'
                        /\ \A i \in DOMAIN events' : events'[i].id = proc'[p].id => events'[i].kind = "sample"
    BY DEF NewIsFresh
  <2>3. running /\ proc' = proc /\ prev' = prev /\ baseline' = baseline
    BY <2>1, <2>2 DEF Loses
  <2>4. \A i \in DOMAIN events' : \E j \in DOMAIN events : events'[i] = events[j]
    BY <2>1 DEF Loses
  <2>q. QED BY <2>2, <2>3, <2>4 DEF NewIsFresh
<1>q. QED BY <1>1, <1>2, <1>3 DEF Next

LEMMA SpawnedOnceKept ==
  ASSUME TypeInv, Recorded, OnePid, NewIsFresh, SpawnedOnce, Next, "scan" \notin faults'
  PROVE  SpawnedOnce'
<1>1. CASE Collect \/ Stop
  <2>1. PICK cur : Gathers(cur)
    BY <1>1, Gathering
  <2>2. cur = proc /\ proc' = proc
    BY <2>1 DEF Gathers, Grows
  <2> SUFFICES ASSUME NEW i \in DOMAIN events', NEW j \in DOMAIN events', i < j,
                      events'[i].id = events'[j].id, events'[j].kind = "spawn"
               PROVE  events'[i].kind = "sample"
    BY DEF SpawnedOnce
  <2>3. CASE j \in DOMAIN events
    <3>1. \A k \in New : j < k /\ k \in Int /\ j \in Int /\ i \in Int
      <4>1. events' \in Seq(Event)
        BY <2>1 DEF Gathers, Grows
      <4>2. DOMAIN events' = 1..Len(events') /\ Len(events') \in Nat
        BY <4>1, LenProperties
      <4>3. \A k \in New : k \in DOMAIN events'
        BY DEF New
      <4>q. QED BY <2>1, <2>3, <4>2, <4>3, OldStays
    <3>2. i \notin New
      BY <3>1
    <3>3. i \in DOMAIN events /\ events'[i] = events[i] /\ events'[j] = events[j]
      BY <2>1, <2>3, <3>2, OldOrNew, OldStays
    <3>q. QED BY <2>3, <3>3 DEF SpawnedOnce
  <2>4. CASE j \in New
    <3> DEFINE q == events'[j].pid
               x == events'[j].id
    <3>1. q \in Pid /\ x = proc[q].id /\ x # 0 /\ x # prev[q].id
      BY <2>1, <2>4, NewSays
    <3>2. CASE i \in DOMAIN events
      <4>1. events'[i] = events[i] /\ events[i].id = x
        BY <2>1, <3>2, OldStays
      <4>2. running
        BY <2>1, <2>4 DEF Gathers, Watches, Diffs, Starts, Stops
      <4> HIDE DEF x, q
      <4>3. proc[q].id \notin {0, prev[q].id}
        BY <3>1
      <4>q. QED BY <3>1, <3>2, <4>1, <4>2, <4>3 DEF NewIsFresh
    <3>3. CASE i \in New
      <4> DEFINE r == events'[i].pid
      <4>1. events'[i].id = x /\ events'[i].id # 0
        BY <3>1
      <4>2. r \in Pid /\ x \in {proc[r].id, prev[r].id}
        BY <2>1, <2>2, <3>3, <4>1, NewSays
      <4> HIDE DEF x, q, r
      <4>3. q = r
        BY <3>1, <4>2, IdFacts
      <4>4. events'[i].kind = "exit" \/ events'[i].kind = "sample"
        BY <2>1, <2>4, <3>3, <4>3 DEF Gathers, Grows, q, r
      <4>5. events'[i].kind = "exit" => x = prev[r].id
        BY <2>1, <3>3, <4>1, NewSays DEF r
      <4>q. QED BY <3>1, <4>3, <4>4, <4>5
    <3>q. QED BY <3>2, <3>3, OldOrNew
  <2>q. QED BY <2>3, <2>4, OldOrNew
<1>2. CASE System
  BY <1>2, Turning DEF Turns, SpawnedOnce
<1>3. CASE EvictOldest
  <2>1. Loses
    BY <1>3, Losing
  <2>2. \A j \in DOMAIN events' : j \in Nat /\ j + 1 \in DOMAIN events /\ events'[j] = events[j + 1]
    <3>1. DOMAIN events' = 1..Len(events')
      BY <2>1, LenProperties DEF Loses
    <3>q. QED BY <2>1, <3>1 DEF Loses
  <2> SUFFICES ASSUME NEW i \in DOMAIN events', NEW j \in DOMAIN events', i < j,
                      events'[i].id = events'[j].id, events'[j].kind = "spawn"
               PROVE  events'[i].kind = "sample"
    BY DEF SpawnedOnce
  <2>3. i + 1 < j + 1
    BY <2>2
  <2>q. QED BY <2>2, <2>3 DEF SpawnedOnce
<1>q. QED BY <1>1, <1>2, <1>3 DEF Next

(* What comes before an old event is old.                                   *)
LEMMA BeforeOld ==
  ASSUME TypeInv, NEW cur, Gathers(cur), NEW i \in DOMAIN events', NEW j \in DOMAIN events, i <= j
  PROVE  i \in DOMAIN events
<1>1. events' \in Seq(Event) /\ \A k \in New : j < k
  BY OldStays DEF Gathers, Grows
<1>2. DOMAIN events' = 1..Len(events') /\ Len(events') \in Nat
  BY <1>1, LenProperties
<1>3. j \in Nat /\ i \in Nat
  BY <1>2, EventAt DEF TypeInv
<1>4. i \notin New
  BY <1>1, <1>3
<1>q. QED BY <1>4 DEF New

LEMMA Shifted ==
  ASSUME Loses
  PROVE  \A j \in DOMAIN events' : /\ j \in Nat /\ j >= 1 /\ j + 1 \in DOMAIN events
                                  /\ events'[j] = events[j + 1]
<1>1. DOMAIN events' = 1..Len(events') /\ Len(events') \in Nat
  BY LenProperties DEF Loses
<1>2. \A j \in DOMAIN events' : j \in Nat /\ j >= 1
  BY <1>1
<1>q. QED BY <1>2 DEF Loses

LEMMA SnapshotKept ==
  ASSUME TypeInv, Recorded, OnePid, SnapshotIsLast, Next, "scan" \notin faults',
         Recorded', OnePid', TypeInv'
  PROVE  SnapshotIsLast'
<1>1. CASE Collect \/ Stop
  <2>1. PICK cur : Gathers(cur)
    BY <1>1, Gathering
  <2>2. cur = proc /\ proc' = proc
    BY <2>1 DEF Gathers, Grows
  <2> SUFFICES ASSUME NEW i \in DOMAIN events', NEW p \in Pid,
                      events'[i].kind = "spawn" \/ events'[i].id \notin early',
                      events'[i].pid = p, prev'[p].id # 0
               PROVE  events'[i].id <= prev'[p].id
    BY DEF SnapshotIsLast, Timed
  <2>3. CASE Watches(cur)
    <3>1. prev' = prev
      BY <2>3 DEF Watches
    <3>2. CASE i \in New
      <4>1. events'[i].kind = "sample"
        <5>1. events'[i].kind \in {"sample", "file"}
          BY <2>3, <3>2 DEF Watches
        <5>2. events'[i].kind = "file" => events'[i].pid = 0
          BY <2>1, <3>2, NewSays
        <5>q. QED BY <5>1, <5>2, PidsAreNat
      <4>2. events'[i].id = prev[p].id
        BY <2>3, <3>2, <4>1 DEF Watches
      <4>3. prev[p].id \in Nat
        BY IdFacts
      <4>q. QED BY <3>1, <4>2, <4>3
    <3>3. CASE i \in DOMAIN events
      <4>1. events'[i] = events[i] /\ early \subseteq early'
        BY <2>1, <3>3, OldStays DEF Gathers, Grows
      <4>2. Timed(events[i]) /\ events[i].pid = p /\ prev[p].id # 0
        BY <3>1, <4>1 DEF Timed
      <4>q. QED BY <3>1, <3>3, <4>1, <4>2 DEF SnapshotIsLast
    <3>q. QED BY <3>2, <3>3, OldOrNew
  <2>4. CASE prev' = cur
    <3>1. events'[i].id \in SeenAt(p)'
      BY DEF SeenAt
    <3>2. proc'[p].id # 0
      BY <2>2, <2>4
    <3>3. events'[i].id <= proc'[p].id
      BY <3>1, <3>2 DEF OnePid
    <3>q. QED BY <2>2, <2>4, <3>3
  <2>5. CASE prev' = NoProcess
    BY <2>5, NoProcessFields
  <2>q. QED BY <2>1, <2>3, <2>4, <2>5 DEF Gathers, Diffs, Starts, Stops
<1>2. CASE System
  BY <1>2, Turning DEF Turns, SnapshotIsLast, Timed
<1>3. CASE EvictOldest
  BY <1>3, Losing DEF Loses, SnapshotIsLast, Timed
<1>q. QED BY <1>1, <1>2, <1>3 DEF Next

LEMMA SpawnsEndKept ==
  ASSUME TypeInv, Recorded, OnePid, SnapshotIsLast, SpawnsEnd, Next, "scan" \notin faults'
  PROVE  SpawnsEnd'
<1>0. \A i \in DOMAIN events : events[i].pid \in Pid => events[i].id # 0
  BY PidsAreNat DEF Recorded
<1>a. \A i \in DOMAIN events : events[i].kind = "exit" => events[i].pid \in Pid
  BY DEF Recorded
<1>1. CASE Collect \/ Stop
  <2>1. PICK cur : Gathers(cur)
    BY <1>1, Gathering
  <2>2. cur = proc /\ proc' = proc
    BY <2>1 DEF Gathers, Grows
  <2> SUFFICES ASSUME NEW i \in DOMAIN events', NEW j \in DOMAIN events', i < j,
                      events'[i].pid = events'[j].pid,
                      events'[i].kind = "spawn" \/ events'[i].id \notin early',
                      events'[j].kind = "exit", NEW p \in Pid
               PROVE  proc[p].id # events'[i].id
    BY <2>2 DEF SpawnsEnd, Timed
  <2>b. \A k \in DOMAIN events : events'[k] = events[k] /\ early \subseteq early'
    BY <2>1, OldStays DEF Gathers, Grows
  <2>a. i <= j /\ i \in Nat /\ j \in Nat
    <3>1. events' \in Seq(Event)
      BY <2>1 DEF Gathers, Grows
    <3>2. DOMAIN events' = 1..Len(events')
      BY <3>1, LenProperties
    <3>q. QED BY <3>2
  <2>3. CASE j \in DOMAIN events
    <3>1. i \in DOMAIN events
      BY <2>1, <2>3, <2>a, BeforeOld
    <3>2. events'[i] = events[i] /\ events'[j] = events[j] /\ Timed(events[i])
      BY <2>3, <2>b, <3>1 DEF Timed
    <3>q. QED BY <2>3, <3>1, <3>2 DEF SpawnsEnd
  <2>4. CASE j \in New
    <3> DEFINE q == events'[j].pid
               x == events'[j].id
    <3>1. q \in Pid /\ x = prev[q].id /\ x # 0 /\ x # proc[q].id
      BY <2>1, <2>2, <2>4, NewSays
    <3>2. i \in DOMAIN events
      <4>1. i \notin New
        <5>1. SUFFICES ASSUME i \in New PROVE FALSE
          OBVIOUS
        <5>2. \/ events'[i].kind = "sample" /\ events'[j].kind = "sample"
              \/ events'[i].kind = "exit" /\ events'[j].kind = "spawn"
          BY <2>1, <2>4, <5>1 DEF Gathers, Grows
        <5>q. QED BY <5>2
      <4>q. QED BY <4>1, OldOrNew
    <3>3. events'[i] = events[i] /\ Timed(events[i]) /\ events[i].pid = q
      BY <2>b, <3>2 DEF Timed
    <3> HIDE DEF q, x
    <3>4. events[i].id <= prev[q].id
      BY <3>1, <3>2, <3>3 DEF SnapshotIsLast
    <3>5. SUFFICES ASSUME proc[p].id = events[i].id PROVE FALSE
      BY <3>3
    <3>6. p = q /\ proc[p].id # 0
      BY <1>0, <3>1, <3>2, <3>3, <3>5, IdFacts
    <3>7. prev[q].id <= proc[q].id /\ prev[q].id \in Int /\ proc[q].id \in Int
      BY <3>1, <3>6, IdFacts
    <3>q. QED BY <3>1, <3>4, <3>5, <3>6, <3>7
  <2>q. QED BY <2>3, <2>4, OldOrNew
<1>2. CASE System
  <2>1. PICK p : Turns(p)
    BY <1>2, Turning
  <2> SUFFICES ASSUME NEW i \in DOMAIN events, NEW j \in DOMAIN events, i < j,
                      events[i].pid = events[j].pid, Timed(events[i]),
                      events[j].kind = "exit", NEW q \in Pid
               PROVE  proc'[q].id # events[i].id
    BY <2>1 DEF SpawnsEnd, Turns, Timed
  <2>2. events[i].id # proc[q].id
    BY DEF SpawnsEnd
  <2>3. proc'[q].id \in {proc[q].id, 0, forks + 1}
    BY <2>1 DEF Turns, Comes, Goes
  <2>4. events[i].id # 0 /\ events[i].id \in 0..forks /\ forks \in Nat
    BY <1>0, <1>a, IdFacts
  <2>q. QED BY <2>2, <2>3, <2>4
<1>3. CASE EvictOldest
  <2>1. Loses
    BY <1>3, Losing
  <2> SUFFICES ASSUME NEW i \in DOMAIN events', NEW j \in DOMAIN events', i < j,
                      events'[i].pid = events'[j].pid, Timed(events'[i]),
                      events'[j].kind = "exit", NEW q \in Pid
               PROVE  proc[q].id # events'[i].id
    BY <2>1 DEF SpawnsEnd, Loses, Timed
  <2>2. i + 1 < j + 1
    BY <2>1, Shifted
  <2>q. QED BY <2>1, <2>2, Shifted DEF SpawnsEnd
<1>q. QED BY <1>1, <1>2, <1>3 DEF Next

-----------------------------------------------------------------------------
(* While the recorder is not stopped. *)

LEMMA LastIsLiveKept ==
  ASSUME TypeInv, Recorded, OnePid, Idle, LastIsLive, Next, "stop" \notin faults'
  PROVE  LastIsLive'
<1>1. CASE Collect \/ Stop
  <2>1. PICK cur : Gathers(cur)
    BY <1>1, Gathering
  <2>2. proc' = proc /\ faults \subseteq faults'
    BY <2>1 DEF Gathers, Grows
  <2> SUFFICES ASSUME NEW p \in Pid, NEW i \in DOMAIN events',
                      prev'[p].id # 0, prev'[p].id = proc[p].id, events'[i].pid = p,
                      \A k \in DOMAIN events' : events'[k].pid = p => k <= i
               PROVE  events'[i].id = proc[p].id /\ events'[i].kind # "exit"
    BY <2>2 DEF LastIsLive
  <2>a. ASSUME NEW k \in DOMAIN events, events[k].pid = p
        PROVE  k <= i
    BY <2>1, <2>a, OldStays
  <2>b. ASSUME i \in DOMAIN events, prev[p].id # 0, prev[p].id = proc[p].id
        PROVE  events'[i].id = proc[p].id /\ events'[i].kind # "exit"
    <3>1. events'[i] = events[i] /\ events[i].pid = p
      BY <2>1, <2>b, OldStays
    <3>q. QED BY <2>a, <2>b, <3>1 DEF LastIsLive
  <2>c. 0 \notin Pid
    BY PidsAreNat
  <2>3. CASE Watches(cur)
    <3>1. prev' = prev
      BY <2>3 DEF Watches
    <3>2. CASE i \in New
      BY <2>1, <2>3, <2>c, <3>2, NewSays DEF Watches
    <3>q. QED BY <2>b, <3>1, <3>2, OldOrNew
  <2>4. CASE Diffs(cur)
    <3>1. cur[p].id = proc[p].id
      BY <2>4 DEF Diffs
    <3>2. proc[p].id # 0
      OBVIOUS
    <3>3. /\ prev[p].id \notin {0, proc[p].id} =>
               \E j \in New : events'[j].kind = "exit" /\ events'[j].pid = p
          /\ proc[p].id # prev[p].id =>
               \E j \in New : events'[j].kind = "spawn" /\ events'[j].pid = p
      BY <2>4, <3>1, <3>2 DEF Diffs
    <3>4. CASE i \in DOMAIN events
      <4>1. \A j \in New : events'[j].pid # p
        <5> SUFFICES ASSUME NEW j \in New, events'[j].pid = p PROVE FALSE
          OBVIOUS
        <5>1. j \in DOMAIN events' /\ i < j
          BY <2>1, <3>4, OldStays DEF New
        <5>2. j <= i /\ i \in Nat
          BY <3>4, <5>1, EventAt DEF TypeInv
        <5>3. j \in Nat
          <6>1. events' \in Seq(Event)
            BY <2>1 DEF Gathers, Grows
          <6>2. DOMAIN events' = 1..Len(events')
            BY <6>1, LenProperties
          <6>q. QED BY <5>1, <6>2
        <5>q. QED BY <5>1, <5>2, <5>3
      <4>2. prev[p].id = proc[p].id
        BY <3>3, <4>1
      <4>q. QED BY <2>b, <3>2, <3>4, <4>2
    <3>5. CASE i \in New
      <4>1. events'[i].kind \in {"exit", "spawn"}
        BY <2>4, <3>5 DEF Diffs
      <4>2. CASE events'[i].kind = "spawn"
        BY <2>1, <3>5, <4>2, NewSays
      <4>3. CASE events'[i].kind = "exit"
        <5>1. events'[i].id = prev[p].id /\ events'[i].id # proc[p].id
          BY <2>1, <3>1, <3>5, <4>3, NewSays
        <5>2. PICK j \in New : events'[j].kind = "spawn" /\ events'[j].pid = p
          BY <3>3, <5>1
        <5>3. j <= i /\ j # i
          BY <4>3, <5>2 DEF New
        <5>4. j < i
          <6>1. events' \in Seq(Event)
            BY <2>1 DEF Gathers, Grows
          <6>2. DOMAIN events' = 1..Len(events')
            BY <6>1, LenProperties
          <6>3. i \in Nat /\ j \in Nat
            BY <6>2 DEF New
          <6>q. QED BY <5>3, <6>3
        <5>5. events'[j].kind = "exit" \/ events'[j].kind = "sample"
          BY <2>1, <3>5, <5>2, <5>4 DEF Gathers, Grows
        <5>q. QED BY <5>2, <5>5
      <4>q. QED BY <4>1, <4>2, <4>3
    <3>q. QED BY <3>4, <3>5, OldOrNew
  <2>5. CASE Starts(cur)
    <3>1. events = <<>>
      BY <2>2, <2>5 DEF Starts, Idle
    <3>2. i \notin DOMAIN events
      <4>1. DOMAIN events = 1..0 /\ 1..0 = {}
        BY <3>1
      <4>q. QED BY <4>1
    <3>3. i \in New
      BY <3>2, OldOrNew
    <3>q. QED BY <2>1, <2>5, <3>3, NewSays DEF Starts
  <2>6. CASE Stops(cur)
    BY <2>6 DEF Stops
  <2>q. QED BY <2>1, <2>3, <2>4, <2>5, <2>6 DEF Gathers
<1>2. CASE System
  <2>1. PICK p : Turns(p)
    BY <1>2, Turning
  <2>2. \A q \in Pid : proc'[q].id \in {proc[q].id, 0, forks + 1}
    BY <2>1 DEF Turns, Comes, Goes
  <2>3. \A q \in Pid : prev[q].id \in 0..forks /\ forks \in Nat
    BY IdFacts
  <2>4. \A q \in Pid : prev[q].id # 0 /\ prev[q].id = proc'[q].id => proc'[q].id = proc[q].id
    BY <2>2, <2>3
  <2>5. UNCHANGED <<prev, events>>
    BY <2>1 DEF Turns
  <2>q. QED BY <2>4, <2>5 DEF LastIsLive
<1>3. CASE EvictOldest
  <2>1. Loses
    BY <1>3, Losing
  <2>2. UNCHANGED <<proc, prev>>
    BY <2>1 DEF Loses
  <2> SUFFICES ASSUME NEW p \in Pid, NEW i \in DOMAIN events',
                      prev[p].id # 0, prev[p].id = proc[p].id, events'[i].pid = p,
                      \A k \in DOMAIN events' : events'[k].pid = p => k <= i
               PROVE  events'[i].id = proc[p].id /\ events'[i].kind # "exit"
    BY <2>2 DEF LastIsLive
  <2>3. i \in Nat /\ i + 1 \in DOMAIN events /\ events'[i] = events[i + 1]
    BY <2>1, Shifted
  <2>4. ASSUME NEW k \in DOMAIN events, events[k].pid = p
        PROVE  k <= i + 1
    <3>1. k \in Nat /\ (k = 1 \/ (k - 1 \in DOMAIN events' /\ events'[k - 1] = events[k]))
      BY <2>1 DEF Loses
    <3>2. CASE k = 1
      BY <2>3, <3>2
    <3>3. CASE k - 1 \in DOMAIN events' /\ events'[k - 1] = events[k]
      <4>1. k - 1 <= i
        BY <2>4, <3>3
      <4>q. QED BY <2>3, <3>1, <4>1
    <3>q. QED BY <3>1, <3>2, <3>3
  <2> DEFINE m == i + 1
  <2>5. m \in DOMAIN events /\ events[m].pid = p /\ \A k \in DOMAIN events : events[k].pid = p => k <= m
    BY <2>3, <2>4
  <2> HIDE DEF m
  <2>6. events[m].id = proc[p].id /\ events[m].kind # "exit"
    BY <2>5 DEF LastIsLive
  <2>q. QED BY <2>3, <2>6 DEF m
<1>q. QED BY <1>1, <1>2, <1>3 DEF Next

LEMMA ParentIsLastKept ==
  ASSUME TypeInv, Recorded, Idle, ParentIsLast, LastIsLive', Next, "stop" \notin faults'
  PROVE  ParentIsLast'
<1>1. CASE Collect \/ Stop
  <2>1. PICK cur : Gathers(cur)
    BY <1>1, Gathering
  <2>2. /\ proc' = proc /\ now' \in Nat /\ now <= now' /\ now \in Nat
        /\ events' \in Seq(Event)
    BY <2>1 DEF Gathers, Grows, TypeInv
  <2> SUFFICES ASSUME NEW i \in DOMAIN events', NEW j \in DOMAIN events',
                      events'[j].kind = "spawn", events'[j].ppid \in Pid, events'[j].parent # 0,
                      events'[i].pid = events'[j].ppid, events'[i].ts <= events'[j].ts,
                      \A k \in DOMAIN events' :
                        events'[k].pid = events'[j].ppid /\ events'[k].ts <= events'[j].ts => k <= i
               PROVE  events'[i].id = events'[j].parent
    BY DEF ParentIsLast
  <2>3. \A k \in DOMAIN events : events[k].ts \in 1..now
    BY DEF Recorded
  <2>4. CASE j \in DOMAIN events
    <3>1. events'[j] = events[j]
      BY <2>1, <2>4, OldStays
    <3>2. i \in DOMAIN events
      <4>1. events'[i].ts <= now
        <5>1. events[j].ts \in 1..now /\ events'[i].ts <= events[j].ts
          BY <2>3, <2>4, <3>1
        <5>2. events'[i].ts \in Nat
          <6>1. events'[i] \in Event
            BY <2>2, ElementOfSeq
          <6>q. QED BY <6>1 DEF Event
        <5>q. QED BY <2>2, <5>1, <5>2
      <4>2. i \in New => events'[i].ts = now + 1
        BY <2>1, NewSays
      <4>q. QED BY <2>2, <4>1, <4>2, OldOrNew
    <3>3. events'[i] = events[i]
      BY <2>1, <3>2, OldStays
    <3>4. \A k \in DOMAIN events :
            events[k].pid = events[j].ppid /\ events[k].ts <= events[j].ts => k <= i
      BY <2>1, <3>1, OldStays
    <3>q. QED BY <2>4, <3>1, <3>2, <3>3, <3>4 DEF ParentIsLast
  <2>5. CASE j \in New
    <3> DEFINE q == events'[j].ppid
    <3>1. /\ q \in Pid /\ Snapshot(cur) /\ events'[j].parent = cur[q].id
          /\ events'[j].ts = now'
      BY <2>1, <2>5, NewSays
    <3>2. cur[q].id # 0 /\ cur[q].id = proc[q].id
      BY <3>1, SnapshotIds
    <3>3. prev' = cur
      BY <2>1, <2>5 DEF Gathers, Watches, Diffs, Starts, Stops
    <3>4. ASSUME NEW k \in DOMAIN events'
          PROVE  events'[k].ts <= now'
      <4>1. CASE k \in DOMAIN events
        <5>1. events'[k] = events[k] /\ events[k].ts \in 1..now
          BY <2>1, <2>3, <4>1, OldStays
        <5>q. QED BY <2>2, <5>1
      <4>2. CASE k \in New
        BY <2>1, <2>2, <4>2, NewSays
      <4>q. QED BY <4>1, <4>2, OldOrNew
    <3>5. events'[i].pid = q
      OBVIOUS
    <3>6. \A k \in DOMAIN events' : events'[k].pid = q => k <= i
      BY <3>1, <3>4
    <3> HIDE DEF q
    <3>7. prev'[q].id # 0 /\ prev'[q].id = proc'[q].id
      BY <2>2, <3>2, <3>3
    <3>8. events'[i].id = proc'[q].id
      BY <3>1, <3>5, <3>6, <3>7 DEF LastIsLive
    <3>q. QED BY <2>2, <3>1, <3>2, <3>8
  <2>q. QED BY <2>4, <2>5, OldOrNew
<1>2. CASE System
  BY <1>2, Turning DEF Turns, ParentIsLast
<1>3. CASE EvictOldest
  <2>1. Loses
    BY <1>3, Losing
  <2> SUFFICES ASSUME NEW i \in DOMAIN events', NEW j \in DOMAIN events',
                      events'[j].kind = "spawn", events'[j].ppid \in Pid, events'[j].parent # 0,
                      events'[i].pid = events'[j].ppid, events'[i].ts <= events'[j].ts,
                      \A k \in DOMAIN events' :
                        events'[k].pid = events'[j].ppid /\ events'[k].ts <= events'[j].ts => k <= i
               PROVE  events'[i].id = events'[j].parent
    BY DEF ParentIsLast
  <2> DEFINE m == i + 1
             n == j + 1
  <2>2. i \in Nat /\ m \in DOMAIN events /\ n \in DOMAIN events
        /\ events'[i] = events[m] /\ events'[j] = events[n]
    BY <2>1, Shifted
  <2>3. ASSUME NEW k \in DOMAIN events, events[k].pid = events[n].ppid, events[k].ts <= events[n].ts
        PROVE  k <= m
    <3>1. k \in Nat /\ (k = 1 \/ (k - 1 \in DOMAIN events' /\ events'[k - 1] = events[k]))
      BY <2>1 DEF Loses
    <3>2. CASE k = 1
      BY <2>2, <3>2
    <3>3. CASE k - 1 \in DOMAIN events' /\ events'[k - 1] = events[k]
      <4>1. k - 1 <= i
        BY <2>2, <2>3, <3>3
      <4>q. QED BY <2>2, <3>1, <4>1
    <3>q. QED BY <3>1, <3>2, <3>3
  <2> HIDE DEF m, n
  <2>q. QED BY <2>2, <2>3 DEF ParentIsLast
<1>q. QED BY <1>1, <1>2, <1>3 DEF Next

(* With neither fault. *)
LEMMA ExitsBetweenKept ==
  ASSUME TypeInv, Recorded, Idle, ExitsBetween, Next, faults' = {}
  PROVE  ExitsBetween'
<1>1. CASE Collect \/ Stop
  <2>1. PICK cur : Gathers(cur)
    BY <1>1, Gathering
  <2>2. proc' = proc /\ cur = proc /\ faults \subseteq faults' /\ events' \in Seq(Event)
    BY <2>1 DEF Gathers, Grows
  <2>a. \A k \in DOMAIN events' : k \in Nat
    <3>1. DOMAIN events' = 1..Len(events')
      BY <2>2, LenProperties
    <3>q. QED BY <3>1
  <2>b. Watches(cur) \/ Diffs(cur) \/ Starts(cur)
    BY <2>1 DEF Gathers, Stops
  <2>c. \A i \in DOMAIN events : i \in DOMAIN events' /\ events'[i] = events[i] /\ \A j \in New : i < j
    BY <2>1, OldStays
  <2>e. early \subseteq early'
    BY <2>1 DEF Gathers, Grows
  <2>d. Diffs(cur) =>
          /\ prev' = proc
          /\ \A p \in Pid : prev[p].id \notin {0, proc[p].id} =>
               \E j \in New : events'[j].kind = "exit" /\ events'[j].pid = p
    BY <2>2 DEF Diffs
  <2>3. ASSUME NEW i \in DOMAIN events', NEW j \in DOMAIN events', i < j,
               events'[i].pid = events'[j].pid,
               events'[i].kind = "spawn" \/ events'[i].id \notin early', events'[j].kind = "spawn"
        PROVE  \E k \in i..(j - 1) : events'[k].pid = events'[i].pid /\ events'[k].kind = "exit"
    <3>0. i \in Nat /\ j \in Nat /\ i <= j
      BY <2>3, <2>a
    <3>1. CASE j \in DOMAIN events
      <4>1. i \in DOMAIN events
        BY <2>1, <3>0, <3>1, BeforeOld
      <4>2. events'[i] = events[i] /\ events'[j] = events[j] /\ Timed(events[i])
        BY <2>3, <2>c, <2>e, <3>1, <4>1 DEF Timed
      <4>3. PICK k \in i..(j - 1) : events[k].pid = events[i].pid /\ events[k].kind = "exit"
        BY <2>3, <3>1, <4>1, <4>2 DEF ExitsBetween
      <4>4. k \in DOMAIN events
        <5>1. Len(events) \in Nat /\ DOMAIN events = 1..Len(events)
          BY EventAt DEF TypeInv
        <5>q. QED BY <3>0, <3>1, <4>1, <4>3, <5>1
      <4>5. events'[k] = events[k]
        BY <2>c, <4>4
      <4>q. QED BY <4>2, <4>3, <4>5
    <3>2. CASE j \in New
      <4> DEFINE q == events'[j].pid
      <4>1. q \in Pid /\ events'[j].id = proc[q].id /\ proc[q].id # prev[q].id
        BY <2>1, <2>3, <3>2, NewSays
      <4>2. Diffs(cur)
        BY <2>3, <2>b, <3>2 DEF Watches, Starts
      <4>a. CASE i \in New
        <5>1. \/ events'[i].kind = "sample" /\ events'[j].kind = "sample"
              \/ events'[i].kind = "exit" /\ events'[j].kind = "spawn"
          BY <2>1, <2>3, <3>2, <4>a DEF Gathers, Grows
        <5>2. events'[i].kind = "exit" /\ i \in i..(j - 1)
          BY <2>3, <3>0, <5>1
        <5>q. QED BY <5>2
      <4>3. SUFFICES ASSUME i \in DOMAIN events
                     PROVE  \E k \in i..(j - 1) : events'[k].pid = events'[i].pid /\ events'[k].kind = "exit"
        BY <4>a, OldOrNew
      <4>4. events'[i] = events[i] /\ Timed(events[i]) /\ events[i].pid = q
        BY <2>3, <2>c, <2>e, <4>3 DEF Timed
      <4>5. CASE prev[q].id # 0
        <5>1. PICK k \in New : events'[k].kind = "exit" /\ events'[k].pid = q
          BY <2>d, <4>1, <4>2, <4>5
        <5>2. i < k /\ k \in Nat /\ k # j
          BY <2>3, <2>a, <2>c, <4>3, <5>1 DEF New
        <5>3. ~(j < k)
          BY <2>1, <2>3, <3>2, <5>1 DEF Gathers, Grows
        <5>4. k \in i..(j - 1)
          BY <3>0, <5>2, <5>3
        <5>q. QED BY <4>4, <5>1, <5>4
      <4>6. CASE prev[q].id = 0
        <5> HIDE DEF q
        <5>1. PICK k \in DOMAIN events : k >= i /\ events[k].pid = q /\ events[k].kind = "exit"
          BY <4>1, <4>3, <4>4, <4>6 DEF ExitsBetween
        <5>2. events'[k] = events[k] /\ k < j /\ k \in Nat
          BY <2>a, <2>c, <3>2, <5>1
        <5>3. k \in i..(j - 1)
          BY <3>0, <5>1, <5>2
        <5>q. QED BY <4>4, <5>1, <5>2, <5>3
      <4>q. QED BY <4>5, <4>6
    <3>q. QED BY <3>1, <3>2, OldOrNew
  <2>4. ASSUME NEW i \in DOMAIN events', NEW p \in Pid,
               events'[i].kind = "spawn" \/ events'[i].id \notin early',
               events'[i].pid = p, prev'[p].id = 0
        PROVE  \E k \in DOMAIN events' : k >= i /\ events'[k].pid = p /\ events'[k].kind = "exit"
    <3>a. CASE i \in New
      <4>0. i \in Nat /\ i >= i
        BY <2>a
      <4>1. CASE events'[i].kind = "exit"
        BY <2>4, <4>0, <4>1
      <4>2. CASE events'[i].kind # "exit"
        <5>1. events'[i].kind \in {"spawn", "sample"} /\ events'[i].id = proc[p].id /\ events'[i].id # 0
          <6>1. /\ events'[i].kind \in {"exit", "spawn", "sample", "file"}
                /\ events'[i].kind = "file" => events'[i].pid = 0
                /\ events'[i].kind \in {"spawn", "sample"} => events'[i].id = proc[p].id /\ events'[i].id # 0
            BY <2>1, <2>4, <3>a, NewSays
          <6>q. QED BY <2>4, <4>2, <6>1, PidsAreNat
        <5>2. ~Diffs(cur) /\ ~Starts(cur)
          BY <2>2, <2>4, <5>1 DEF Diffs, Starts
        <5>3. Watches(cur)
          BY <2>b, <5>2
        <5>4. events'[i].kind = "sample" /\ prev[p].id = 0
          BY <2>4, <3>a, <5>1, <5>3 DEF Watches
        <5>5. events'[i].id = prev[p].id
          BY <2>4, <3>a, <5>3, <5>4 DEF Watches
        <5>q. QED BY <5>1, <5>4, <5>5
      <4>q. QED BY <4>1, <4>2
    <3>1. SUFFICES ASSUME i \in DOMAIN events
                   PROVE  \E k \in DOMAIN events' : k >= i /\ events'[k].pid = p /\ events'[k].kind = "exit"
      BY <3>a, OldOrNew
    <3>2. events'[i] = events[i] /\ Timed(events[i]) /\ events[i].pid = p
      BY <2>4, <2>c, <2>e, <3>1 DEF Timed
    <3>3. ASSUME prev[p].id = 0
          PROVE  \E k \in DOMAIN events' : k >= i /\ events'[k].pid = p /\ events'[k].kind = "exit"
      <4>1. PICK k \in DOMAIN events : k >= i /\ events[k].pid = p /\ events[k].kind = "exit"
        BY <3>1, <3>2, <3>3 DEF ExitsBetween
      <4>q. QED BY <2>c, <4>1
    <3>4. CASE Watches(cur)
      BY <2>4, <3>3, <3>4 DEF Watches
    <3>5. CASE Starts(cur)
      <4>1. events = <<>>
        BY <2>2, <3>5 DEF Starts, Idle
      <4>2. DOMAIN events = 1..0 /\ 1..0 = {}
        BY <4>1
      <4>q. QED BY <3>1, <4>2
    <3>6. CASE Diffs(cur) /\ prev[p].id # 0
      <4>1. PICK k \in New : events'[k].kind = "exit" /\ events'[k].pid = p
        BY <2>4, <2>d, <3>6
      <4>2. k \in DOMAIN events' /\ i < k
        BY <2>c, <3>1, <4>1 DEF New
      <4>3. k >= i
        BY <2>a, <4>2
      <4>q. QED BY <4>1, <4>2, <4>3
    <3>q. QED BY <2>b, <3>3, <3>4, <3>5, <3>6
  <2>q. QED BY <2>3, <2>4 DEF ExitsBetween, Timed
<1>2. CASE System
  BY <1>2, Turning DEF Turns, ExitsBetween, Timed
<1>3. CASE EvictOldest
  <2>1. Loses
    BY <1>3, Losing
  <2>2. \A j \in DOMAIN events' : /\ j \in Nat /\ j >= 1 /\ j + 1 \in DOMAIN events
                                 /\ events'[j] = events[j + 1]
    BY <2>1, Shifted
  <2>3. \A k \in DOMAIN events : k \in Nat /\ (k = 1 \/ (k - 1 \in DOMAIN events' /\ events'[k - 1] = events[k]))
    BY <2>1 DEF Loses
  <2>4. prev' = prev /\ early' = early
    BY <2>1 DEF Loses
  <2>5. ASSUME NEW i \in DOMAIN events', NEW j \in DOMAIN events', i < j,
               events'[i].pid = events'[j].pid, Timed(events'[i]), events'[j].kind = "spawn"
        PROVE  \E k \in i..(j - 1) : events'[k].pid = events'[i].pid /\ events'[k].kind = "exit"
    <3> DEFINE m == i + 1
               n == j + 1
    <3>1. i \in Nat /\ i >= 1 /\ j \in Nat /\ m \in DOMAIN events /\ n \in DOMAIN events /\ m < n
          /\ events'[i] = events[m] /\ events'[j] = events[n] /\ m \in Nat /\ n \in Nat
      BY <2>2, <2>5
    <3>2. m = i + 1 /\ n = j + 1
      OBVIOUS
    <3> HIDE DEF m, n
    <3>3. PICK k \in m..(n - 1) : events[k].pid = events[m].pid /\ events[k].kind = "exit"
      BY <2>5, <3>1 DEF ExitsBetween
    <3>4. k \in DOMAIN events /\ k # 1 /\ k - 1 \in i..(j - 1)
      <4>1. Len(events) \in Nat /\ DOMAIN events = 1..Len(events)
        BY EventAt DEF TypeInv
      <4>q. QED BY <3>1, <3>2, <3>3, <4>1
    <3>5. events'[k - 1] = events[k]
      BY <2>3, <3>4
    <3>q. QED BY <3>1, <3>3, <3>4, <3>5
  <2>6. ASSUME NEW i \in DOMAIN events', NEW p \in Pid, Timed(events'[i]),
               events'[i].pid = p, prev[p].id = 0
        PROVE  \E k \in DOMAIN events' : k >= i /\ events'[k].pid = p /\ events'[k].kind = "exit"
    <3> DEFINE m == i + 1
    <3>1. i \in Nat /\ i >= 1 /\ m \in DOMAIN events /\ events'[i] = events[m] /\ m = i + 1
      BY <2>2
    <3> HIDE DEF m
    <3>2. PICK k \in DOMAIN events : k >= m /\ events[k].pid = p /\ events[k].kind = "exit"
      BY <2>6, <3>1 DEF ExitsBetween
    <3>3. k \in Nat /\ k # 1 /\ k - 1 >= i
      BY <2>3, <3>1, <3>2
    <3>4. k - 1 \in DOMAIN events' /\ events'[k - 1] = events[k]
      BY <2>3, <3>2, <3>3
    <3>q. QED BY <3>2, <3>3, <3>4
  <2>q. QED BY <2>4, <2>5, <2>6 DEF ExitsBetween, Timed
<1>q. QED BY <1>1, <1>2, <1>3 DEF Next

LEMMA FaultsStay ==
  ASSUME Next
  PROVE  faults \subseteq faults'
BY DEF Next, System, Fork, Exit, Collect, Start, DiffTick, SampleTick, FileChange, Stop, EvictOldest,
       WithScan

LEMMA PollerInvHolds ==
  Init => PollerInv
<1> SUFFICES ASSUME Init PROVE PollerInv
  OBVIOUS
<1>1. /\ proc = NoProcess /\ prev = NoProcess /\ forks = 0 /\ now = 0 /\ running = FALSE
      /\ baseline = {} /\ early = {} /\ faults = {} /\ events = <<>>
  BY DEF Init
<1>2. DOMAIN events = {}
  <2>1. DOMAIN events = 1..0 /\ 1..0 = {}
    BY <1>1
  <2>q. QED BY <2>1
<1>3. TypeInv
  <2>1. <<>> \in Seq(Event)
    OBVIOUS
  <2>2. running \in BOOLEAN
    BY <1>1
  <2>3. proc \in [Pid -> Process] /\ prev \in [Pid -> Process]
    BY <1>1, NoProcessFields
  <2>q. QED BY <1>1, <2>1, <2>2, <2>3 DEF TypeInv
<1>4. Recorded
  BY <1>2 DEF Recorded
<1>5. Timely
  BY <1>2 DEF Timely, InOrder
<1>6. \A p \in Pid : SeenAt(p) = {0}
  BY <1>1, <1>2, NoProcessFields DEF SeenAt
<1>7. OnePid
  BY <1>1, <1>6, NoProcessFields DEF OnePid
<1>9. Idle
  BY <1>1 DEF Idle
<1>10. ExitsAreTrue /\ SpawnedOnce /\ SnapshotIsLast /\ SpawnsEnd
  BY <1>2 DEF ExitsAreTrue, SpawnedOnce, SnapshotIsLast, SpawnsEnd
<1>11. NewIsFresh
  BY <1>1 DEF NewIsFresh
<1>12. LastIsLive /\ ParentIsLast /\ ExitsBetween
  BY <1>2 DEF LastIsLive, ParentIsLast, ExitsBetween
<1>q. QED BY <1>3, <1>4, <1>5, <1>7, <1>9, <1>10, <1>11, <1>12 DEF PollerInv

LEMMA PollerInvKept ==
  PollerInv /\ [Next]_vars => PollerInv'
<1> SUFFICES ASSUME PollerInv, [Next]_vars PROVE PollerInv'
  OBVIOUS
<1>1. CASE UNCHANGED vars
  <2>1. /\ proc' = proc /\ forks' = forks /\ now' = now /\ (running' <=> running) /\ prev' = prev
        /\ baseline' = baseline /\ early' = early /\ faults' = faults /\ events' = events
    BY <1>1 DEF vars
  <2>2. TypeInv' /\ Recorded' /\ Timely'
    BY <1>1 DEF vars, PollerInv, TypeInv, Recorded, Timely, InOrder
  <2>3. Idle'
    BY <1>1 DEF vars, PollerInv, Idle
  <2>4. OnePid'
    <3>1. \A p : SeenAt(p)' = SeenAt(p)
      BY <2>1 DEF SeenAt
    <3>q. QED BY <2>1, <3>1 DEF PollerInv, OnePid
  <2>5. "scan" \notin faults' =>
          ExitsAreTrue' /\ NewIsFresh' /\ SpawnedOnce' /\ SnapshotIsLast' /\ SpawnsEnd'
    BY <2>1 DEF PollerInv, ExitsAreTrue, NewIsFresh, SpawnedOnce, SnapshotIsLast, SpawnsEnd, Timed
  <2>6. "stop" \notin faults' => LastIsLive' /\ ParentIsLast'
    BY <2>1 DEF PollerInv, LastIsLive, ParentIsLast
  <2>7. faults' = {} => ExitsBetween'
    BY <2>1 DEF PollerInv, ExitsBetween, Timed
  <2>q. QED BY <2>2, <2>3, <2>4, <2>5, <2>6, <2>7 DEF PollerInv
<1>2. CASE Next
  <2>1. TypeInv /\ Recorded /\ Timely /\ OnePid /\ Idle
    BY DEF PollerInv
  <2>2. \A p \in Pid : proc[p].id \in 0..forks
    BY <2>1, IdFacts
  <2>3. TypeInv' /\ Recorded' /\ Timely' /\ OnePid' /\ Idle'
    BY <1>2, <2>1, <2>2, TypesKept, RecordedKept, TimelyKept, OnePidKept, IdleKept
  <2>4. faults \subseteq faults'
    BY <1>2, FaultsStay
  <2>5. ASSUME "scan" \notin faults'
        PROVE  ExitsAreTrue' /\ NewIsFresh' /\ SpawnedOnce' /\ SnapshotIsLast' /\ SpawnsEnd'
    <3>1. ExitsAreTrue /\ NewIsFresh /\ SpawnedOnce /\ SnapshotIsLast /\ SpawnsEnd
      BY <2>4, <2>5 DEF PollerInv
    <3>q. QED BY <1>2, <2>1, <2>3, <2>5, <3>1, ExitsKept, FreshKept, SpawnedOnceKept, SnapshotKept,
                 SpawnsEndKept
  <2>6. ASSUME "stop" \notin faults'
        PROVE  LastIsLive' /\ ParentIsLast'
    <3>1. LastIsLive /\ ParentIsLast
      BY <2>4, <2>6 DEF PollerInv
    <3>2. LastIsLive'
      BY <1>2, <2>1, <2>6, <3>1, LastIsLiveKept
    <3>q. QED BY <1>2, <2>1, <2>6, <3>1, <3>2, ParentIsLastKept
  <2>7. ASSUME faults' = {}
        PROVE  ExitsBetween'
    <3>1. ExitsBetween
      BY <2>4, <2>7 DEF PollerInv
    <3>q. QED BY <1>2, <2>1, <2>7, <3>1, ExitsBetweenKept
  <2>q. QED BY <2>3, <2>5, <2>6, <2>7 DEF PollerInv
<1>q. QED BY <1>1, <1>2

(* The inductive invariant of the poller (poll.go, diff.go): the snapshot,  *)
(* the events stored and the processes there are agree, in every state that *)
(* scans, restarts and evictions lead to.                                   *)
THEOREM PollerInvariance == Spec => []PollerInv
<1>q. QED BY PollerInvHolds, PollerInvKept, PTL DEF Spec

-----------------------------------------------------------------------------

(* ReportedOnce, of a step. *)
LEMMA ReportsOnce ==
  ASSUME PollerInv, PollerInv', Next, "scan" \notin faults',
         NEW j \in (Len(events) + 1)..Len(events')
  PROVE  LET before == {events'[i].kind : i \in {k \in 1..(j - 1) : events'[k].id = events'[j].id}}
         IN  /\ "exit" \notin before
             /\ events'[j].kind = "spawn" =>
                  before \subseteq {"sample"} /\ events'[j].id \notin baseline'
<1>1. /\ TypeInv /\ Recorded /\ OnePid /\ TypeInv' /\ Recorded' /\ OnePid'
      /\ "scan" \notin faults /\ ExitsAreTrue /\ NewIsFresh /\ SpawnedOnce'
  BY FaultsStay DEF PollerInv
<1>2. /\ Len(events) \in Nat /\ DOMAIN events = 1..Len(events)
      /\ Len(events') \in Nat /\ DOMAIN events' = 1..Len(events')
  <2>1. events' \in Seq(Event)
    BY <1>1 DEF TypeInv
  <2>q. QED BY <1>1, <2>1, LenProperties, EventAt DEF TypeInv
<1>3. j \in New /\ j \in DOMAIN events' /\ j \in Nat
  BY <1>2 DEF New
<1>4. PICK cur : Gathers(cur)
  <2>1. ~System
    <3>1. System => events' = events
      BY DEF System, Fork, Exit
    <3>q. QED BY <1>2, <3>1
  <2>2. ~EvictOldest
    <3>1. SUFFICES ASSUME Loses PROVE FALSE
      BY <1>1, Losing
    <3>2. j + 1 \in DOMAIN events
      BY <1>3, <3>1, Shifted
    <3>q. QED BY <1>2, <3>2
  <2>q. QED BY <1>1, <2>1, <2>2, Gathering DEF Next
<1>5. cur = proc
  BY <1>3, <1>4, NewSays
<1>6. ASSUME NEW k \in 1..(j - 1), events'[k].id = events'[j].id
      PROVE  /\ events'[k].kind # "exit"
             /\ events'[j].kind = "spawn" => events'[k].kind = "sample"
  <2>1. k \in DOMAIN events' /\ k < j
    BY <1>2, <1>3
  <2>2. events'[j].kind = "spawn" => events'[k].kind = "sample"
    BY <1>1, <1>3, <1>6, <2>1 DEF SpawnedOnce
  <2>3. ASSUME events'[k].kind = "exit" PROVE FALSE
    <3>1. events'[k].id # 0 /\ events'[k].pid \in Pid
      BY <1>1, <2>1, <2>3 DEF Recorded
    <3>2. CASE k \in DOMAIN events
      <4> DEFINE x == events'[j].id
                 q == events'[j].pid
      <4>1. events[k].kind = "exit" /\ events[k].id = x
        BY <1>4, <1>6, <2>3, <3>2, OldStays
      <4>2. q \in Pid /\ x \in {proc[q].id, prev[q].id}
        BY <1>3, <1>4, <1>6, <3>1, NewSays
      <4> HIDE DEF x, q
      <4>q. QED BY <1>1, <3>2, <4>1, <4>2 DEF ExitsAreTrue
    <3>3. CASE k \in New
      <4>1. events'[k].pid = events'[j].pid
        <5> DEFINE q == events'[j].pid
                   r == events'[k].pid
        <5>1. q \in Pid /\ events'[j].id \in {proc[q].id, prev[q].id}
          BY <1>3, <1>4, <1>6, <3>1, NewSays
        <5>2. r \in Pid /\ events'[k].id \in {proc[r].id, prev[r].id}
          BY <1>4, <2>3, <3>3, NewSays
        <5> HIDE DEF q, r
        <5>3. q = r
          BY <1>1, <1>6, <3>1, <5>1, <5>2, IdFacts
        <5>q. QED BY <5>3 DEF q, r
      <4>2. events'[j].kind = "spawn"
        BY <1>3, <1>4, <2>1, <2>3, <3>3, <4>1 DEF Gathers, Grows
      <4>q. QED BY <2>2, <2>3, <4>2
    <3>q. QED BY <2>1, <3>2, <3>3, OldOrNew
  <2>q. QED BY <2>2, <2>3
<1>7. ASSUME events'[j].kind = "spawn"
      PROVE  events'[j].id \notin baseline'
  <2> DEFINE q == events'[j].pid
  <2>1. q \in Pid /\ events'[j].id = proc[q].id /\ proc[q].id \notin {0, prev[q].id}
    BY <1>3, <1>4, <1>7, NewSays
  <2>2. running /\ baseline' = baseline
    BY <1>3, <1>4, <1>7 DEF Gathers, Watches, Diffs, Starts, Stops
  <2> HIDE DEF q
  <2>3. proc[q].id \notin baseline
    BY <1>1, <2>1, <2>2 DEF NewIsFresh
  <2>q. QED BY <2>1, <2>2, <2>3
<1>q. QED BY <1>6, <1>7

-----------------------------------------------------------------------------
(* The graph of what the store holds. *)

LEMMA LifelineEnds ==
  ASSUME NEW E \in Seq(Event), InOrder(E), NEW p \in PidsOf(E), NEW L, NEW o, NEW t,
         Lifeline(o, t, L, E, p)
  PROVE  /\ \A j, k \in 1..Len(L) : j <= k => t[j] <= t[k]
         /\ \A i \in DOMAIN E : E[i].pid = p => i <= t[Len(L)]
         /\ \A i \in DOMAIN E : i \in Nat
<1>1. /\ Len(L) \in Nat /\ Len(L) >= 1 /\ DOMAIN E = 1..Len(E) /\ Len(E) \in Nat
      /\ \A k \in 1..Len(L) : o[k] \in DOMAIN E /\ t[k] \in DOMAIN E
  BY LifelineOrder, LenProperties
<1>2. /\ \A j, k \in 1..Len(L) : j < k => t[j] < o[k]
      /\ \A k \in 1..Len(L) : o[k] <= t[k]
      /\ \A i \in DOMAIN E : E[i].pid = p => \E k \in 1..Len(L) : i \in o[k]..t[k]
  BY DEF Lifeline
<1>3. \A i \in DOMAIN E : i \in Nat
  BY <1>1
<1>4. \A k \in 1..Len(L) : o[k] \in Nat /\ t[k] \in Nat
  BY <1>1, <1>3
<1>5. ASSUME NEW j \in 1..Len(L), NEW k \in 1..Len(L), j <= k
      PROVE  t[j] <= t[k]
  <2>1. CASE j = k
    BY <1>4, <2>1
  <2>2. CASE j # k
    <3>1. j < k
      BY <1>5, <2>2
    <3>q. QED BY <1>2, <1>4, <3>1
  <2>q. QED BY <2>1, <2>2
<1>6. ASSUME NEW i \in DOMAIN E, E[i].pid = p
      PROVE  i <= t[Len(L)]
  <2>1. PICK k \in 1..Len(L) : i \in o[k]..t[k]
    BY <1>2, <1>6
  <2>2. t[k] <= t[Len(L)] /\ Len(L) \in 1..Len(L)
    BY <1>1, <1>5
  <2>q. QED BY <1>3, <1>4, <2>1, <2>2
<1>q. QED BY <1>3, <1>5, <1>6

(* Every instance of the graph is one of the lifeline of its pid.           *)
LEMMA GraphIs ==
  ASSUME PollerInv
  PROVE  /\ events \in Seq(Event) /\ InOrder(events) /\ DOMAIN Graph = PidsOf(events)
         /\ PidsOf(events) \subseteq Pid
         /\ \A p \in PidsOf(events) : \E o, t : Lifeline(o, t, Graph[p], events, p)
         /\ \A x : x \in InstanceSet(Graph) <=>
                     \E p \in PidsOf(events) : \E k \in 1..Len(Graph[p]) : x = Graph[p][k]
<1>1. events \in Seq(Event) /\ InOrder(events) /\ Recorded
  BY DEF PollerInv, TypeInv, Timely
<1>2. PidsOf(events) \subseteq Pid
  BY <1>1 DEF PidsOf, Recorded
<1>3. DOMAIN Graph = PidsOf(events)
  BY GraphDomain DEF Graph
<1>4. \A p \in PidsOf(events) : \E o, t : Lifeline(o, t, Graph[p], events, p)
  BY <1>1, Lifelines DEF Graph
<1>5. \A x : x \in InstanceSet(Graph) <=>
               \E p \in PidsOf(events) : \E k \in 1..Len(Graph[p]) : x = Graph[p][k]
  BY <1>1, InstancesAre DEF Graph
<1>q. QED BY <1>1, <1>2, <1>3, <1>4, <1>5

LEMMA LatestLives ==
  ASSUME PollerInv
  PROVE  LatestIsLive
<1> SUFFICES ASSUME "stop" \notin faults, NEW p \in DOMAIN Graph,
                    prev[p].id # 0, prev[p].id = proc[p].id
             PROVE  LET K == LatestInstance(Graph, p)
                    IN  prev[p].id \in IdsOf(Graph, K) /\ Node(Graph, K).exit_ts = NoExit
  BY DEF LatestIsLive
<1>1. events \in Seq(Event) /\ InOrder(events) /\ p \in PidsOf(events) /\ p \in Pid
  BY GraphIs
<1> DEFINE L == Graph[p]
           n == Len(L)
<1>2. PICK o, t : Lifeline(o, t, L, events, p)
  BY <1>1, GraphIs
<1>3. n \in Nat /\ n >= 1 /\ n \in 1..n /\ t[n] \in DOMAIN events /\ o[n] \in DOMAIN events
  BY <1>1, <1>2, LifelineOrder
<1>4. \A i \in DOMAIN events : events[i].pid = p => i <= t[n]
  BY <1>1, <1>2, LifelineEnds
<1>5. LatestInstance(Graph, p) = Key(L[n]) /\ Node(Graph, Key(L[n])) = L[n]
  BY <1>1, LatestIsLast DEF Graph
<1>6. L[n] \in InstanceSet(Graph)
  BY <1>1, <1>3, GraphIs
<1> HIDE DEF L, n
<1>7. /\ n = Len(L) /\ events[t[n]].pid = p /\ o[n] <= t[n]
      /\ L[n].exit_ts = IF events[t[n]].kind = "exit" THEN events[t[n]].ts ELSE NoExit
      /\ \A i \in o[n]..t[n] : events[i].pid = p => events[i].id \in L[n].ids
  BY <1>2, <1>3 DEF Lifeline, n
<1>8. events[t[n]].id = proc[p].id /\ events[t[n]].kind # "exit"
  BY <1>1, <1>3, <1>4, <1>7 DEF PollerInv, LastIsLive
<1>9. t[n] \in o[n]..t[n]
  <2>1. o[n] \in Nat /\ t[n] \in Nat
    BY <1>1, <1>2, <1>3, LifelineEnds
  <2>q. QED BY <1>7, <2>1
<1>10. prev[p].id \in L[n].ids
  BY <1>7, <1>8, <1>9
<1>11. prev[p].id \in IdsOf(Graph, Key(L[n]))
  BY <1>6, <1>10, IdsOfInstance
<1>q. QED BY <1>5, <1>7, <1>8, <1>11

LEMMA ParentsAreTrue ==
  ASSUME PollerInv
  PROVE  TrueParent
<1> SUFFICES ASSUME "stop" \notin faults, NEW e \in SpawnEdges(Graph), e.child.observed,
                    e.child.parent # 0
             PROVE  e.child.parent \in IdsOf(Graph, e.parent)
  BY DEF TrueParent
<1>1. events \in Seq(Event) /\ InOrder(events) /\ PidsOf(events) \subseteq Pid
      /\ \A i \in DOMAIN events : i \in Nat /\ events[i].ts \in Nat
  BY GraphIs, EventAt
<1> DEFINE c == e.child
<1>2. c \in InstanceSet(Graph) /\ e.parent = ParentLiveAt(Graph, c) /\ e.parent # NoKey
  BY DEF SpawnEdges
<1>3. PICK pc \in PidsOf(events) : \E k \in 1..Len(Graph[pc]) : c = Graph[pc][k]
  BY <1>2, GraphIs
<1>4. PICK kc \in 1..Len(Graph[pc]) : c = Graph[pc][kc]
  BY <1>3
<1>5. PICK oc, tc : Lifeline(oc, tc, Graph[pc], events, pc)
  BY GraphIs
<1> DEFINE j == oc[kc]
<1>6. /\ j \in DOMAIN events /\ c \in Instance
      /\ events[j].kind = "spawn" /\ c.ppid = events[j].ppid /\ c.spawn_ts = events[j].ts
      /\ c.parent = events[j].parent
  <2>1. j \in DOMAIN events /\ c \in Instance
    BY <1>1, <1>4, <1>5, LifelineOrder
  <2> HIDE DEF c
  <2>2. /\ c.ppid = events[j].ppid /\ c.spawn_ts = events[j].ts
        /\ c.parent = events[j].parent
    BY <1>4, <1>5 DEF Lifeline
  <2>3. c.observed <=> events[j].kind = "spawn"
    BY <1>4, <1>5 DEF Lifeline
  <2>4. c.observed
    BY DEF c
  <2>q. QED BY <2>1, <2>2, <2>3, <2>4
<1> HIDE DEF c, j
<1> DEFINE q == c.ppid
<1>7. q \in PidsOf(events) /\ q # c.pid /\ q \in Pid
  BY <1>1, <1>2, HasParent DEF Graph
<1> DEFINE L == Graph[q]
           A == {k \in 1..Len(L) : L[k].spawn_ts <= c.spawn_ts}
<1>8. PICK o, t : Lifeline(o, t, L, events, q)
  BY <1>7, GraphIs
<1>9. /\ Len(L) \in Nat /\ Len(L) >= 1
      /\ \A k \in 1..Len(L) : /\ L[k] \in Instance /\ L[k].spawn_ts \in Nat
                              /\ o[k] \in DOMAIN events /\ t[k] \in DOMAIN events
                              /\ Key(L[k]) = <<q, L[k].spawn_ts>>
  <2>1. events \in Seq(Event) /\ InOrder(events) /\ q \in PidsOf(events)
    BY <1>1, <1>7
  <2> HIDE DEF L, q
  <2>q. QED BY <1>8, <2>1, LifelineOrder
<1>10. /\ \A m \in A : (\A k \in A : k <= m) => ParentLiveAt(Graph, c) = <<q, L[m].spawn_ts>>
       /\ A = {} => ParentLiveAt(Graph, c) = IF c.observed THEN NoKey ELSE <<q, L[1].spawn_ts>>
  BY <1>1, <1>6, <1>7, ParentIs DEF Graph
<1>11. A # {}
  <2>1. c.observed
    BY DEF c
  <2>q. QED BY <1>2, <1>10, <2>1
<1>12. PICK m \in A : \A k \in A : k <= m
  <2>1. A \subseteq 1..Len(L)
    OBVIOUS
  <2> HIDE DEF A
  <2>q. QED BY <1>9, <1>11, <2>1, Greatest
<1>13. m \in 1..Len(L) /\ e.parent = Key(L[m]) /\ L[m].spawn_ts <= c.spawn_ts
  BY <1>2, <1>9, <1>10, <1>12
<1>14. /\ \A k \in 1..Len(L) : /\ o[k] <= t[k] /\ events[o[k]].pid = q
                               /\ L[k].spawn_ts = events[o[k]].ts
                               /\ \A i \in o[k]..t[k] : events[i].pid = q => events[i].id \in L[k].ids
       /\ \A i \in DOMAIN events : events[i].pid = q => \E k \in 1..Len(L) : i \in o[k]..t[k]
       /\ \A i, k \in 1..Len(L) : i < k => t[i] < o[k]
  BY <1>8 DEF Lifeline
<1> HIDE DEF q, L
<1> DEFINE B == {i \in DOMAIN events : events[i].pid = q /\ events[i].ts <= events[j].ts}
<1>15. o[m] \in B
  BY <1>6, <1>9, <1>13, <1>14
<1>16. PICK i \in B : \A k \in B : k <= i
  <2>1. B \subseteq 1..Len(events) /\ Len(events) \in Nat
    BY <1>1, EventAt
  <2> HIDE DEF B
  <2>q. QED BY <1>15, <2>1, Greatest
<1>17. events[i].id = c.parent
  <2>1. i \in DOMAIN events /\ events[i].pid = events[j].ppid /\ events[i].ts <= events[j].ts
    BY <1>6 DEF q
  <2>2. \A k \in DOMAIN events : events[k].pid = events[j].ppid /\ events[k].ts <= events[j].ts => k <= i
    BY <1>6, <1>16 DEF q
  <2>3. events[j].ppid \in Pid
    BY <1>6, <1>7 DEF q
  <2>4. ParentIsLast
    BY DEF PollerInv
  <2>5. events[j].parent # 0
    BY <1>6 DEF c
  <2>q. QED BY <1>6, <2>1, <2>2, <2>3, <2>4, <2>5 DEF ParentIsLast
<1>18. PICK k \in 1..Len(L) : i \in o[k]..t[k]
  BY <1>14
<1>19. k = m
  <2>0. /\ i \in DOMAIN events /\ o[k] \in DOMAIN events /\ o[k] \in Nat /\ t[k] \in Nat /\ o[m] \in Nat
        /\ i \in Nat /\ o[k] <= i /\ i <= t[k] /\ o[m] <= i /\ k \in Nat /\ m \in Nat
    <3>1. /\ i \in DOMAIN events /\ o[k] \in DOMAIN events /\ t[k] \in DOMAIN events
          /\ o[m] \in DOMAIN events /\ o[m] <= i /\ k \in Nat /\ m \in Nat
      BY <1>9, <1>13, <1>15, <1>16, <1>18
    <3>2. \A l \in DOMAIN events : l \in Nat
      BY <1>1
    <3>3. i \in o[k]..t[k]
      BY <1>18
    <3>q. QED BY <3>1, <3>2, <3>3
  <2>1. k <= m
    <3>1. events[o[k]].ts <= events[i].ts
      <4>1. CASE o[k] < i
        BY <1>1, <2>0, <4>1 DEF InOrder
      <4>2. CASE o[k] = i
        BY <1>1, <2>0, <4>2
      <4>q. QED BY <2>0, <4>1, <4>2
    <3>2. events[i].ts <= c.spawn_ts
      BY <1>6
    <3>3. L[k].spawn_ts <= c.spawn_ts
      <4>1. L[k].spawn_ts = events[o[k]].ts
        BY <1>14, <1>18
      <4>2. events[o[k]].ts \in Nat /\ events[i].ts \in Nat /\ c.spawn_ts \in Nat
        BY <1>1, <1>6, <2>0
      <4>q. QED BY <3>1, <3>2, <4>1, <4>2
    <3>4. k \in A
      BY <3>3
    <3>q. QED BY <1>12, <3>4
  <2>2. ~(k < m)
    BY <1>13, <1>14, <1>18, <2>0
  <2>q. QED BY <2>0, <2>1, <2>2
<1>20. c.parent \in L[m].ids
  <2>1. events[i].pid = q
    OBVIOUS
  <2>q. QED BY <1>13, <1>14, <1>17, <1>18, <1>19, <2>1
<1>21. L[m] \in InstanceSet(Graph)
  BY <1>7, <1>13, GraphIs DEF L
<1>22. c.parent \in IdsOf(Graph, Key(L[m]))
  BY <1>20, <1>21, IdsOfInstance
<1>q. QED BY <1>13, <1>22 DEF c

(* An exit is the last event of its instance.                               *)
LEMMA ExitIsLast ==
  ASSUME NEW E \in Seq(Event), InOrder(E), NEW p \in PidsOf(E), NEW L, NEW o, NEW t,
         Lifeline(o, t, L, E, p), NEW n \in 1..Len(L), NEW k \in o[n]..t[n],
         E[k].pid = p, E[k].kind = "exit"
  PROVE  k = t[n]
<1>1. /\ DOMAIN E = 1..Len(E) /\ Len(E) \in Nat /\ Len(L) \in Nat
      /\ \A m \in 1..Len(L) : /\ o[m] \in DOMAIN E /\ t[m] \in DOMAIN E
                              /\ o[m] \in Nat /\ t[m] \in Nat
  BY LifelineOrder, LenProperties
<1>2. /\ \A j, m \in 1..Len(L) : j < m => t[j] < o[m]
      /\ \A m \in 1..Len(L) : o[m] <= t[m] /\ E[t[m]].pid = p
      /\ \A i \in DOMAIN E : E[i].pid = p /\ OpensAt(E, i) => \E m \in 1..Len(L) : o[m] = i
  BY DEF Lifeline
<1>3. SUFFICES ASSUME k # t[n] PROVE FALSE
  OBVIOUS
<1> DEFINE S == {i \in (k + 1)..t[n] : E[i].pid = p}
<1>4. k \in Nat /\ k >= 1 /\ k < t[n] /\ t[n] \in S /\ S \subseteq 1..t[n] /\ S \subseteq DOMAIN E
  BY <1>1, <1>2, <1>3
<1>5. PICK i \in S : \A l \in S : i <= l
  <2> HIDE DEF S
  <2>q. QED BY <1>1, <1>4, Least
<1>6. i \in DOMAIN E /\ i \in Nat /\ k < i /\ i <= t[n] /\ E[i].pid = p
  BY <1>1, <1>4, <1>5
<1>7. OpensAt(E, i)
  <2> SUFFICES ASSUME NEW m \in 1..(i - 1), E[m].pid = E[i].pid, E[m].kind # "exit"
               PROVE  \E l \in (m + 1)..(i - 1) : E[l].pid = E[i].pid
    BY DEF OpensAt
  <2>1. m # k
    OBVIOUS
  <2>2. m < k
    <3>1. SUFFICES ASSUME k < m PROVE FALSE
      BY <1>4, <2>1
    <3>2. m \in S
      BY <1>4, <1>6, <3>1
    <3>q. QED BY <1>5, <1>6, <3>2
  <2>3. k \in (m + 1)..(i - 1)
    BY <1>4, <1>6, <2>2
  <2>q. QED BY <1>6, <2>3
<1>8. PICK m \in 1..Len(L) : o[m] = i
  BY <1>2, <1>6, <1>7
<1>9. o[n] < o[m] /\ o[m] <= t[n]
  BY <1>1, <1>4, <1>6, <1>8
<1>10. n \in Nat /\ m \in Nat /\ o[n] <= t[n] /\ o[m] <= t[m]
       /\ o[n] \in Nat /\ t[n] \in Nat /\ o[m] \in Nat /\ t[m] \in Nat
  BY <1>1, <1>2
<1>11. ~(n < m)
  <2>1. n < m => t[n] < o[m]
    BY <1>2
  <2>q. QED BY <1>9, <1>10, <2>1
<1>12. ~(m < n)
  <2>1. m < n => t[m] < o[n]
    BY <1>2
  <2>q. QED BY <1>9, <1>10, <2>1
<1>13. m # n
  BY <1>9, <1>10
<1>q. QED BY <1>10, <1>11, <1>12, <1>13

LEMMA LifetimesHold ==
  ASSUME PollerInv
  PROVE  LifetimesAreTrue
<1> SUFFICES ASSUME "scan" \notin faults
             PROVE  /\ \A x \in InstanceSet(Graph) :
                         Dependable(x) /\ x.exit_ts # NoExit => \A p \in Pid : proc[p].id # x.id
                    /\ faults = {} =>
                         \A p \in DOMAIN Graph :
                           \A n \in 1..(Len(Graph[p]) - 1) :
                             Dependable(Graph[p][n]) =>
                               Graph[p][n].exit_ts \in 0..Graph[p][n + 1].spawn_ts
  BY DEF LifetimesAreTrue
<1>1. events \in Seq(Event) /\ InOrder(events) /\ PidsOf(events) \subseteq Pid
      /\ DOMAIN Graph = PidsOf(events)
      /\ \A i \in DOMAIN events : /\ i \in Nat /\ events[i].ts \in Nat
                                  /\ events[i].kind \in {"spawn", "exit", "sample", "file"}
  BY GraphIs, EventAt
<1>3. ExitsAreTrue /\ SpawnsEnd
  BY DEF PollerInv
<1>4. ASSUME NEW x \in InstanceSet(Graph), Dependable(x), x.exit_ts # NoExit, NEW p \in Pid
      PROVE  proc[p].id # x.id
  <2>1. PICK q \in PidsOf(events) : \E k \in 1..Len(Graph[q]) : x = Graph[q][k]
    BY GraphIs
  <2>2. PICK k \in 1..Len(Graph[q]) : x = Graph[q][k]
    BY <2>1
  <2> DEFINE L == Graph[q]
  <2>3. PICK o, t : Lifeline(o, t, L, events, q)
    BY GraphIs
  <2>4. o[k] \in DOMAIN events /\ t[k] \in DOMAIN events
    BY <1>1, <2>2, <2>3, LifelineOrder
  <2>5. /\ o[k] <= t[k] /\ events[o[k]].pid = q /\ events[t[k]].pid = q
        /\ x.exit_ts = IF events[t[k]].kind = "exit" THEN events[t[k]].ts ELSE NoExit
        /\ x.id = events[o[k]].id
    BY <2>2, <2>3 DEF Lifeline
  <2>a. x.observed <=> events[o[k]].kind = "spawn"
    BY <2>2, <2>3 DEF Lifeline
  <2>b. Timed(events[o[k]])
    BY <1>4, <2>5, <2>a DEF Dependable, Timed
  <2>6. events[t[k]].kind = "exit"
    BY <1>4, <2>5
  <2>7. CASE o[k] = t[k]
    BY <1>3, <2>4, <2>5, <2>6, <2>7 DEF ExitsAreTrue
  <2>8. CASE o[k] # t[k]
    <3>2. o[k] < t[k]
      BY <1>1, <2>4, <2>5, <2>8
    <3>q. QED BY <1>3, <2>4, <2>5, <2>6, <2>b, <3>2 DEF SpawnsEnd
  <2>q. QED BY <2>7, <2>8
<1>5. ASSUME faults = {}, NEW p \in PidsOf(events), NEW n \in 1..(Len(Graph[p]) - 1),
             Dependable(Graph[p][n])
      PROVE  Graph[p][n].exit_ts \in 0..Graph[p][n + 1].spawn_ts
  <2> DEFINE L == Graph[p]
  <2>1. PICK o, t : Lifeline(o, t, L, events, p)
    BY GraphIs
  <2>a. Dependable(L[n])
    BY <1>5
  <2> HIDE DEF L
  <2>2. /\ Len(L) \in Nat
        /\ \A k \in 1..Len(L) : o[k] \in DOMAIN events /\ t[k] \in DOMAIN events
        /\ \A j, k \in 1..Len(L) : j <= k => o[j] <= o[k]
    BY <1>1, <2>1, LifelineOrder
  <2> DEFINE m == n + 1
  <2>3. n \in 1..Len(L) /\ m \in 1..Len(L) /\ n < m /\ m > 1 /\ m - 1 = n /\ n \in Nat
    <3>1. n \in 1..(Len(L) - 1)
      BY DEF L
    <3>q. QED BY <2>2, <3>1
  <2> HIDE DEF m
  <2>4. /\ L[m].spawn_ts = events[o[m]].ts /\ t[n] < o[m]
        /\ L[n].exit_ts = IF events[t[n]].kind = "exit" THEN events[t[n]].ts ELSE NoExit
        /\ events[o[m]].kind = "spawn" \/ events[t[n]].kind = "exit"
        /\ events[t[n]].pid = p /\ events[o[m]].pid = p /\ events[o[n]].pid = p
        /\ o[n] <= t[n]
    <3>1. /\ L[m].spawn_ts = events[o[m]].ts /\ events[o[m]].pid = p
          /\ L[n].exit_ts = IF events[t[n]].kind = "exit" THEN events[t[n]].ts ELSE NoExit
          /\ events[t[n]].pid = p /\ events[o[n]].pid = p /\ t[n] < o[m] /\ o[n] <= t[n]
      BY <2>1, <2>3 DEF Lifeline
    <3>2. events[o[m]].kind = "spawn" \/ events[t[m - 1]].kind = "exit"
      BY <2>1, <2>3 DEF Lifeline
    <3>q. QED BY <2>3, <3>1, <3>2
  <2>b. Timed(events[o[n]])
    <3>1. L[n].id = events[o[n]].id
      BY <2>1, <2>3 DEF Lifeline
    <3>2. L[n].observed <=> events[o[n]].kind = "spawn"
      BY <2>1, <2>3 DEF Lifeline
    <3>q. QED BY <2>a, <3>1, <3>2 DEF Dependable, Timed
  <2>5. events[t[n]].kind = "exit"
    <3>1. SUFFICES ASSUME events[o[m]].kind = "spawn" PROVE events[t[n]].kind = "exit"
      BY <2>4
    <3>3. ExitsBetween
      BY <1>5 DEF PollerInv
    <3>4. /\ o[n] \in DOMAIN events /\ t[n] \in DOMAIN events /\ o[m] \in DOMAIN events
          /\ o[n] \in Nat /\ t[n] \in Nat /\ o[m] \in Nat /\ o[n] < o[m]
      BY <1>1, <2>2, <2>3, <2>4
    <3>5. PICK k \in o[n]..(o[m] - 1) : events[k].pid = p /\ events[k].kind = "exit"
      BY <2>4, <2>b, <3>1, <3>3, <3>4 DEF ExitsBetween
    <3>6. k \in DOMAIN events
      <4>1. DOMAIN events = 1..Len(events) /\ Len(events) \in Nat
        BY <1>1, LenProperties
      <4>q. QED BY <3>4, <3>5, <4>1
    <3>7. PICK l \in 1..Len(L) : k \in o[l]..t[l]
      BY <2>1, <3>5, <3>6 DEF Lifeline
    <3>8. \A a, b \in 1..Len(L) : a < b => t[a] < o[b]
      BY <2>1 DEF Lifeline
    <3>10. o[l] \in Nat /\ t[l] \in Nat /\ k \in Nat /\ o[n] <= k /\ k < o[m] /\ o[l] <= k /\ k <= t[l]
      BY <1>1, <2>2, <3>4, <3>5, <3>6, <3>7
    <3>11. ~(l < n)
      BY <2>3, <3>4, <3>7, <3>8, <3>10
    <3>12. ~(m <= l)
      BY <2>2, <2>3, <3>4, <3>7, <3>10
    <3>13. l = n
      BY <2>3, <3>7, <3>11, <3>12 DEF m
    <3>14. k = t[n]
      BY <1>1, <2>1, <2>3, <3>5, <3>7, <3>13, ExitIsLast
    <3>q. QED BY <3>5, <3>14
  <2>6. events[t[n]].ts <= events[o[m]].ts
    BY <1>1, <2>2, <2>3, <2>4 DEF InOrder
  <2>7. events[t[n]].ts \in Nat /\ events[o[m]].ts \in Nat
    BY <1>1, <2>2, <2>3
  <2>8. L[n].exit_ts \in 0..L[m].spawn_ts
    BY <2>4, <2>5, <2>6, <2>7
  <2>q. QED BY <2>8 DEF L, m
<1>q. QED BY <1>1, <1>4, <1>5

(* An instance that is counted is from a spawn to an exit.                  *)
Counted(p, k, o, t) ==
  /\ o[k] \in DOMAIN events /\ t[k] \in DOMAIN events /\ o[k] < t[k]
  /\ events[o[k]].pid = p /\ events[t[k]].pid = p
  /\ events[o[k]].kind = "spawn" /\ events[t[k]].kind = "exit"
  /\ events[o[k]].id = Graph[p][k].id

LEMMA CountedInstance ==
  ASSUME PollerInv, NEW p \in PidsOf(events), NEW o, NEW t, Lifeline(o, t, Graph[p], events, p),
         NEW k \in 1..Len(Graph[p]), Graph[p][k] \in CrashLoop(Graph)
  PROVE  Counted(p, k, o, t)
<1> DEFINE z == Graph[p][k]
<1>1. z.observed /\ z.exit_ts # NoExit
  BY DEF CrashLoop
<1>2. o[k] \in DOMAIN events /\ t[k] \in DOMAIN events
  BY GraphIs, LifelineOrder
<1>3. /\ o[k] <= t[k] /\ events[o[k]].pid = p /\ events[t[k]].pid = p
      /\ z.exit_ts = IF events[t[k]].kind = "exit" THEN events[t[k]].ts ELSE NoExit
      /\ events[o[k]].id = z.id
  BY DEF Lifeline
<1>4. z.observed <=> events[o[k]].kind = "spawn"
  BY DEF Lifeline
<1>5. events[o[k]].kind = "spawn" /\ events[t[k]].kind = "exit"
  BY <1>1, <1>3, <1>4
<1>6. o[k] \in Nat /\ t[k] \in Nat
  BY <1>2, GraphIs, EventAt
<1>7. o[k] # t[k]
  BY <1>5
<1>8. o[k] < t[k]
  BY <1>3, <1>6, <1>7
<1>q. QED BY <1>2, <1>3, <1>5, <1>8 DEF Counted

LEMMA CrashLoopsHold ==
  ASSUME PollerInv
  PROVE  CrashLoopsAreReal
<1> SUFFICES ASSUME "scan" \notin faults, NEW x \in CrashLoop(Graph)
             PROVE  /\ \A p \in Pid : proc[p].id # x.id
                    /\ \A y \in CrashLoop(Graph) : y.id = x.id => y = x
  BY DEF CrashLoopsAreReal
<1>1. events \in Seq(Event) /\ InOrder(events) /\ PidsOf(events) \subseteq Pid
      /\ \A i \in DOMAIN events : i \in Nat /\ events[i].ts \in Nat
  BY GraphIs, EventAt
<1>2. SpawnedOnce /\ SpawnsEnd /\ Recorded /\ OnePid /\ TypeInv
  BY DEF PollerInv
<1>4. \A z \in CrashLoop(Graph) :
        \E p \in PidsOf(events) : \E k \in 1..Len(Graph[p]) : z = Graph[p][k]
  BY GraphIs DEF CrashLoop
<1>5. PICK p \in PidsOf(events) : \E k \in 1..Len(Graph[p]) : x = Graph[p][k]
  BY <1>4
<1>6. PICK k \in 1..Len(Graph[p]) : x = Graph[p][k]
  BY <1>5
<1>7. PICK o, t : Lifeline(o, t, Graph[p], events, p)
  BY GraphIs
<1>8. /\ o[k] \in DOMAIN events /\ t[k] \in DOMAIN events /\ o[k] < t[k]
      /\ events[o[k]].pid = p /\ events[t[k]].pid = p
      /\ events[o[k]].kind = "spawn" /\ events[t[k]].kind = "exit"
      /\ events[o[k]].id = x.id
  <2>1. Counted(p, k, o, t)
    BY <1>6, <1>7, CountedInstance
  <2>q. QED BY <1>6, <2>1 DEF Counted
<1>9. \A q \in Pid : proc[q].id # x.id
  BY <1>2, <1>8 DEF SpawnsEnd, Timed
<1>10. ASSUME NEW y \in CrashLoop(Graph), y.id = x.id
       PROVE  y = x
  <2>1. PICK q \in PidsOf(events) : \E m \in 1..Len(Graph[q]) : y = Graph[q][m]
    BY <1>4
  <2>2. PICK m \in 1..Len(Graph[q]) : y = Graph[q][m]
    BY <2>1
  <2>3. PICK u, v : Lifeline(u, v, Graph[q], events, q)
    BY GraphIs
  <2>4. /\ u[m] \in DOMAIN events /\ events[u[m]].pid = q
        /\ events[u[m]].kind = "spawn" /\ events[u[m]].id = y.id
    <3>1. Graph[q][m] \in CrashLoop(Graph)
      BY <2>2
    <3>2. Counted(q, m, u, v)
      BY <2>3, <3>1, CountedInstance
    <3>q. QED BY <2>2, <3>2 DEF Counted
  <2>5. p = q
    <3>1. events[o[k]].id # 0
      BY <1>2, <1>8 DEF Recorded
    <3>2. events[u[m]].id = events[o[k]].id
      BY <1>8, <1>10, <2>4
    <3>q. QED BY <1>2, <1>8, <2>4, <3>1, <3>2, IdFacts
  <2>6. /\ m \in 1..Len(Graph[p]) /\ y = Graph[p][m]
    BY <2>2, <2>5
  <2>7. /\ o[m] \in DOMAIN events /\ events[o[m]].kind = "spawn" /\ events[o[m]].id = y.id
    <3>1. Graph[p][m] \in CrashLoop(Graph)
      BY <2>6
    <3>2. Counted(p, m, o, t)
      BY <1>7, <2>6, <3>1, CountedInstance
    <3>q. QED BY <2>6, <3>2 DEF Counted
  <2>8. o[m] = o[k]
    <3>1. events[o[m]].id = events[o[k]].id
      BY <1>8, <1>10, <2>7
    <3>2. ~(o[m] < o[k])
      BY <1>2, <1>8, <2>7, <3>1 DEF SpawnedOnce
    <3>3. ~(o[k] < o[m])
      BY <1>2, <1>8, <2>7, <3>1 DEF SpawnedOnce
    <3>4. o[m] \in Nat /\ o[k] \in Nat
      BY <1>1, <1>8, <2>7
    <3>q. QED BY <3>2, <3>3, <3>4
  <2>9. m = k
    <3>1. \A a, b \in 1..Len(Graph[p]) : a < b => o[a] < o[b]
      BY <1>1, <1>7, LifelineOrder
    <3>2. o[k] \in Nat
      BY <1>1, <1>8
    <3>q. QED BY <1>6, <2>6, <2>8, <3>1, <3>2
  <2>q. QED BY <1>6, <2>6, <2>9
<1>q. QED BY <1>9, <1>10

LEMMA SpikesHold ==
  ASSUME PollerInv
  PROVE  SpikesAgree
<1>1. events \in Seq(Event) /\ InOrder(events) /\ PidsOf(events) \subseteq Pid
      /\ \A i \in DOMAIN events : i \in Nat /\ events[i].ts \in Nat
  BY GraphIs, EventAt
<1> SUFFICES ASSUME NEW p \in PidsOf(events)
             PROVE  ProcDetail(events, Graph, p) = Credited(events, Graph, LatestInstance(Graph, p))
  <2>1. \A c \in CpuCards(events) : c.pid \in PidsOf(events)
    BY DEF CpuCards
  <2>q. QED BY <2>1 DEF SpikesAgree
<1> DEFINE L == Graph[p]
           n == Len(L)
<1>2. PICK o, t : Lifeline(o, t, L, events, p)
  BY <1>1, GraphIs
<1>3. /\ n \in Nat /\ n >= 1 /\ n \in 1..n /\ DOMAIN L = 1..n
      /\ \A k \in 1..n : /\ L[k].spawn_ts \in Nat /\ o[k] \in DOMAIN events /\ t[k] \in DOMAIN events
                         /\ Key(L[k]) = <<p, L[k].spawn_ts>>
  BY <1>1, <1>2, LifelineOrder
<1>4. \A i \in DOMAIN events : events[i].pid = p => i <= t[n]
  BY <1>1, <1>2, LifelineEnds
<1>5. LatestInstance(Graph, p) = Key(L[n]) /\ Node(Graph, Key(L[n])) = L[n]
  BY <1>1, LatestIsLast DEF Graph
<1>6. /\ events[t[n]].pid = p
      /\ L[n].exit_ts = IF events[t[n]].kind = "exit" THEN events[t[n]].ts ELSE NoExit
      /\ \A i \in DOMAIN events : events[i].pid = p => \E k \in 1..n : i \in o[k]..t[k]
      /\ \A k \in 1..n : L[k].spawn_ts = events[o[k]].ts
  <2>1. /\ \A k \in 1..n : /\ events[t[k]].pid = p /\ L[k].spawn_ts = events[o[k]].ts
                           /\ L[k].exit_ts = IF events[t[k]].kind = "exit" THEN events[t[k]].ts ELSE NoExit
        /\ \A i \in DOMAIN events : events[i].pid = p => \E k \in 1..n : i \in o[k]..t[k]
    BY <1>2 DEF Lifeline
  <2> HIDE DEF n, L
  <2>q. QED BY <1>3, <2>1
<1> HIDE DEF n
<1>7. ASSUME NEW i \in SamplesOfPid(events, p)
      PROVE  /\ i \in DOMAIN events /\ events[i].kind = "sample" /\ events[i].pid = p
             /\ L[n].exit_ts = NoExit \/ events[i].ts < L[n].exit_ts
  <2>1. i \in DOMAIN events /\ events[i].kind = "sample" /\ events[i].pid = p
    BY DEF SamplesOfPid
  <2>2. CASE events[t[n]].kind = "exit"
    <3>1. i # t[n]
      BY <2>1, <2>2
    <3>2. i < t[n]
      BY <1>1, <1>3, <1>4, <2>1, <3>1
    <3>3. events[i].ts <= events[t[n]].ts
      BY <1>1, <1>3, <2>1, <3>2 DEF InOrder
    <3>4. events[i].ts # events[t[n]].ts
      <4>1. Timely
        BY DEF PollerInv
      <4>q. QED BY <1>3, <2>1, <2>2, <4>1 DEF Timely
    <3>5. events[i].ts < events[t[n]].ts
      BY <1>1, <1>3, <2>1, <3>3, <3>4
    <3>q. QED BY <1>6, <2>1, <2>2, <3>5
  <2>3. CASE events[t[n]].kind # "exit"
    BY <1>6, <2>1, <2>3
  <2>q. QED BY <2>2, <2>3
<1>8. ASSUME NEW i \in SamplesOfPid(events, p)
      PROVE  (events[i].ts >= L[n].spawn_ts) <=> (InstanceFor(Graph, p, events[i].ts) = Key(L[n]))
  <2> DEFINE ts == events[i].ts
             begun == {k \in 1..n : L[k].spawn_ts <= ts}
             open == {k \in begun : \/ Node(Graph, Key(L[k])).exit_ts = NoExit
                                    \/ ts < Node(Graph, Key(L[k])).exit_ts}
             Latest(S) == CHOOSE k \in S : \A m \in S : m <= k
             pick == IF open # {} THEN Latest(open) ELSE IF begun # {} THEN Latest(begun) ELSE 1
  <2>1. InstanceFor(Graph, p, ts) = Key(L[pick])
    BY <1>3 DEF InstanceFor
  <2>2. ts \in Nat
    BY <1>1, <1>7
  <2>3. begun # {}
    <3>1. i \in DOMAIN events /\ events[i].pid = p
      BY <1>7
    <3>2. PICK k \in 1..n : i \in o[k]..t[k]
      BY <1>6, <3>1
    <3>3. o[k] \in DOMAIN events /\ i \in Nat /\ o[k] \in Nat
      BY <1>1, <1>3, <3>1
    <3>4. events[o[k]].ts <= ts
      <4>1. CASE o[k] < i
        BY <1>1, <3>1, <3>3, <4>1 DEF InOrder
      <4>2. CASE o[k] = i
        BY <2>2, <4>2
      <4>q. QED BY <3>2, <3>3, <4>1, <4>2
    <3>5. k \in begun
      BY <1>6, <3>4
    <3>q. QED BY <3>5
  <2>4. open \subseteq begun /\ begun \subseteq 1..n
    OBVIOUS
  <2>5. n \in begun => n \in open
    <3>1. Node(Graph, Key(L[n])) = L[n]
      BY <1>5
    <3>q. QED BY <1>7, <3>1
  <2> HIDE DEF open, Latest
  <2>6. \A S : S # {} /\ S \subseteq 1..n => Latest(S) \in S /\ \A m \in S : m <= Latest(S)
    <3> SUFFICES ASSUME NEW S, S # {}, S \subseteq 1..n
                 PROVE  Latest(S) \in S /\ \A m \in S : m <= Latest(S)
      OBVIOUS
    <3>1. \E k \in S : \A m \in S : m <= k
      BY <1>3, Greatest
    <3>q. QED BY <3>1 DEF Latest
  <2>7. pick \in begun
    BY <2>3, <2>4, <2>6
  <2>8. ASSUME ts >= L[n].spawn_ts PROVE Key(L[pick]) = Key(L[n])
    <3>1. n \in begun
      BY <1>3, <2>2, <2>8
    <3>2. n \in open
      BY <2>5, <3>1
    <3>3. pick \in 1..n /\ n <= pick
      BY <2>4, <2>6, <3>2
    <3>4. pick = n
      BY <1>3, <3>3
    <3>q. QED BY <3>4
  <2>9. ASSUME Key(L[pick]) = Key(L[n]) PROVE ts >= L[n].spawn_ts
    <3>1. pick \in 1..n /\ L[pick].spawn_ts <= ts
      BY <2>7
    <3> HIDE DEF pick
    <3>2. L[pick].spawn_ts = L[n].spawn_ts
      BY <1>3, <2>9, <3>1
    <3>3. L[n].spawn_ts \in Nat
      BY <1>3
    <3>q. QED BY <2>2, <3>1, <3>2, <3>3
  <2>q. QED BY <2>1, <2>8, <2>9
<1> DEFINE K == Key(L[n])
<1>9. K[1] = p
  BY <1>3
<1>10. ProcDetail(events, Graph, p) = {i \in SamplesOfPid(events, p) : events[i].ts >= L[n].spawn_ts}
  <2>1. ProcDetail(events, Graph, p) =
          {i \in SamplesOfPid(events, p) :
             /\ events[i].ts >= L[n].spawn_ts
             /\ L[n].exit_ts = NoExit \/ events[i].ts <= L[n].exit_ts}
    BY <1>5 DEF ProcDetail
  <2>2. \A i \in SamplesOfPid(events, p) : L[n].exit_ts = NoExit \/ events[i].ts <= L[n].exit_ts
    <3>1. L[n].exit_ts = NoExit \/ L[n].exit_ts \in Nat
      BY <1>1, <1>3, <1>6
    <3>2. \A i \in SamplesOfPid(events, p) : events[i].ts \in Nat
      BY <1>1, <1>7
    <3>q. QED BY <1>7, <3>1, <3>2
  <2>q. QED BY <2>1, <2>2
<1>11. Credited(events, Graph, K) =
         {i \in SamplesOfPid(events, p) : InstanceFor(Graph, p, events[i].ts) = K}
  BY <1>9 DEF Credited
<1>q. QED BY <1>5, <1>8, <1>10, <1>11

LEMMA RewindsAgree ==
  ASSUME PollerInv
  PROVE  RewindAgrees
BY RewindHolds DEF PollerInv, TypeInv, Recorded, Timely

-----------------------------------------------------------------------------
(* The theorems about the poller and the graph. *)

(* The parent that builder.py gives to a process whose spawn was observed   *)
(* is the process that was its parent when poll.go first saw it, though     *)
(* pids are used again, scans leave processes out and the oldest events go: *)
(* as long as the recorder was not stopped, and if the scan that first saw  *)
(* the process saw its parent too.                                          *)
THEOREM TrueParentHolds == Spec => []TrueParent
<1>1. PollerInv => TrueParent
  BY ParentsAreTrue
<1>q. QED BY <1>1, PollerInvariance, PTL

(* latest_instance (traverse.py) of a pid whose process the last diff saw   *)
(* is that process, and its node is open, as long as the recorder was not   *)
(* stopped.                                                                 *)
THEOREM LatestIsLiveHolds == Spec => []LatestIsLive
<1>1. PollerInv => LatestIsLive
  BY LatestLives
<1>q. QED BY <1>1, PollerInvariance, PTL

(* The lifetimes that _segment (builder.py) makes are those of the          *)
(* processes, unless a scan left one out; within one run of the recorder    *)
(* the instances of a pid do not overlap.  Excepted are the instances that  *)
(* a sample opened for a process which no diff and no baseline had yet.     *)
THEOREM LifetimesAreTrueHold == Spec => []LifetimesAreTrue
<1>1. PollerInv => LifetimesAreTrue
  BY LifetimesHold
<1>q. QED BY <1>1, PollerInvariance, PTL

(* proc_detail (server.py) and _instance_for (attribution.py) give the      *)
(* latest instance of a pid the same samples.                               *)
THEOREM SpikesAgreeHolds == Spec => []SpikesAgree
<1>1. PollerInv => SpikesAgree
  BY SpikesHold
<1>q. QED BY <1>1, PollerInvariance, PTL

(* A crash loop (incidents, server.py) counts processes that are gone, and  *)
(* each of them once, as long as the scans succeed.                         *)
THEOREM CrashLoopsAreRealHold == Spec => []CrashLoopsAreReal
<1>1. PollerInv => CrashLoopsAreReal
  BY CrashLoopsHold
<1>q. QED BY <1>1, PollerInvariance, PTL

(* A view of the past (_view, server.py) shows no parent and no file cause  *)
(* that the present view takes back.                                        *)
THEOREM RewindAgreesHolds == Spec => []RewindAgrees
<1>1. PollerInv => RewindAgrees
  BY RewindsAgree
<1>q. QED BY <1>1, PollerInvariance, PTL

(* Over all runs of the recorder, if its scans succeed, a process is        *)
(* reported as spawned at most once and as gone at most once, and never     *)
(* after that (ReportedOnce).                                               *)
THEOREM ReportedOnceHolds == Spec => ReportedOnce
<1> DEFINE A == "scan" \notin faults' =>
                  \A j \in (Len(events) + 1)..Len(events') :
                    LET before == {events'[i].kind : i \in {k \in 1..(j - 1) : events'[k].id = events'[j].id}}
                    IN  /\ "exit" \notin before
                        /\ events'[j].kind = "spawn" =>
                             before \subseteq {"sample"} /\ events'[j].id \notin baseline'
<1>1. PollerInv /\ PollerInv' /\ [Next]_vars => [A]_vars
  <2>1. ASSUME PollerInv, PollerInv', Next PROVE A
    BY <2>1, ReportsOnce
  <2> HIDE DEF A
  <2>q. QED BY <2>1
<1>q. QED BY <1>1, PollerInvariance, PTL DEF Spec, ReportedOnce

-----------------------------------------------------------------------------
(* The interval between two diffs (PollCadence). *)

(* The bounds are at most half of what a Duration can hold (146 years), so  *)
(* that doubling one does not wrap around.                                  *)
Half == \A d \in Configured \cup SampleIntervals : 2 * d < TwoTo[Bits - 1]

LEMMA Powers ==
  /\ TwoTo[0] = 1
  /\ \A n \in 1..(Bits + MaxTicks) : TwoTo[n] = 2 * TwoTo[n - 1]
  /\ \A n \in 0..(Bits + MaxTicks) : TwoTo[n] \in Nat
<1> DEFINE K == Bits + MaxTicks
           Def(f) == [n \in 0..K |-> IF n = 0 THEN 1 ELSE 2 * f[n - 1]]
           Move == [n \in 1..K |-> [x \in Nat |-> 2 * x]]
           powers == CHOOSE f : f = Def(f)
<1>1. K \in Nat
  BY PollCadenceAssumption
<1>2. TwoTo = powers
  BY DEF TwoTo
<1> HIDE DEF K
<1>3. PICK f : Solves(f, Nat, K, 1, Move)
  <2>1. Move \in [1..K -> [Nat -> Nat]]
    OBVIOUS
  <2> HIDE DEF Move
  <2>q. QED BY <1>1, <2>1, RecursionExists
<1>4. f = Def(f)
  <2>1. /\ f \in [0..K -> Nat] /\ f[0] = 1
        /\ \A n \in 1..K : f[n] = Move[n][f[n - 1]]
    BY <1>3 DEF Solves
  <2>2. \A n \in 0..K : n = 0 \/ (n \in 1..K /\ n - 1 \in 0..K)
    BY <1>1
  <2>3. \A n \in 1..K : f[n] = 2 * f[n - 1]
    <3> SUFFICES ASSUME NEW n \in 1..K PROVE f[n] = 2 * f[n - 1]
      OBVIOUS
    <3>1. f[n - 1] \in Nat
      BY <1>1, <2>1
    <3>q. QED BY <2>1, <3>1
  <2>4. \A n \in 0..K : f[n] = IF n = 0 THEN 1 ELSE 2 * f[n - 1]
    <3> HIDE DEF Move
    <3>q. QED BY <2>1, <2>2, <2>3
  <2>q. QED BY <2>1, <2>4, Zenon
<1>5. powers = Def(powers)
  <2> HIDE DEF Def
  <2>q. QED BY <1>4
<1>6. /\ powers[0] = 1
      /\ \A n \in 1..K : powers[n] = 2 * powers[n - 1]
  <2> HIDE DEF powers
  <2>1. \A n \in 0..K : powers[n] = IF n = 0 THEN 1 ELSE 2 * powers[n - 1]
    BY <1>5, Zenon
  <2>2. 0 \in 0..K /\ \A n \in 1..K : n \in 0..K /\ n # 0
    BY <1>1
  <2>q. QED BY <2>1, <2>2
<1> HIDE DEF powers
<1>7. \A n \in 0..K : powers[n] \in Nat
  <2> DEFINE T == {n \in Nat : n <= K => powers[n] \in Nat}
  <2>1. 0 \in T
    BY <1>6
  <2>2. ASSUME NEW n \in Nat, n \in T PROVE n + 1 \in T
    <3> SUFFICES ASSUME n + 1 <= K PROVE powers[n + 1] \in Nat
      OBVIOUS
    <3>1. n + 1 \in 1..K /\ (n + 1) - 1 = n /\ powers[n] \in Nat
      BY <1>1, <2>2
    <3>2. powers[n + 1] = 2 * powers[n]
      BY <1>6, <3>1
    <3>q. QED BY <3>1, <3>2
  <2>3. Nat \subseteq T
    <3> HIDE DEF T
    <3>q. QED BY <2>1, <2>2, InductionOverNat
  <2>q. QED BY <1>1, <2>3
<1>q. QED BY <1>2, <1>6, <1>7 DEF K

(* Below half of its range a Duration holds the sum itself.                 *)
LEMMA NoWrap ==
  ASSUME NEW x \in Nat, x < TwoTo[Bits - 1]
  PROVE  Wrap(x) = x
<1> DEFINE h == TwoTo[Bits - 1]
           m == TwoTo[Bits]
<1>1. h \in Nat /\ m = 2 * h
  <2>1. Bits - 1 \in 0..(Bits + MaxTicks) /\ Bits \in 1..(Bits + MaxTicks)
    BY PollCadenceAssumption
  <2>q. QED BY <2>1, Powers
<1>2. x < h /\ Wrap(x) = ((x + h) % m) - h
  BY DEF Wrap
<1> HIDE DEF h, m
<1>3. x + h \in 0..(m - 1) /\ m \in Nat /\ m > 0
  BY <1>1, <1>2
<1>4. (x + h) % m = x + h
  BY <1>1, <1>3
<1>q. QED BY <1>1, <1>2, <1>4

(* How often it has doubled since the last burst: k times.                  *)
Doubled(k) ==
  /\ calm = k * backoffQuiet + quiet
  /\ interval = Capped(min * TwoTo[k])

CadenceInv ==
  /\ pollMin \in Configured /\ pollMax \in Configured /\ sampleInterval \in SampleIntervals
  /\ interval \in min..max
  /\ quiet \in 0..(backoffQuiet - 1)
  /\ calm \in 0..MaxTicks
  /\ burst /\ calm < MaxTicks => \E k \in 0..MaxTicks : Doubled(k)

LEMMA Bounds ==
  ASSUME pollMin \in Configured, pollMax \in Configured, sampleInterval \in SampleIntervals
  PROVE  /\ min \in Nat /\ max \in Nat /\ 0 < min /\ min <= max
         /\ max \in Configured \cup SampleIntervals
<1>1. /\ pollMin \in Nat /\ pollMax \in Nat /\ sampleInterval \in Nat /\ sampleInterval > 0
  BY PollCadenceAssumption
<1>2. max \in Nat /\ max > 0 /\ max \in Configured \cup SampleIntervals
  BY <1>1 DEF max
<1>3. min \in Nat /\ 0 < min /\ min <= max
  <2> HIDE DEF max
  <2>q. QED BY <1>1, <1>2 DEF min
<1>q. QED BY <1>2, <1>3

(* Doubling twice what was capped is capping what was doubled.              *)
LEMMA CappedTwice ==
  ASSUME max \in Nat, NEW x \in Nat
  PROVE  /\ Capped(x) \in Nat /\ Capped(x) <= max
         /\ Capped(2 * Capped(x)) = Capped(2 * x)
  BY DEF Capped

LEMMA Quotient ==
  ASSUME NEW k \in Nat, NEW q \in Nat \ {0}, NEW r \in 0..(q - 1)
  PROVE  (k * q + r) \div q = k
  OBVIOUS

LEMMA Initially ==
  ASSUME CadenceInit
  PROVE  CadenceInv
<1>1. /\ min \in Nat /\ max \in Nat /\ min <= max /\ interval = max
      /\ quiet = 0 /\ calm = 0 /\ burst = FALSE
      /\ pollMin \in Configured /\ pollMax \in Configured /\ sampleInterval \in SampleIntervals
  BY Bounds DEF CadenceInit
<1>q. QED BY <1>1, PollCadenceAssumption DEF CadenceInv

LEMMA TickKeeps ==
  ASSUME Half, CadenceInv, Tick
  PROVE  CadenceInv'
<1>1. PICK churn \in 0..churnBurst : NextInterval(churn)
  BY DEF Tick
<1>2. UNCHANGED flags /\ min' = min /\ max' = max
  <2>1. UNCHANGED flags
    BY DEF Tick
  <2>q. QED BY <2>1 DEF flags, min, max
<1>3. /\ pollMin \in Configured /\ pollMax \in Configured /\ sampleInterval \in SampleIntervals
      /\ min \in Nat /\ max \in Nat /\ 0 < min /\ min <= max /\ max \in Configured \cup SampleIntervals
      /\ interval \in Nat /\ min <= interval /\ interval <= max
      /\ quiet \in 0..(backoffQuiet - 1) /\ calm \in 0..MaxTicks
      /\ backoffQuiet \in Nat /\ backoffQuiet >= 1 /\ MaxTicks \in Nat
  <2>1. /\ pollMin \in Configured /\ pollMax \in Configured /\ sampleInterval \in SampleIntervals
        /\ interval \in min..max /\ quiet \in 0..(backoffQuiet - 1) /\ calm \in 0..MaxTicks
    BY DEF CadenceInv
  <2>2. /\ min \in Nat /\ max \in Nat /\ 0 < min /\ min <= max /\ max \in Configured \cup SampleIntervals
    BY <2>1, Bounds
  <2>q. QED BY <2>1, <2>2, PollCadenceAssumption
<1>4. /\ pollMin' \in Configured /\ pollMax' \in Configured /\ sampleInterval' \in SampleIntervals
  BY <1>2, <1>3 DEF flags
(* A burst. *)
<1>5. CASE churn >= churnBurst
  <2>1. interval' = min /\ quiet' = 0 /\ calm' = 0
    BY <1>1, <1>5, PollCadenceAssumption DEF NextInterval
  <2>2. Capped(min * TwoTo[0])' = min
    <3>1. min * TwoTo[0] = min
      BY <1>3, Powers
    <3>2. Capped(min)' = min
      BY <1>2, <1>3 DEF Capped
    <3>3. Capped(min * TwoTo[0])' = Capped(min)'
      BY <1>2, <3>1 DEF Capped
    <3>q. QED BY <3>2, <3>3
  <2>3. Doubled(0)'
    BY <1>3, <2>1, <2>2 DEF Doubled
  <2>q. QED BY <1>2, <1>3, <1>4, <2>1, <2>3 DEF CadenceInv
(* A tick without one. *)
<1>6. CASE ~(churn >= churnBurst)
  <2>1. BackOff /\ burst' = burst /\ calm' = IF calm < MaxTicks THEN calm + 1 ELSE calm
    BY <1>1, <1>6 DEF NextInterval
  <2>2. calm' \in 0..MaxTicks
    BY <1>3, <2>1
  <2>3. Wrap(2 * interval) = 2 * interval /\ 2 * interval \in Nat
    <3>1. 2 * max < TwoTo[Bits - 1]
      BY <1>3 DEF Half
    <3>2. TwoTo[Bits - 1] \in Nat
      BY PollCadenceAssumption, Powers
    <3>3. 2 * interval < TwoTo[Bits - 1] /\ 2 * interval \in Nat
      BY <1>3, <3>1, <3>2
    <3>q. QED BY <3>3, NoWrap
  <2>4. CASE quiet + 1 >= backoffQuiet
    <3>1. interval' = Capped(2 * interval) /\ quiet' = 0 /\ quiet = backoffQuiet - 1
      BY <1>3, <2>1, <2>3, <2>4 DEF BackOff
    <3>2. interval' \in min..max
      BY <1>3, <3>1 DEF Capped
    <3>3. ASSUME burst', calm' < MaxTicks PROVE \E k \in 0..MaxTicks : Doubled(k)'
      <4>1. calm < MaxTicks /\ calm' = calm + 1
        BY <1>3, <2>1, <3>3
      <4>2. PICK k \in 0..MaxTicks : calm = k * backoffQuiet + quiet /\ interval = Capped(min * TwoTo[k])
        BY <2>1, <3>3, <4>1 DEF CadenceInv, Doubled
      <4>3. calm' = (k + 1) * backoffQuiet + quiet'
        BY <1>3, <3>1, <4>1, <4>2
      <4>4. k + 1 \in 0..MaxTicks
        <5>1. k * backoffQuiet >= k
          BY <1>3, <4>2
        <5>q. QED BY <1>3, <4>1, <4>2, <5>1
      <4>5. TwoTo[k + 1] = 2 * TwoTo[k] /\ TwoTo[k] \in Nat
        <5>1. k + 1 \in 1..(Bits + MaxTicks) /\ (k + 1) - 1 = k /\ k \in 0..(Bits + MaxTicks)
          BY <4>4, PollCadenceAssumption
        <5>q. QED BY <5>1, Powers
      <4> DEFINE x == min * TwoTo[k]
      <4>6. x \in Nat /\ min * TwoTo[k + 1] = 2 * x
        BY <1>3, <4>5
      <4>7. interval = Capped(x)
        BY <4>2
      <4> HIDE DEF x
      <4>8. interval' = Capped(min * TwoTo[k + 1])
        BY <1>3, <3>1, <4>6, <4>7, CappedTwice
      <4>9. interval' = Capped(min * TwoTo[k + 1])'
        BY <1>2, <4>8 DEF Capped
      <4>10. Doubled(k + 1)'
        BY <4>3, <4>9 DEF Doubled
      <4>q. QED BY <4>4, <4>10
    <3>q. QED BY <1>2, <1>3, <1>4, <2>2, <3>1, <3>2, <3>3 DEF CadenceInv
  <2>5. CASE ~(quiet + 1 >= backoffQuiet)
    <3>1. interval' = interval /\ quiet' = quiet + 1
      BY <1>3, <2>1, <2>5 DEF BackOff
    <3>2. ASSUME burst', calm' < MaxTicks PROVE \E k \in 0..MaxTicks : Doubled(k)'
      <4>1. calm < MaxTicks /\ calm' = calm + 1
        BY <1>3, <2>1, <3>2
      <4>2. PICK k \in 0..MaxTicks : calm = k * backoffQuiet + quiet /\ interval = Capped(min * TwoTo[k])
        BY <2>1, <3>2, <4>1 DEF CadenceInv, Doubled
      <4>3. calm' = k * backoffQuiet + quiet'
        BY <1>3, <3>1, <4>1, <4>2
      <4>4. interval' = Capped(min * TwoTo[k])'
        BY <1>2, <3>1, <4>2 DEF Capped
      <4>q. QED BY <4>3, <4>4 DEF Doubled
    <3>3. quiet' \in 0..(backoffQuiet - 1)
      BY <1>3, <2>5, <3>1
    <3>q. QED BY <1>2, <1>3, <1>4, <2>2, <3>1, <3>2, <3>3 DEF CadenceInv
  <2>q. QED BY <2>4, <2>5
<1>q. QED BY <1>5, <1>6

LEMMA ByTheBook ==
  ASSUME CadenceInv
  PROVE  BacksOffByTheBook
<1>1. /\ 0 < min /\ min \in Nat /\ max \in Nat
      /\ interval \in min..max /\ quiet \in 0..(backoffQuiet - 1)
  BY Bounds DEF CadenceInv
<1>2. ASSUME burst, calm < MaxTicks PROVE interval = Capped(min * TwoTo[calm \div backoffQuiet])
  <2>1. PICK k \in 0..MaxTicks : calm = k * backoffQuiet + quiet /\ interval = Capped(min * TwoTo[k])
    BY <1>2 DEF CadenceInv, Doubled
  <2>2. calm \div backoffQuiet = k
    BY <1>1, <2>1, Quotient, PollCadenceAssumption
  <2>q. QED BY <2>1, <2>2
<1>q. QED BY <1>1, <1>2 DEF BacksOffByTheBook

(* nextInterval (poll.go) never leaves pollBounds and never waits for no    *)
(* time at all; after a burst it doubles every backoffQuiet ticks up to the *)
(* bound.  For flags below half the range of a Duration.                    *)
THEOREM BacksOffByTheBookHolds ==
  ASSUME Half
  PROVE  CadenceSpec => []BacksOffByTheBook
<1>1. CadenceInit => CadenceInv
  BY Initially
<1>2. CadenceInv /\ [CadenceNext]_cadence => CadenceInv'
  <2>1. CadenceInv /\ CadenceNext => CadenceInv'
    BY TickKeeps DEF CadenceNext
  <2>2. CadenceInv /\ UNCHANGED cadence => CadenceInv'
    BY DEF CadenceInv, Doubled, Capped, cadence, flags, min, max
  <2>q. QED BY <2>1, <2>2
<1>3. CadenceInv => BacksOffByTheBook
  BY ByTheBook
<1>q. QED BY <1>1, <1>2, <1>3, PTL DEF CadenceSpec
=============================================================================
