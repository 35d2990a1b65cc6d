---------------------------- MODULE ContractProofs ----------------------------
(***************************************************************************)
(* Proofs about EventContract, for any schema and whatever is added to it.  *)
(***************************************************************************)
EXTENDS EventContract, ListProofs

(* A list of fields (of a schema, a struct or a class), no key twice.       *)
Keyed(F) ==
  /\ Len(F) \in Nat /\ DOMAIN F = 1..Len(F)
  /\ \A i, j \in DOMAIN F : F[i].key = F[j].key => i = j

LEMMA FieldOf ==
  ASSUME NEW F, Keyed(F), NEW i \in DOMAIN F
  PROVE  F[i].key \in Keys(F) /\ Field(F, F[i].key) = F[i]
<1>1. F[i].key \in Keys(F)
  BY DEF Keys
<1>2. (CHOOSE j \in DOMAIN F : F[j].key = F[i].key) = i
  BY DEF Keyed
<1>q. QED BY <1>1, <1>2 DEF Field

LEMMA KeyOf ==
  ASSUME NEW F, Keyed(F), NEW k \in Keys(F)
  PROVE  \E i \in DOMAIN F : F[i].key = k /\ Field(F, k) = F[i]
<1>1. PICK i \in DOMAIN F : F[i].key = k
  BY DEF Keys
<1>q. QED BY <1>1, FieldOf

(* A JSON object has the values it was made of under their keys.            *)
LEMMA WrittenHas ==
  ASSUME NEW F, Keyed(F), NEW v, DOMAIN v \subseteq Keys(F)
  PROVE  /\ DOMAIN Written(F, v) = 1..Len(Written(F, v)) /\ Len(Written(F, v)) \in Nat
         /\ Written(F, v) = [i \in DOMAIN Written(F, v) |-> Written(F, v)[i]]
         /\ \A i \in DOMAIN Written(F, v) :
              /\ Written(F, v)[i][1] \in DOMAIN v
              /\ Written(F, v)[i] = <<Written(F, v)[i][1], v[Written(F, v)[i][1]]>>
         /\ \A k : Has(Written(F, v), k) <=> k \in DOMAIN v
         /\ \A k \in DOMAIN v : Get(Written(F, v), k) = v[k]
         /\ \A k : Value(Written(F, v), k) = IF k \in DOMAIN v THEN v[k] ELSE Null
<1> DEFINE keys == [i \in DOMAIN F |-> F[i].key]
           I == {i \in DOMAIN keys : keys[i] \in DOMAIN v}
           kept == Keep(keys, I)
           J == [i \in DOMAIN kept |-> <<kept[i], v[kept[i]]>>]
<1>1. Written(F, v) = J
  BY DEF Written
<1>2. keys \in Seq(Keys(F)) /\ Len(keys) = Len(F) /\ DOMAIN keys = 1..Len(F)
  <2>1. DOMAIN F = 1..Len(F) /\ Len(F) \in Nat /\ \A i \in DOMAIN F : F[i].key \in Keys(F)
    BY FieldOf DEF Keyed
  <2>q. QED BY <2>1
<1>3. kept \in Seq(Keys(F)) /\ Elements(kept) = {keys[i] : i \in I \cap (1..Len(keys))}
  <2> HIDE DEF keys, I
  <2>q. QED BY <1>2, KeepElements
<1>4. Elements(kept) = DOMAIN v
  <2>1. \A k \in DOMAIN v : \E i \in DOMAIN F : F[i].key = k
    BY DEF Keys
  <2>2. \A k \in DOMAIN v : \E i \in I \cap (1..Len(keys)) : keys[i] = k
    <3> SUFFICES ASSUME NEW k \in DOMAIN v PROVE \E i \in I \cap (1..Len(keys)) : keys[i] = k
      OBVIOUS
    <3>1. PICK i \in DOMAIN F : F[i].key = k
      BY <2>1
    <3>2. i \in DOMAIN keys /\ keys[i] = k /\ i \in 1..Len(keys)
      BY <1>2, <3>1 DEF Keyed
    <3>q. QED BY <3>2
  <2>3. \A i \in I : keys[i] \in DOMAIN v
    OBVIOUS
  <2> HIDE DEF keys, I, kept
  <2>q. QED BY <1>3, <2>2, <2>3
<1>5. /\ DOMAIN kept = 1..Len(kept) /\ Len(kept) \in Nat
      /\ \A i \in DOMAIN kept : kept[i] \in DOMAIN v
      /\ \A k \in DOMAIN v : \E i \in DOMAIN kept : kept[i] = k
  <2> HIDE DEF kept
  <2>q. QED BY <1>3, <1>4, LenProperties DEF Elements
<1> HIDE DEF kept
<1>11. J = [i \in DOMAIN J |-> J[i]]
  OBVIOUS
<1>6. /\ DOMAIN J = 1..Len(kept) /\ Len(J) = Len(kept)
      /\ \A i \in DOMAIN J : J[i] = <<kept[i], v[kept[i]]>> /\ J[i][1] = kept[i] /\ J[i][2] = v[kept[i]]
  BY <1>5
<1> HIDE DEF J
<1>7. ASSUME NEW k PROVE Has(J, k) <=> k \in DOMAIN v
  BY <1>5, <1>6 DEF Has
<1>8. ASSUME NEW k \in DOMAIN v PROVE Get(J, k) = v[k]
  <2> DEFINE i == CHOOSE i \in DOMAIN J : J[i][1] = k
  <2>1. \E j \in DOMAIN J : J[j][1] = k
    BY <1>7 DEF Has
  <2>2. i \in DOMAIN J /\ J[i][1] = k
    BY <2>1
  <2>3. Get(J, k) = J[i][2]
    BY DEF Get
  <2> HIDE DEF i
  <2>q. QED BY <1>6, <2>2, <2>3
<1>9. \A k : Value(J, k) = IF k \in DOMAIN v THEN v[k] ELSE Null
  BY <1>7, <1>8 DEF Value
<1>10. \A i \in DOMAIN J : J[i][1] \in DOMAIN v /\ J[i] = <<J[i][1], v[J[i][1]]>>
  BY <1>5, <1>6
<1>q. QED BY <1>1, <1>5, <1>6, <1>7, <1>8, <1>9, <1>10, <1>11

(* Fields that come after those whose values there are change nothing.      *)
LEMMA WrittenSame ==
  ASSUME NEW F, Keyed(F), NEW G, Keyed(G), Len(F) <= Len(G),
         \A i \in DOMAIN F : F[i].key = G[i].key,
         NEW v, DOMAIN v \subseteq Keys(F)
  PROVE  Written(G, v) = Written(F, v)
<1> DEFINE f == [i \in DOMAIN F |-> F[i].key]
           g == [i \in DOMAIN G |-> G[i].key]
           I == {i \in DOMAIN f : f[i] \in DOMAIN v}
           J == {i \in DOMAIN g : g[i] \in DOMAIN v}
           S == Keys(F) \cup Keys(G)
<1>1. /\ Len(F) \in Nat /\ DOMAIN F = 1..Len(F) /\ Len(G) \in Nat /\ DOMAIN G = 1..Len(G)
      /\ \A i \in DOMAIN F : F[i].key \in S
      /\ \A i \in DOMAIN G : G[i].key \in S
  BY DEF Keyed, Keys
<1>2. f \in Seq(S) /\ g \in Seq(S) /\ Len(f) = Len(F) /\ Len(g) = Len(G)
  BY <1>1
<1>3. DOMAIN f = DOMAIN F /\ DOMAIN g = DOMAIN G /\ \A i \in 1..Len(F) : f[i] = g[i] /\ i \in 1..Len(G)
  BY <1>1
<1>4. ASSUME NEW i \in 1..Len(G), i \in J PROVE i \in 1..Len(F)
  <2>1. G[i].key \in Keys(F)
    BY <1>1, <1>4
  <2>2. PICK j \in DOMAIN F : F[j].key = G[i].key
    BY <2>1 DEF Keys
  <2>3. j \in DOMAIN G /\ G[j].key = G[i].key
    BY <1>1, <1>3, <2>2
  <2>q. QED BY <1>1, <2>3 DEF Keyed
<1>5. J \cap (1..Len(g)) = I \cap (1..Len(f))
  <2>1. \A i \in 1..Len(F) : i \in I <=> i \in J
    BY <1>1, <1>3
  <2> HIDE DEF I, J, f, g
  <2>q. QED BY <1>2, <1>3, <1>4, <2>1
<1>6. Keep(g, J) = Keep(f, I)
  <2> HIDE DEF I, J, f, g, S
  <2>q. QED BY <1>2, <1>3, <1>5, KeepPrefix
<1>7. Written(G, v) = [i \in DOMAIN Keep(g, J) |-> <<Keep(g, J)[i], v[Keep(g, J)[i]]>>]
  BY DEF Written
<1>8. Written(F, v) = [i \in DOMAIN Keep(f, I) |-> <<Keep(f, I)[i], v[Keep(f, I)[i]]>>]
  BY DEF Written
<1>q. QED
  <2> HIDE DEF I, J, f, g
  <2>q. QED BY <1>6, <1>7, <1>8

-----------------------------------------------------------------------------
(* The values of a struct. *)
LEMMA StructsProperties ==
  ASSUME NEW F, Keyed(F), NEW values, NEW e \in Structs(F, values)
  PROVE  /\ e = [k \in Keys(F) |-> e[k]]
         /\ \A i \in DOMAIN F : e[F[i].key] \in values[i]
<1> DEFINE n == Len(F)
           V == {Null} \cup UNION {values[i] : i \in 1..n}
           E == [Keys(F) -> V]
           s0 == {[k \in Keys(F) |-> Null]}
           Set(D, m) == {[d EXCEPT ![F[m].key] = x] : d \in D, x \in values[m]}
           Def(f) == [m \in 0..n |-> IF m = 0 THEN s0 ELSE Set(f[m - 1], m)]
           Move == [m \in 1..n |-> [D \in SUBSET E |-> Set(D, m)]]
           of == CHOOSE f : f = Def(f)
<1>0. n \in Nat /\ DOMAIN F = 1..n /\ \A i \in 1..n : F[i].key \in Keys(F) /\ values[i] \subseteq V
  BY FieldOf DEF Keyed
<1>1. e \in of[n]
  BY DEF Structs
<1>2. s0 \in SUBSET E
  OBVIOUS
<1>3. ASSUME NEW m \in 1..n, NEW D \in SUBSET E PROVE Set(D, m) \in SUBSET E
  <2>1. ASSUME NEW d \in D, NEW x \in values[m] PROVE [d EXCEPT ![F[m].key] = x] \in E
    <3>1. d \in E /\ x \in V
      BY <1>0
    <3> HIDE DEF V
    <3>q. QED BY <3>1
  <2> HIDE DEF E
  <2>q. QED BY <2>1
<1>4. Move \in [1..n -> [SUBSET E -> SUBSET E]]
  <2> HIDE DEF E, n, Set
  <2>q. QED BY <1>3
<1>5. PICK f : Solves(f, SUBSET E, n, s0, Move)
  <2> DEFINE P == SUBSET E
  <2>1. s0 \in P /\ Move \in [1..n -> [P -> P]]
    BY <1>2, <1>4
  <2>2. \E f : Solves(f, P, n, s0, Move)
    <3> HIDE DEF P, n, Move, s0
    <3>q. QED BY <1>0, <2>1, RecursionExists
  <2>q. QED
    <3> HIDE DEF E, n, Move, s0
    <3>q. QED BY <2>2
<1>6. f = Def(f)
  <2>1. f = [m \in 0..n |-> f[m]] /\ f[0] = s0
    <3> HIDE DEF s0, E, Move
    <3>q. QED BY <1>5 DEF Solves
  <2>2. ASSUME NEW m \in 1..n PROVE f[m] = Set(f[m - 1], m)
    <3>1. f[m - 1] \in SUBSET E /\ f[m] = Move[m][f[m - 1]]
      <4> HIDE DEF E, Move, s0
      <4>q. QED BY <1>0, <1>5 DEF Solves
    <3> HIDE DEF E, Set
    <3>q. QED BY <3>1
  <2> HIDE DEF s0, Set
  <2>3. ASSUME NEW m \in 0..n PROVE f[m] = IF m = 0 THEN s0 ELSE Set(f[m - 1], m)
    <3>1. m = 0 \/ m \in 1..n
      BY <1>0
    <3>q. QED BY <3>1, <2>1, <2>2
  <2>q. QED BY <2>1, <2>3, Zenon
<1>7. of = Def(of)
  <2> HIDE DEF Def
  <2>q. QED BY <1>6
<1>8. of[0] = s0 /\ \A m \in 1..n : of[m] = Set(of[m - 1], m)
  <2> HIDE DEF of, s0, Set
  <2>1. \A m \in 0..n : of[m] = IF m = 0 THEN s0 ELSE Set(of[m - 1], m)
    BY <1>7, Zenon
  <2>2. 0 \in 0..n /\ \A m \in 1..n : m \in 0..n /\ m # 0
    BY <1>0
  <2>q. QED BY <2>1, <2>2, Zenon
<1> HIDE DEF of
<1> DEFINE Good(m) == \A d \in of[m] : d \in E /\ \A i \in 1..m : d[F[i].key] \in values[i]
           T == {m \in Nat : m <= n => Good(m)}
<1>9. 0 \in T
  BY <1>2, <1>8
<1>10. ASSUME NEW m \in Nat, m \in T PROVE m + 1 \in T
  <2> SUFFICES ASSUME m + 1 <= n, NEW d \in of[m + 1]
               PROVE  d \in E /\ \A i \in 1..(m + 1) : d[F[i].key] \in values[i]
    OBVIOUS
  <2>1. m + 1 \in 1..n /\ (m + 1) - 1 = m /\ Good(m)
    BY <1>0, <1>10
  <2>2. PICK c \in of[m], x \in values[m + 1] : d = [c EXCEPT ![F[m + 1].key] = x]
    BY <1>8, <2>1
  <2>3. c \in E /\ x \in V /\ F[m + 1].key \in Keys(F)
    BY <1>0, <2>1
  <2>4. d \in E /\ d[F[m + 1].key] = x
    <3> HIDE DEF V
    <3>q. QED BY <2>2, <2>3
  <2>5. ASSUME NEW i \in 1..m PROVE d[F[i].key] \in values[i]
    <3>1. F[i].key # F[m + 1].key /\ F[i].key \in Keys(F)
      BY <1>0, <2>1 DEF Keyed
    <3>2. d[F[i].key] = c[F[i].key]
      <4> HIDE DEF V
      <4>q. QED BY <2>2, <2>3, <3>1
    <3>q. QED BY <2>1, <3>2
  <2>6. \A i \in 1..(m + 1) : i \in 1..m \/ i = m + 1
    OBVIOUS
  <2> HIDE DEF E
  <2>q. QED BY <2>4, <2>5, <2>6
<1>11. Good(n)
  <2>1. n \in T
    <3> HIDE DEF T
    <3>q. QED BY <1>0, <1>9, <1>10, InductionOverNat
  <2>q. QED BY <2>1, <1>0
<1>q. QED
  <2>1. e \in E /\ \A i \in 1..n : e[F[i].key] \in values[i]
    BY <1>1, <1>11
  <2> HIDE DEF V
  <2>q. QED BY <1>0, <2>1

-----------------------------------------------------------------------------
(* Schemas and what is generated from them. *)

Specs == Elements(BaseSchema) \cup Additions

(* The properties of an object.                                             *)
OfObject(P) == \E s \in Specs : P = s.props

(* A schema as it is or was; its properties are its own or additions.       *)
IsSchema(P) == P \in Seq(Specs) /\ Keyed(P)

IsSpec(s) ==
  /\ s.type \in {"scalar", "array", "object"} /\ s.optional \in BOOLEAN
  /\ s.type = "array" => ~s.optional

LEMMA ObjectProperties ==
  ASSUME NEW P, OfObject(P)
  PROVE  /\ Keyed(P) /\ \A i \in DOMAIN P : IsSpec(P[i]) /\ P[i].type # "object"
         /\ Leaf \cap [Keys(P) -> Leaf] = {} /\ Unreadable \notin [Keys(P) -> Leaf]
         /\ Leaf \cap Seq(Keys(P) \X Leaf) = {}
<1>1. PICK s \in Specs : P = s.props
  BY DEF OfObject
<1>2. WellFormed(P) /\ \A i \in DOMAIN P : P[i].type # "object"
  BY <1>1, ContractAssumption DEF Specs, WellFormedObjects
<1>3. P \in Seq(Elements(P))
  BY <1>2 DEF WellFormed
<1>4. Len(P) \in Nat /\ DOMAIN P = 1..Len(P)
  BY <1>3, LenProperties
<1>5. Keyed(P) /\ \A i \in DOMAIN P : IsSpec(P[i]) /\ P[i].type # "object"
  BY <1>2, <1>4 DEF WellFormed, Keyed, IsSpec
<1>6. /\ (Leaf \cup {Unreadable}) \cap [Keys(P) -> Leaf] = {}
      /\ Leaf \cap Seq(Keys(P) \X Leaf) = {}
  BY <1>1, ContractAssumption DEF Specs, NoStruct
<1>7. Leaf \cap [Keys(P) -> Leaf] = {} /\ Unreadable \notin [Keys(P) -> Leaf]
  <2> DEFINE S == [Keys(P) -> Leaf]
  <2>1. (Leaf \cup {Unreadable}) \cap S = {}
    BY <1>6
  <2>2. Leaf \cap S = {} /\ Unreadable \notin S
    <3> HIDE DEF S
    <3>q. QED BY <2>1
  <2>q. QED BY <2>2
<1>q. QED BY <1>5, <1>6, <1>7

LEMMA SpecProperties ==
  ASSUME NEW s \in Specs
  PROVE  IsSpec(s) /\ OfObject(s.props)
<1>1. OfObject(s.props)
  BY DEF OfObject
<1>2. CASE s \in Additions
  <2>1. WellFormed(<<s>>)
    BY <1>2, ContractAssumption
  <2>2. DOMAIN <<s>> = {1} /\ <<s>>[1] = s
    OBVIOUS
  <2>q. QED BY <1>1, <2>1, <2>2 DEF WellFormed, IsSpec
<1>3. CASE s \in Elements(BaseSchema)
  <2>1. PICK i \in DOMAIN BaseSchema : s = BaseSchema[i]
    BY <1>3 DEF Elements
  <2>2. WellFormed(BaseSchema)
    BY ContractAssumption
  <2>q. QED BY <1>1, <2>1, <2>2 DEF WellFormed, IsSpec
<1>q. QED BY <1>2, <1>3 DEF Specs

LEMMA SchemaProperties ==
  ASSUME NEW P, IsSchema(P)
  PROVE  /\ Keyed(P)
         /\ \A i \in DOMAIN P : P[i] \in Specs /\ IsSpec(P[i]) /\ OfObject(P[i].props)
         /\ \A k \in Keys(P) : Field(P, k) \in Specs /\ Field(P, k).key = k
<1>1. Keyed(P) /\ \A i \in DOMAIN P : P[i] \in Specs
  BY ElementOfSeq DEF IsSchema, Keyed
<1>2. \A k \in Keys(P) : Field(P, k) \in Specs /\ Field(P, k).key = k
  BY <1>1, KeyOf
<1>q. QED BY <1>1, <1>2, SpecProperties

(* Whatever is generated for each field goes by the field's key.            *)
Mirrors(F, P) ==
  /\ Keyed(F) /\ DOMAIN F = DOMAIN P /\ Len(F) = Len(P) /\ Keys(F) = Keys(P)
  /\ \A i \in DOMAIN P : F[i].key = P[i].key

LEMMA Mirrored ==
  ASSUME NEW P, Keyed(P), NEW F, F = [i \in DOMAIN P |-> F[i]],
         \A i \in DOMAIN P : F[i].key = P[i].key
  PROVE  Mirrors(F, P)
<1>1. DOMAIN P = 1..Len(P) /\ Len(P) \in Nat
  BY DEF Keyed
<1>2. DOMAIN F = 1..Len(P) /\ Len(F) = Len(P)
  BY <1>1
<1>3. Keyed(F)
  BY <1>1, <1>2 DEF Keyed
<1>4. Keys(F) = Keys(P)
  BY <1>1, <1>2 DEF Keys
<1>q. QED BY <1>1, <1>2, <1>3, <1>4 DEF Mirrors

LEMMA Generated ==
  ASSUME NEW P, Keyed(P)
  PROVE  /\ Mirrors(GoStruct(P), P) /\ Mirrors(GoEvent(P), P)
         /\ Mirrors(PyClass(P), P) /\ Mirrors(PyEvent(P), P)
         /\ \A k \in Keys(P) :
              /\ Field(GoStruct(P), k) = GoField(Field(P, k), <<>>)
              /\ Field(GoEvent(P), k) = GoField(Field(P, k), GoStruct(Field(P, k).props))
              /\ Field(PyClass(P), k) = PyField(Field(P, k), <<>>)
              /\ Field(PyEvent(P), k) = PyField(Field(P, k), PyClass(Field(P, k).props))
<1>1. /\ GoStruct(P) = [i \in DOMAIN P |-> GoStruct(P)[i]]
      /\ \A i \in DOMAIN P : GoStruct(P)[i] = GoField(P[i], <<>>)
  BY DEF GoStruct
<1>2. /\ GoEvent(P) = [i \in DOMAIN P |-> GoEvent(P)[i]]
      /\ \A i \in DOMAIN P : GoEvent(P)[i] = GoField(P[i], GoStruct(P[i].props))
  BY DEF GoEvent
<1>3. /\ PyClass(P) = [i \in DOMAIN P |-> PyClass(P)[i]]
      /\ \A i \in DOMAIN P : PyClass(P)[i] = PyField(P[i], <<>>)
  BY DEF PyClass
<1>4. /\ PyEvent(P) = [i \in DOMAIN P |-> PyEvent(P)[i]]
      /\ \A i \in DOMAIN P : PyEvent(P)[i] = PyField(P[i], PyClass(P[i].props))
  BY DEF PyEvent
<1>5. /\ \A s, fs : GoField(s, fs).key = s.key
      /\ \A s, fs : PyField(s, fs).key = s.key
  BY DEF GoField, PyField
<1>6. Mirrors(GoStruct(P), P)
  BY <1>1, <1>5, Mirrored
<1>7. Mirrors(GoEvent(P), P)
  BY <1>2, <1>5, Mirrored
<1>8. Mirrors(PyClass(P), P)
  BY <1>3, <1>5, Mirrored
<1>9. Mirrors(PyEvent(P), P)
  BY <1>4, <1>5, Mirrored
<1>10. ASSUME NEW k \in Keys(P)
       PROVE  /\ Field(GoStruct(P), k) = GoField(Field(P, k), <<>>)
              /\ Field(GoEvent(P), k) = GoField(Field(P, k), GoStruct(Field(P, k).props))
              /\ Field(PyClass(P), k) = PyField(Field(P, k), <<>>)
              /\ Field(PyEvent(P), k) = PyField(Field(P, k), PyClass(Field(P, k).props))
  <2>1. PICK i \in DOMAIN P : P[i].key = k /\ Field(P, k) = P[i]
    BY KeyOf
  <2>2. Field(GoStruct(P), k) = GoStruct(P)[i]
    BY <1>6, <2>1, FieldOf DEF Mirrors
  <2>3. Field(GoEvent(P), k) = GoEvent(P)[i]
    BY <1>7, <2>1, FieldOf DEF Mirrors
  <2>4. Field(PyClass(P), k) = PyClass(P)[i]
    BY <1>8, <2>1, FieldOf DEF Mirrors
  <2>5. Field(PyEvent(P), k) = PyEvent(P)[i]
    BY <1>9, <2>1, FieldOf DEF Mirrors
  <2>q. QED BY <1>1, <1>2, <1>3, <1>4, <2>1, <2>2, <2>3, <2>4, <2>5
<1>q. QED BY <1>6, <1>7, <1>8, <1>9, <1>10

-----------------------------------------------------------------------------
(* Objects. *)

(* What neither side writes.                                                *)
Left(s, x) == s.optional /\ x = Null

WrittenKeys(P, e) == {k \in Keys(P) : ~Left(Field(P, k), e[k])}

(* The objects with these properties, and how both sides write them.        *)
ObjectsOf(P) == {o \in [Keys(P) -> Leaf] : \A k \in Keys(P) : o[k] = Null => Field(P, k).optional}

ObjectJson(P, o) == Written(P, [k \in WrittenKeys(P, o) |-> o[k]])

LEMMA FieldSpec ==
  ASSUME NEW P, Keyed(P), NEW k \in Keys(P), \A i \in DOMAIN P : IsSpec(P[i])
  PROVE  IsSpec(Field(P, k)) /\ Field(P, k).key = k
BY KeyOf

LEMMA ObjectIsNoLeaf ==
  ASSUME NEW P, OfObject(P), NEW o \in ObjectsOf(P)
  PROVE  o # Null /\ o # Unreadable /\ ObjectJson(P, o) # Null
<1> DEFINE v == [k \in WrittenKeys(P, o) |-> o[k]]
           J == ObjectJson(P, o)
<1>1. o \in [Keys(P) -> Leaf] /\ Null \in Leaf
  BY DEF ObjectsOf, Leaf
<1>2. o # Null /\ o # Unreadable
  <2> DEFINE S == [Keys(P) -> Leaf]
  <2>1. Leaf \cap S = {} /\ Unreadable \notin S /\ o \in S /\ Null \in Leaf
    BY <1>1, ObjectProperties
  <2> HIDE DEF S
  <2>q. QED BY <2>1
<1>3. DOMAIN v \subseteq Keys(P) /\ \A k \in DOMAIN v : v[k] \in Leaf
  BY <1>1 DEF WrittenKeys
<1>4. /\ DOMAIN J = 1..Len(J) /\ Len(J) \in Nat /\ J = [i \in DOMAIN J |-> J[i]]
      /\ \A i \in DOMAIN J : J[i][1] \in DOMAIN v /\ J[i] = <<J[i][1], v[J[i][1]]>>
  <2>1. J = Written(P, v)
    BY DEF ObjectJson
  <2>2. Keyed(P) /\ DOMAIN v \subseteq Keys(P)
    BY <1>3, ObjectProperties
  <2> DEFINE W == Written(P, v)
  <2> HIDE DEF v, J
  <2>3. /\ DOMAIN W = 1..Len(W) /\ Len(W) \in Nat /\ W = [i \in DOMAIN W |-> W[i]]
        /\ \A i \in DOMAIN W : W[i][1] \in DOMAIN v /\ W[i] = <<W[i][1], v[W[i][1]]>>
    BY <2>2, WrittenHas
  <2>4. J = W
    BY <2>1
  <2>q. QED BY <2>3, <2>4
<1>5. ASSUME NEW i \in DOMAIN J PROVE J[i] \in Keys(P) \X Leaf
  <2>1. J[i][1] \in Keys(P) /\ v[J[i][1]] \in Leaf /\ J[i] = <<J[i][1], v[J[i][1]]>>
    <3> HIDE DEF v, J
    <3>q. QED BY <1>3, <1>4
  <2> DEFINE a == J[i][1]
             b == v[J[i][1]]
  <2>2. a \in Keys(P) /\ b \in Leaf /\ J[i] = <<a, b>>
    BY <2>1
  <2> HIDE DEF a, b, J
  <2>q. QED BY <2>2
<1>7. J \in Seq(Keys(P) \X Leaf)
  <2> DEFINE S == Keys(P) \X Leaf
             n == Len(J)
  <2>1. J = [i \in 1..n |-> J[i]] /\ n \in Nat /\ \A i \in 1..n : J[i] \in S
    <3> HIDE DEF J, S
    <3>1. \A i \in DOMAIN J : J[i] \in S
      BY <1>5 DEF S
    <3>q. QED BY <1>4, <3>1
  <2>2. J \in [1..n -> S]
    <3> HIDE DEF J, S, n
    <3>q. QED BY <2>1
  <2>3. J \in Seq(S)
    <3> HIDE DEF J, S, n
    <3>q. QED BY <2>1, <2>2, SeqDef
  <2>q. QED BY <2>3
<1>8. J # Null
  <2> DEFINE S == Seq(Keys(P) \X Leaf)
  <2>1. Leaf \cap S = {} /\ J \in S
    BY <1>7, ObjectProperties
  <2> HIDE DEF S, J
  <2>q. QED BY <1>1, <2>1
<1>q. QED BY <1>2, <1>8

LEMMA LeftOut ==
  ASSUME NEW s, IsSpec(s), NEW fs, NEW x
  PROVE  /\ Omitted(GoField(s, fs), x) <=> Left(s, x)
         /\ (PyField(s, fs).always \/ x # Null) <=> ~Left(s, x)
BY DEF Omitted, GoField, PyField, Left, IsSpec

LEMMA MirrorWritten ==
  ASSUME NEW P, Keyed(P), NEW F, Mirrors(F, P), NEW v, DOMAIN v \subseteq Keys(P)
  PROVE  Written(F, v) = Written(P, v)
<1>1. Keyed(F) /\ Len(P) <= Len(F) /\ \A i \in DOMAIN P : P[i].key = F[i].key
  BY DEF Mirrors, Keyed
<1>q. QED BY <1>1, WrittenSame

(* Go and Python write an object alike, and read it back as it was.         *)
LEMMA ObjectRoundTrip ==
  ASSUME NEW P, OfObject(P), NEW o \in ObjectsOf(P)
  PROVE  /\ GoEncodeStruct(GoStruct(P), o) = ObjectJson(P, o)
         /\ ToDictFlat(PyClass(P), o) = ObjectJson(P, o)
         /\ ~RaisesFlat(PyClass(P), ObjectJson(P, o)) /\ FromDictFlat(PyClass(P), ObjectJson(P, o)) = o
         /\ GoDecodeStruct(GoStruct(P), ObjectJson(P, o)) = o
<1> DEFINE K == WrittenKeys(P, o)
           v == [k \in K |-> o[k]]
           J == ObjectJson(P, o)
           go == GoStruct(P)
           py == PyClass(P)
<1>1. /\ Keyed(P) /\ \A i \in DOMAIN P : IsSpec(P[i])
      /\ \A k \in Keys(P) : IsSpec(Field(P, k)) /\ Field(P, k).key = k
  BY ObjectProperties, FieldSpec
<1>2. /\ Mirrors(go, P) /\ Mirrors(py, P) /\ Keys(go) = Keys(P) /\ Keys(py) = Keys(P)
      /\ \A k \in Keys(P) : Field(go, k) = GoField(Field(P, k), <<>>)
      /\ \A k \in Keys(P) : Field(py, k) = PyField(Field(P, k), <<>>)
  BY <1>1, Generated DEF Mirrors
<1>3. J = Written(P, v) /\ DOMAIN v = K /\ K \subseteq Keys(P)
  BY DEF ObjectJson, WrittenKeys
<1>4. /\ o = [k \in Keys(P) |-> o[k]]
      /\ \A k \in Keys(P) : o[k] = Null => Field(P, k).optional
  BY DEF ObjectsOf
<1> HIDE DEF go, py, J
<1>5. GoKeeps(go, o) = K
  BY <1>1, <1>2, LeftOut DEF GoKeeps, WrittenKeys
<1>6. PyKeeps(py, o) = K
  <2>1. ASSUME NEW k \in Keys(P)
        PROVE  (Field(py, k).always \/ o[k] # Null) <=> ~Left(Field(P, k), o[k])
    <3>1. Field(py, k) = PyField(Field(P, k), <<>>) /\ IsSpec(Field(P, k))
      BY <1>1, <1>2
    <3>2. (PyField(Field(P, k), <<>>).always \/ o[k] # Null) <=> ~Left(Field(P, k), o[k])
      BY <3>1, LeftOut
    <3>q. QED BY <3>1, <3>2, Zenon
  <2>q. QED BY <1>2, <2>1, Zenon DEF PyKeeps, WrittenKeys
<1>7. GoEncodeStruct(go, o) = J
  <2>1. GoEncodeStruct(go, o) = Written(go, v)
    BY <1>5 DEF GoEncodeStruct
  <2> HIDE DEF v, K
  <2>q. QED BY <1>1, <1>2, <1>3, <2>1, MirrorWritten
<1>8. ToDictFlat(py, o) = J
  <2>1. ToDictFlat(py, o) = Written(py, v)
    BY <1>6 DEF ToDictFlat
  <2> HIDE DEF v, K
  <2>q. QED BY <1>1, <1>2, <1>3, <2>1, MirrorWritten
<1>9. /\ \A k \in Keys(P) : Value(J, k) = o[k] /\ (Has(J, k) <=> k \in K)
      /\ \A i \in DOMAIN J : J[i][1] \in K
  <2> DEFINE W == Written(P, v)
  <2>1. J = W
    BY <1>3
  <2>2. /\ \A k : Has(W, k) <=> k \in DOMAIN v
        /\ \A k : Value(W, k) = IF k \in DOMAIN v THEN v[k] ELSE Null
        /\ \A i \in DOMAIN W : W[i][1] \in DOMAIN v
    <3> HIDE DEF v, K
    <3>q. QED BY <1>1, <1>3, WrittenHas
  <2>3. \A k \in Keys(P) : k \notin K => o[k] = Null
    BY DEF WrittenKeys, Left
  <2>4. \A k \in K : v[k] = o[k]
    OBVIOUS
  <2> HIDE DEF v, K, W
  <2>q. QED BY <1>3, <2>1, <2>2, <2>3, <2>4
<1>10. \A k \in Keys(P) : ~Field(P, k).optional => k \in K
  BY DEF WrittenKeys, Left
<1> HIDE DEF K, v
<1>11. FromDictFlat(py, J) = o
  <2>1. FromDictFlat(py, J) = [k \in Keys(py) |-> Value(J, k)]
    BY DEF FromDictFlat
  <2>q. QED BY <1>2, <1>4, <1>9, <2>1
<1>13. ~RaisesFlat(py, J)
  <2> SUFFICES ASSUME RaisesFlat(py, J) PROVE FALSE
    OBVIOUS
  <2>1. PICK i \in DOMAIN py : py[i].index /\ (Has(J, py[i].key) => py[i].type = "object")
    BY DEF RaisesFlat
  <2>2. i \in DOMAIN P /\ py[i] = PyField(P[i], <<>>)
    BY <2>1 DEF py, PyClass
  <2>3. py[i].key = P[i].key /\ py[i].type = P[i].type /\ py[i].index = ~P[i].optional
    BY <2>2 DEF PyField
  <2>4. P[i].key \in Keys(P) /\ Field(P, P[i].key) = P[i] /\ P[i].type # "object"
    BY <1>1, <2>2, FieldOf, ObjectProperties
  <2>q. QED BY <1>9, <1>10, <2>1, <2>3, <2>4
<1>12. GoDecodeStruct(go, J) = o
  <2>1. Known(go, J)
    BY <1>2, <1>3, <1>9 DEF Known
  <2>2. ASSUME NEW k \in Keys(P), Value(J, k) = Null PROVE ZeroLeaf(Field(go, k)) = o[k]
    <3>1. o[k] = Null /\ Field(P, k).optional
      BY <1>4, <1>9, <2>2
    <3>q. QED BY <1>1, <1>2, <3>1 DEF ZeroLeaf, GoField, IsSpec
  <2>3. GoDecodeStruct(go, J) = [k \in Keys(P) |-> IF Value(J, k) = Null THEN ZeroLeaf(Field(go, k))
                                                   ELSE Value(J, k)]
    BY <1>2, <2>1 DEF GoDecodeStruct
  <2>q. QED BY <1>4, <1>9, <2>2, <2>3
<1>q. QED BY <1>7, <1>8, <1>11, <1>12, <1>13 DEF go, py, J

-----------------------------------------------------------------------------
(* Events. *)

(* x is a value of property s.                                              *)
Holds(s, x) ==
  IF x = Null THEN s.optional
  ELSE x \in IF s.type = "object" THEN ObjectsOf(s.props) ELSE Leaf

Typed(P, e) == \A k \in Keys(P) : Holds(Field(P, k), e[k])

ValueJson(s, x) == IF s.type = "object" /\ x # Null THEN ObjectJson(s.props, x) ELSE x

(* How an event is written by whoever knows the properties P and no others. *)
EventJson(P, e) == Written(P, [k \in WrittenKeys(P, e) |-> ValueJson(Field(P, k), e[k])])

LEMMA JsonOf ==
  ASSUME NEW P, IsSchema(P), NEW e, Typed(P, e)
  PROVE  /\ \A k : Has(EventJson(P, e), k) <=> k \in WrittenKeys(P, e)
         /\ \A k \in Keys(P) :
              /\ Value(EventJson(P, e), k) = ValueJson(Field(P, k), e[k])
              /\ ValueJson(Field(P, k), e[k]) = Null <=> e[k] = Null
              /\ ~Field(P, k).optional => k \in WrittenKeys(P, e) /\ e[k] # Null
         /\ \A k : k \notin Keys(P) => Value(EventJson(P, e), k) = Null
         /\ \A k \in WrittenKeys(P, e) : Get(EventJson(P, e), k) = Value(EventJson(P, e), k)
         /\ \A i \in DOMAIN EventJson(P, e) : EventJson(P, e)[i][1] \in Keys(P)
<1> DEFINE K == WrittenKeys(P, e)
           v == [k \in K |-> ValueJson(Field(P, k), e[k])]
           J == Written(P, v)
<1>0. EventJson(P, e) = J
  BY DEF EventJson
<1>1. K \subseteq Keys(P) /\ DOMAIN v = K /\ \A k \in K : v[k] = ValueJson(Field(P, k), e[k])
  BY DEF WrittenKeys
<1>2. Keyed(P) /\ DOMAIN v \subseteq Keys(P)
  BY <1>1, SchemaProperties
<1>3. /\ \A k : Has(J, k) <=> k \in K
      /\ \A k \in K : Get(J, k) = v[k]
      /\ \A k : Value(J, k) = IF k \in K THEN v[k] ELSE Null
      /\ \A i \in DOMAIN J : J[i][1] \in K
  <2> HIDE DEF v, K
  <2>q. QED BY <1>1, <1>2, WrittenHas
<1>4. ASSUME NEW k \in Keys(P)
      PROVE  /\ ValueJson(Field(P, k), e[k]) = Null <=> e[k] = Null
             /\ k \notin K => e[k] = Null
             /\ ~Field(P, k).optional => k \in K /\ e[k] # Null
  <2>1. k \notin K => e[k] = Null
    BY DEF WrittenKeys, Left
  <2>2. ~Field(P, k).optional => k \in K /\ e[k] # Null
    BY DEF WrittenKeys, Left, Typed, Holds
  <2>3. OfObject(Field(P, k).props)
    BY SchemaProperties, SpecProperties
  <2>4. ASSUME e[k] # Null, Field(P, k).type = "object" PROVE ObjectJson(Field(P, k).props, e[k]) # Null
    <3>1. e[k] \in ObjectsOf(Field(P, k).props)
      BY <2>4 DEF Typed, Holds
    <3>q. QED BY <2>3, <3>1, ObjectIsNoLeaf
  <2>q. QED BY <2>1, <2>2, <2>4 DEF ValueJson
<1>5. \A k \in Keys(P) : k \notin K => ValueJson(Field(P, k), e[k]) = Null
  BY <1>4
<1> HIDE DEF v, J, K
<1>q. QED BY <1>0, <1>1, <1>3, <1>4, <1>5 DEF K

LEMMA GoWrites ==
  ASSUME NEW P, IsSchema(P), NEW e, Typed(P, e)
  PROVE  GoEncode(GoEvent(P), e) = EventJson(P, e)
<1> DEFINE K == WrittenKeys(P, e)
           v == [k \in K |-> ValueJson(Field(P, k), e[k])]
           go == GoEvent(P)
           Put(f, x) == IF f.type = "object" /\ x # Null THEN GoEncodeStruct(f.fields, x) ELSE x
           w == [k \in GoKeeps(go, e) |-> Put(Field(go, k), e[k])]
<1>1. /\ Keyed(P) /\ Mirrors(go, P) /\ Keys(go) = Keys(P)
      /\ \A k \in Keys(P) : Field(go, k) = GoField(Field(P, k), GoStruct(Field(P, k).props))
  BY SchemaProperties, Generated DEF Mirrors
<1>2. \A k \in Keys(P) : IsSpec(Field(P, k)) /\ OfObject(Field(P, k).props)
  BY SchemaProperties, SpecProperties
<1>3. GoEncode(go, e) = Written(go, w)
  BY DEF GoEncode
<1> HIDE DEF go
<1>4. GoKeeps(go, e) = K
  BY <1>1, <1>2, LeftOut DEF GoKeeps, WrittenKeys
<1>5. ASSUME NEW k \in K PROVE Put(Field(go, k), e[k]) = ValueJson(Field(P, k), e[k])
  <2>1. k \in Keys(P)
    BY DEF WrittenKeys
  <2>2. Field(go, k).type = Field(P, k).type /\ Field(go, k).fields = GoStruct(Field(P, k).props)
    BY <1>1, <2>1 DEF GoField
  <2>3. ASSUME e[k] # Null, Field(P, k).type = "object"
        PROVE  GoEncodeStruct(GoStruct(Field(P, k).props), e[k]) = ObjectJson(Field(P, k).props, e[k])
    <3>1. e[k] \in ObjectsOf(Field(P, k).props)
      BY <2>1, <2>3 DEF Typed, Holds
    <3>q. QED BY <1>2, <2>1, <3>1, ObjectRoundTrip
  <2>q. QED BY <2>2, <2>3 DEF ValueJson
<1>6. w = v
  <2> HIDE DEF K, Put
  <2>q. QED BY <1>4, <1>5
<1>7. DOMAIN v \subseteq Keys(P)
  BY DEF WrittenKeys
<1>8. Written(go, v) = Written(P, v)
  <2> HIDE DEF v
  <2>q. QED BY <1>1, <1>7, MirrorWritten
<1>9. EventJson(P, e) = Written(P, v)
  BY DEF EventJson
<1>10. GoEncode(go, e) = EventJson(P, e)
  <2> HIDE DEF v, w
  <2>q. QED BY <1>3, <1>6, <1>8, <1>9
<1>q. QED BY <1>10 DEF go

LEMMA GoReads ==
  ASSUME NEW P, IsSchema(P), NEW e, Typed(P, e), e = [k \in Keys(P) |-> e[k]]
  PROVE  GoDecode(GoEvent(P), EventJson(P, e)) = e
<1> DEFINE J == EventJson(P, e)
           go == GoEvent(P)
           Of(f, x) == IF x = Null THEN ZeroOf(f)
                       ELSE IF f.type = "object" THEN GoDecodeStruct(f.fields, x)
                       ELSE x
           d == [k \in Keys(go) |-> Of(Field(go, k), Value(J, k))]
<1>1. /\ Keyed(P) /\ Mirrors(go, P) /\ Keys(go) = Keys(P)
      /\ \A k \in Keys(P) : Field(go, k) = GoField(Field(P, k), GoStruct(Field(P, k).props))
  BY SchemaProperties, Generated DEF Mirrors
<1>2. \A k \in Keys(P) : IsSpec(Field(P, k)) /\ OfObject(Field(P, k).props)
  BY SchemaProperties, SpecProperties
<1>3. GoDecode(go, J) = IF Known(go, J) /\ \A k \in Keys(go) : d[k] # Unreadable THEN d ELSE Unreadable
  BY DEF GoDecode
<1>4. Known(go, J)
  BY <1>1, JsonOf DEF Known
<1> HIDE DEF go, J
<1>5. ASSUME NEW k \in Keys(P) PROVE Of(Field(go, k), Value(J, k)) = e[k] /\ e[k] # Unreadable
  <2> DEFINE s == Field(P, k)
             f == Field(go, k)
             x == Value(J, k)
  <2>1. /\ f.type = s.type /\ f.fields = GoStruct(s.props)
        /\ f.pointer = (s.optional /\ s.type # "array")
    <3>1. f = GoField(s, GoStruct(s.props))
      BY <1>1
    <3> HIDE DEF s, f
    <3>q. QED BY <3>1 DEF GoField
  <2>2. IsSpec(s) /\ OfObject(s.props) /\ Holds(s, e[k]) /\ x = ValueJson(s, e[k]) /\ (x = Null <=> e[k] = Null)
    BY <1>2, JsonOf DEF Typed, J
  <2> HIDE DEF s, f, x
  <2>3. CASE e[k] = Null
    <3>0. s.optional /\ s.type # "array"
      BY <2>2, <2>3 DEF IsSpec, Holds
    <3>3. f.pointer
      BY <2>1, <3>0, Zenon
    <3>1. ZeroOf(f) = Null
      BY <3>3, Zenon DEF ZeroOf, ZeroLeaf
    <3>2. Null # Unreadable
      BY ContractAssumption DEF Leaf
    <3>q. QED BY <2>2, <2>3, <3>1, <3>2 DEF f, x
  <2>4. CASE e[k] # Null /\ s.type = "object"
    <3>1. e[k] \in ObjectsOf(s.props) /\ x = ObjectJson(s.props, e[k])
      BY <2>2, <2>4 DEF Holds, ValueJson
    <3>2. GoDecodeStruct(GoStruct(s.props), x) = e[k] /\ e[k] # Unreadable
      BY <2>2, <3>1, ObjectRoundTrip, ObjectIsNoLeaf
    <3>q. QED BY <2>1, <2>2, <2>4, <3>2 DEF f, x
  <2>5. CASE e[k] # Null /\ s.type # "object"
    <3>1. e[k] \in Leaf /\ x = e[k]
      BY <2>2, <2>5 DEF Holds, ValueJson
    <3>2. e[k] # Unreadable
      BY <3>1, ContractAssumption
    <3>q. QED BY <2>1, <2>2, <2>5, <3>1, <3>2 DEF f, x
  <2>q. QED BY <2>3, <2>4, <2>5
<1>6. d = e
  <2> HIDE DEF Of
  <2>q. QED BY <1>1, <1>5
<1>7. \A k \in Keys(go) : d[k] # Unreadable
  <2> HIDE DEF d
  <2>q. QED BY <1>1, <1>5, <1>6
<1>8. GoDecode(go, J) = e
  <2> HIDE DEF d
  <2>q. QED BY <1>3, <1>4, <1>6, <1>7
<1>q. QED BY <1>8 DEF go, J
-----------------------------------------------------------------------------
(* One side may be generated from an earlier state of the schema.           *)
Begins(P, Q) == Len(P) <= Len(Q) /\ \A i \in DOMAIN P : P[i] = Q[i]

Agree(P, Q) == \A k \in Keys(P) \cap Keys(Q) : Field(P, k) = Field(Q, k)

LEMMA BeginsKeys ==
  ASSUME NEW P, Keyed(P), NEW Q, Keyed(Q), Begins(P, Q)
  PROVE  /\ Keys(P) \subseteq Keys(Q) /\ Agree(P, Q) /\ Agree(Q, P)
         /\ \A i \in DOMAIN P : P[i].key = Q[i].key
<1>1. ASSUME NEW k \in Keys(P) PROVE k \in Keys(Q) /\ Field(P, k) = Field(Q, k)
  <2>1. PICK i \in DOMAIN P : P[i].key = k /\ Field(P, k) = P[i]
    BY KeyOf
  <2>2. i \in DOMAIN Q /\ Q[i] = P[i]
    BY <2>1 DEF Begins, Keyed
  <2>q. QED BY <2>1, <2>2, FieldOf
<1>q. QED BY <1>1 DEF Agree, Begins

LEMMA PyReads ==
  ASSUME NEW P, IsSchema(P), NEW Q, IsSchema(Q), Agree(P, Q), NEW e, Typed(P, e)
  PROVE  /\ Raises(PyEvent(Q), EventJson(P, e))
              <=> \E k \in Keys(Q) \ Keys(P) : ~Field(Q, k).optional
         /\ FromDict(PyEvent(Q), EventJson(P, e))
              = [k \in Keys(Q) |-> IF k \in Keys(P) THEN e[k] ELSE Null]
<1> DEFINE J == EventJson(P, e)
           py == PyEvent(Q)
           Of(c, x) == IF c.type = "object" /\ x # Null THEN FromDictFlat(c.fields, x) ELSE x
<1>1. /\ Keyed(Q) /\ Mirrors(py, Q) /\ Keys(py) = Keys(Q) /\ DOMAIN py = DOMAIN Q
      /\ \A k \in Keys(Q) : Field(py, k) = PyField(Field(Q, k), PyClass(Field(Q, k).props))
      /\ \A i \in DOMAIN Q : py[i] = PyField(Q[i], PyClass(Q[i].props))
      /\ \A i \in DOMAIN Q : Q[i].key \in Keys(Q) /\ Field(Q, Q[i].key) = Q[i]
  BY SchemaProperties, Generated, FieldOf DEF Mirrors, PyEvent
<1>2. \A k \in Keys(P) : IsSpec(Field(P, k)) /\ OfObject(Field(P, k).props)
  BY SchemaProperties, SpecProperties
<1>3. /\ \A k : Has(J, k) => k \in Keys(P)
      /\ \A k \in Keys(P) :
           /\ Value(J, k) = ValueJson(Field(P, k), e[k])
           /\ Value(J, k) = Null <=> e[k] = Null
           /\ ~Field(P, k).optional => Has(J, k) /\ Get(J, k) # Null
      /\ \A k : k \notin Keys(P) => Value(J, k) = Null
  BY JsonOf DEF WrittenKeys
<1>4. \A i \in DOMAIN Q : /\ py[i].key = Q[i].key /\ py[i].type = Q[i].type
                          /\ py[i].fields = PyClass(Q[i].props) /\ py[i].index = ~Q[i].optional
  BY <1>1 DEF PyField
<1>5. ASSUME NEW k \in Keys(P) \cap Keys(Q), e[k] # Null, Field(Q, k).type = "object"
      PROVE  LET fs == PyClass(Field(Q, k).props)
             IN  ~RaisesFlat(fs, Value(J, k)) /\ FromDictFlat(fs, Value(J, k)) = e[k]
  <2>1. Field(P, k) = Field(Q, k)
    BY DEF Agree
  <2>2. e[k] \in ObjectsOf(Field(P, k).props) /\ Value(J, k) = ObjectJson(Field(P, k).props, e[k])
    BY <1>3, <1>5, <2>1 DEF Typed, Holds, ValueJson
  <2>q. QED BY <1>2, <2>1, <2>2, ObjectRoundTrip
<1> HIDE DEF J, py
<1>6. ASSUME Raises(py, J) PROVE \E k \in Keys(Q) \ Keys(P) : ~Field(Q, k).optional
  <2>1. CASE RaisesFlat(py, J)
    <3>1. PICK i \in DOMAIN py : /\ py[i].index
                                 /\ Has(J, py[i].key) => py[i].type = "object" /\ Get(J, py[i].key) = Null
      BY <2>1 DEF RaisesFlat
    <3>2. i \in DOMAIN Q /\ ~Q[i].optional
      BY <1>1, <1>4, <3>1
    <3>3. Q[i].key \notin Keys(P)
      BY <1>1, <1>3, <1>4, <3>1, <3>2 DEF Agree
    <3>q. QED BY <1>1, <3>2, <3>3
  <2>2. CASE \E i \in DOMAIN py : LET x == Value(J, py[i].key)
                                  IN  py[i].type = "object" /\ x # Null /\ RaisesFlat(py[i].fields, x)
    <3>1. PICK i \in DOMAIN py : /\ py[i].type = "object" /\ Value(J, py[i].key) # Null
                                 /\ RaisesFlat(py[i].fields, Value(J, py[i].key))
      BY <2>2
    <3>2. i \in DOMAIN Q /\ Q[i].key \in Keys(P) \cap Keys(Q) /\ Field(Q, Q[i].key) = Q[i]
      BY <1>1, <1>3, <1>4, <3>1
    <3>q. QED BY <1>3, <1>4, <1>5, <3>1, <3>2
  <2>q. QED BY <1>6, <2>1, <2>2 DEF Raises
<1>7. ASSUME NEW k \in Keys(Q) \ Keys(P), ~Field(Q, k).optional PROVE Raises(py, J)
  <2>1. PICK i \in DOMAIN Q : Q[i].key = k /\ Field(Q, k) = Q[i]
    BY <1>1, KeyOf
  <2>2. i \in DOMAIN py /\ py[i].index = TRUE /\ py[i].key = k
    BY <1>1, <1>4, <1>7, <2>1
  <2>3. ~Has(J, k)
    BY <1>3
  <2>q. QED BY <2>2, <2>3 DEF Raises, RaisesFlat
<1>8. FromDict(py, J) = [k \in Keys(Q) |-> Of(Field(py, k), Value(J, k))]
  BY <1>1 DEF FromDict
<1>9. ASSUME NEW k \in Keys(Q)
      PROVE  Of(Field(py, k), Value(J, k)) = IF k \in Keys(P) THEN e[k] ELSE Null
  <2>1. Field(py, k).type = Field(Q, k).type /\ Field(py, k).fields = PyClass(Field(Q, k).props)
    BY <1>1 DEF PyField
  <2>2. CASE k \notin Keys(P) \/ e[k] = Null
    BY <1>3, <2>1, <2>2
  <2>3. CASE k \in Keys(P) /\ e[k] # Null /\ Field(Q, k).type = "object"
    BY <1>3, <1>5, <2>1, <2>3
  <2>4. CASE k \in Keys(P) /\ e[k] # Null /\ Field(Q, k).type # "object"
    BY <1>3, <2>1, <2>4 DEF Agree, ValueJson
  <2>q. QED BY <2>2, <2>3, <2>4
<1>10. FromDict(py, J) = [k \in Keys(Q) |-> IF k \in Keys(P) THEN e[k] ELSE Null]
  <2> HIDE DEF Of
  <2>q. QED BY <1>8, <1>9
<1>q. QED BY <1>6, <1>7, <1>10 DEF J, py

(* What Python has read it writes as whoever knows no more than both did.   *)
LEMMA PyWrites ==
  ASSUME NEW P, IsSchema(P), NEW Q, IsSchema(Q), NEW R, IsSchema(R),
         Begins(R, P), Begins(R, Q), Keys(R) = Keys(P) \cap Keys(Q),
         NEW e, Typed(P, e), \A k \in Keys(Q) \ Keys(P) : Field(Q, k).optional,
         NEW d, d = [k \in Keys(Q) |-> IF k \in Keys(P) THEN e[k] ELSE Null]
  PROVE  ToDict(PyEvent(Q), d) = EventJson(R, e) /\ Typed(R, e)
<1> DEFINE K == WrittenKeys(R, e)
           v == [k \in K |-> ValueJson(Field(R, k), e[k])]
           py == PyEvent(Q)
           Put(c, x) == IF c.type = "object" THEN ToDictFlat(c.fields, x) ELSE x
           w == [k \in PyKeeps(py, d) |-> Put(Field(py, k), d[k])]
<1>1. /\ Keyed(P) /\ Keyed(Q) /\ Keyed(R) /\ Mirrors(py, Q) /\ Keys(py) = Keys(Q)
      /\ \A k \in Keys(Q) : Field(py, k) = PyField(Field(Q, k), PyClass(Field(Q, k).props))
  BY SchemaProperties, Generated DEF Mirrors
<1>2. \A k \in Keys(Q) : IsSpec(Field(Q, k)) /\ OfObject(Field(Q, k).props)
  BY SchemaProperties, SpecProperties
<1>3. /\ \A k \in Keys(R) : /\ k \in Keys(P) /\ k \in Keys(Q) /\ d[k] = e[k]
                            /\ Field(R, k) = Field(Q, k) /\ Field(R, k) = Field(P, k)
      /\ \A k \in Keys(Q) : k \notin Keys(R) => d[k] = Null /\ Field(Q, k).optional
  BY <1>1, BeginsKeys DEF Agree
<1>4. Typed(R, e)
  BY <1>3 DEF Typed
<1>5. ToDict(py, d) = Written(py, w)
  BY DEF ToDict
<1> HIDE DEF py
<1>6. PyKeeps(py, d) = K
  <2>1. ASSUME NEW k \in Keys(Q)
        PROVE  (Field(py, k).always \/ d[k] # Null) <=> ~Left(Field(Q, k), d[k])
    <3>1. Field(py, k) = PyField(Field(Q, k), PyClass(Field(Q, k).props)) /\ IsSpec(Field(Q, k))
      BY <1>1, <1>2
    <3>2. (PyField(Field(Q, k), PyClass(Field(Q, k).props)).always \/ d[k] # Null)
             <=> ~Left(Field(Q, k), d[k])
      BY <3>1, LeftOut
    <3>q. QED BY <3>1, <3>2, Zenon
  <2>2. PyKeeps(py, d) = {k \in Keys(Q) : ~Left(Field(Q, k), d[k])}
    BY <1>1, <2>1, Zenon DEF PyKeeps
  <2>3. \A k \in Keys(Q) : k \notin Keys(R) => Left(Field(Q, k), d[k])
    BY <1>3, Zenon DEF Left
  <2>q. QED BY <1>3, <2>2, <2>3 DEF WrittenKeys
<1>7. ASSUME NEW k \in K PROVE Put(Field(py, k), d[k]) = ValueJson(Field(R, k), e[k])
  <2>1. k \in Keys(R) /\ k \in Keys(Q) /\ d[k] = e[k] /\ Field(R, k) = Field(Q, k)
    BY <1>3 DEF WrittenKeys
  <2>2. Field(py, k).type = Field(R, k).type /\ Field(py, k).fields = PyClass(Field(R, k).props)
    BY <1>1, <2>1 DEF PyField
  <2>3. ASSUME Field(R, k).type = "object"
        PROVE  e[k] # Null /\ ToDictFlat(PyClass(Field(R, k).props), e[k]) = ObjectJson(Field(R, k).props, e[k])
    <3>1. Holds(Field(R, k), e[k]) /\ ~Left(Field(R, k), e[k])
      BY <1>4, <2>1 DEF Typed, WrittenKeys
    <3>2. e[k] # Null
      BY <3>1 DEF Holds, Left
    <3>3. e[k] \in ObjectsOf(Field(R, k).props)
      BY <2>3, <3>1, <3>2 DEF Holds
    <3>q. QED BY <1>2, <2>1, <3>2, <3>3, ObjectRoundTrip
  <2>q. QED BY <2>1, <2>2, <2>3 DEF ValueJson
<1>8. w = v
  <2> HIDE DEF K, Put
  <2>q. QED BY <1>6, <1>7
<1>9. DOMAIN v \subseteq Keys(R) /\ Keys(R) \subseteq Keys(Q)
  BY <1>3 DEF WrittenKeys
<1>10. Written(py, v) = Written(Q, v)
  <2> HIDE DEF v
  <2>q. QED BY <1>1, <1>9, MirrorWritten
<1>11. Written(Q, v) = Written(R, v)
  <2>1. Len(R) <= Len(Q) /\ \A i \in DOMAIN R : R[i].key = Q[i].key
    BY DEF Begins
  <2> HIDE DEF v
  <2>q. QED BY <1>1, <1>9, <2>1, WrittenSame
<1>12. EventJson(R, e) = Written(R, v)
  BY DEF EventJson
<1>13. ToDict(py, d) = EventJson(R, e)
  <2> HIDE DEF v, w
  <2>q. QED BY <1>5, <1>8, <1>10, <1>11, <1>12
<1>q. QED BY <1>4, <1>13 DEF py

LEMMA LeavesHold ==
  ASSUME NEW s, IsSpec(s), NEW fs, NEW x \in Leaves(GoField(s, fs))
  PROVE  x \in Leaf /\ (x = Null => s.optional)
<1> DEFINE f == GoField(s, fs)
<1>1. f.type = s.type /\ f.pointer = (s.optional /\ s.type # "array")
  BY DEF GoField
<1>2. x \in (IF f.type = "array" THEN {NoItems, Items} ELSE {Zero, One}) \/ (f.pointer /\ x = Null)
  BY DEF Leaves, OrNil
<1> HIDE DEF f
<1>3. x \in {Zero, One, NoItems, Items} \/ (f.pointer /\ x = Null)
  BY <1>2
<1>4. f.pointer => s.optional
  BY <1>1
<1>q. QED BY <1>3, <1>4, ContractAssumption DEF Leaf

LEMMA ObjectsMade ==
  ASSUME NEW P, OfObject(P), NEW o \in LeafStructs(GoStruct(P))
  PROVE  o \in ObjectsOf(P)
<1> DEFINE F == GoStruct(P)
           values == [i \in DOMAIN F |-> Leaves(F[i])]
<1>1. /\ Keyed(P) /\ Keyed(F) /\ DOMAIN F = DOMAIN P /\ Keys(F) = Keys(P)
      /\ \A i \in DOMAIN P : IsSpec(P[i]) /\ F[i] = GoField(P[i], <<>>)
  BY ObjectProperties, Generated DEF Mirrors, GoStruct
<1>2. o \in Structs(F, values)
  BY DEF LeafStructs
<1>3. o = [k \in Keys(P) |-> o[k]] /\ \A i \in DOMAIN P : o[F[i].key] \in Leaves(F[i])
  <2>1. o = [k \in Keys(F) |-> o[k]] /\ \A i \in DOMAIN F : o[F[i].key] \in values[i]
    <3> HIDE DEF values, F
    <3>q. QED BY <1>1, <1>2, StructsProperties
  <2>q. QED BY <1>1, <2>1
<1> HIDE DEF F
<1>4. ASSUME NEW k \in Keys(P) PROVE o[k] \in Leaf /\ (o[k] = Null => Field(P, k).optional)
  <2>1. PICK i \in DOMAIN P : P[i].key = k /\ Field(P, k) = P[i]
    BY <1>1, KeyOf
  <2>2. F[i] = GoField(P[i], <<>>) /\ IsSpec(P[i]) /\ o[F[i].key] \in Leaves(F[i])
    BY <1>1, <1>3, <2>1
  <2>3. F[i].key = k
    BY <2>1, <2>2 DEF GoField
  <2>q. QED BY <2>1, <2>2, <2>3, LeavesHold
<1>q. QED BY <1>3, <1>4 DEF ObjectsOf

(* A recorder's events have a value for each property it knows.             *)
LEMMA Recorded ==
  ASSUME NEW P, IsSchema(P), NEW e \in EventsOf(GoEvent(P))
  PROVE  e = [k \in Keys(P) |-> e[k]] /\ Typed(P, e)
<1> DEFINE F == GoEvent(P)
           ValuesOf(f) == IF f.type = "object" THEN OrNil(f, LeafStructs(f.fields)) ELSE Leaves(f)
           values == [i \in DOMAIN F |-> ValuesOf(F[i])]
<1>1. /\ Keyed(P) /\ Keyed(F) /\ DOMAIN F = DOMAIN P /\ Keys(F) = Keys(P)
      /\ \A i \in DOMAIN P : /\ IsSpec(P[i]) /\ OfObject(P[i].props)
                             /\ F[i] = GoField(P[i], GoStruct(P[i].props))
  BY SchemaProperties, SpecProperties, Generated DEF Mirrors, GoEvent
<1>2. e \in Structs(F, values)
  BY DEF EventsOf
<1>3. e = [k \in Keys(P) |-> e[k]] /\ \A i \in DOMAIN P : e[F[i].key] \in ValuesOf(F[i])
  <2>1. e = [k \in Keys(F) |-> e[k]] /\ \A i \in DOMAIN F : e[F[i].key] \in values[i]
    <3> HIDE DEF values, F
    <3>q. QED BY <1>1, <1>2, StructsProperties
  <2>2. \A i \in DOMAIN F : values[i] = ValuesOf(F[i])
    <3> HIDE DEF ValuesOf
    <3>q. QED OBVIOUS
  <2>q. QED BY <1>1, <2>1, <2>2
<1> HIDE DEF F
<1>4. ASSUME NEW k \in Keys(P) PROVE Holds(Field(P, k), e[k])
  <2>1. PICK i \in DOMAIN P : P[i].key = k /\ Field(P, k) = P[i]
    BY <1>1, KeyOf
  <2> DEFINE s == P[i]
             f == GoField(s, GoStruct(s.props))
             x == e[k]
  <2>2. F[i] = f /\ f.key = k /\ IsSpec(s) /\ OfObject(s.props) /\ x \in ValuesOf(F[i])
    <3>1. F[i] = f /\ IsSpec(s) /\ OfObject(s.props) /\ f.key = k
      BY <1>1, <2>1 DEF GoField
    <3>q. QED BY <1>3, <3>1
  <2>3. x \in ValuesOf(f) /\ f.type = s.type /\ f.fields = GoStruct(s.props)
    BY <2>2 DEF GoField
  <2>4. CASE s.type # "object"
    <3>1. x \in Leaves(f)
      BY <2>3, <2>4
    <3>2. x \in Leaf /\ (x = Null => s.optional)
      <4> HIDE DEF s, x
      <4>q. QED BY <2>2, <3>1, LeavesHold
    <3>q. QED BY <2>1, <2>4, <3>2 DEF Holds
  <2>5. CASE s.type = "object"
    <3>1. x \in OrNil(f, LeafStructs(GoStruct(s.props)))
      BY <2>3, <2>5
    <3>2. x \in LeafStructs(GoStruct(s.props)) \/ (x = Null /\ s.optional)
      <4> HIDE DEF s, x
      <4>q. QED BY <3>1 DEF OrNil, GoField
    <3>3. x \in LeafStructs(GoStruct(s.props)) => x \in ObjectsOf(s.props) /\ x # Null
      BY <2>2, ObjectsMade, ObjectIsNoLeaf
    <3>q. QED BY <2>1, <2>5, <3>2, <3>3 DEF Holds
  <2>q. QED BY <2>4, <2>5
<1>q. QED BY <1>3, <1>4 DEF Typed
-----------------------------------------------------------------------------
(* The schema grows at its end, and each side is generated from what it was *)
(* at some time.                                                            *)

Upto(S, n) == [i \in 1..n |-> S[i]]

Versions(S) == Len(BaseSchema)..Len(S)

FromGo(S, F) == Len(F) \in Versions(S) /\ F = GoEvent(Upto(S, Len(F)))
FromPy(S, C) == Len(C) \in Versions(S) /\ C = PyEvent(Upto(S, Len(C)))

(* A row holds an event of a recorder no newer than g, as whoever knows the *)
(* properties it came through with writes it.                               *)
TrueRow(S, g, r) ==
  \E n \in Versions(S), m \in 0..g :
    /\ n <= m
    /\ r.through = Keys(Upto(S, n)) /\ r.json = EventJson(Upto(S, n), r.event)
    /\ Typed(Upto(S, n), r.event)
    /\ r.event = [k \in Keys(Upto(S, m)) |-> r.event[k]]

IInv ==
  /\ IsSchema(schema) /\ Begins(BaseSchema, schema)
  /\ FromGo(schema, goOut) /\ FromPy(schema, pyOut)
  /\ FromGo(schema, installed.go) /\ FromPy(schema, installed.py)
  /\ FromGo(schema, recorder) /\ FromPy(schema, engine)
  /\ Len(recorder) <= Len(installed.go) /\ Len(installed.go) <= Len(goOut)
  /\ installed.tested => Len(installed.go) = Len(installed.py)
  /\ \A r \in rows : TrueRow(schema, Len(installed.go), r)

LEMMA BaseIsSchema == IsSchema(BaseSchema)
<1>1. WellFormed(BaseSchema)
  BY ContractAssumption
<1>2. BaseSchema \in Seq(Elements(BaseSchema))
  BY <1>1 DEF WellFormed
<1>3. Len(BaseSchema) \in Nat /\ DOMAIN BaseSchema = 1..Len(BaseSchema)
  BY <1>2, LenProperties
<1>4. Keyed(BaseSchema)
  BY <1>1, <1>3 DEF WellFormed, Keyed
<1>5. BaseSchema \in Seq(Specs)
  BY <1>2 DEF Specs
<1>q. QED BY <1>4, <1>5 DEF IsSchema

LEMMA UptoProperties ==
  ASSUME NEW S, IsSchema(S), NEW n \in 0..Len(S)
  PROVE  /\ IsSchema(Upto(S, n)) /\ Len(Upto(S, n)) = n
         /\ \A m \in 0..n : Begins(Upto(S, m), Upto(S, n))
         /\ Begins(Upto(S, n), S) /\ (n = Len(S) => Upto(S, n) = S)
<1>1. /\ S \in Seq(Specs) /\ Keyed(S) /\ Len(S) \in Nat /\ DOMAIN S = 1..Len(S)
      /\ S = [i \in 1..Len(S) |-> S[i]] /\ \A i \in 1..Len(S) : S[i] \in Specs
  BY ElementOfSeq, LenProperties DEF IsSchema, Keyed
<1>2. Upto(S, n) \in [1..n -> Specs]
  BY <1>1 DEF Upto
<1>3. Upto(S, n) \in Seq(Specs)
  BY <1>1, <1>2, SeqDef
<1>4. \A m \in 0..Len(S) : /\ Len(Upto(S, m)) = m /\ DOMAIN Upto(S, m) = 1..m
                           /\ \A i \in 1..m : Upto(S, m)[i] = S[i]
  BY <1>1 DEF Upto
<1>5. Keyed(Upto(S, n))
  BY <1>1, <1>4 DEF Keyed
<1>6. \A m \in 0..n : Begins(Upto(S, m), Upto(S, n))
  BY <1>1, <1>4 DEF Begins
<1>7. Begins(Upto(S, n), S)
  BY <1>1, <1>4 DEF Begins
<1>q. QED BY <1>1, <1>3, <1>4, <1>5, <1>6, <1>7 DEF IsSchema, Upto

(* Two versions of a schema agree, and one of them knows what both know.    *)
LEMMA UptoAgree ==
  ASSUME NEW S, IsSchema(S), NEW n \in 0..Len(S), NEW m \in 0..Len(S)
  PROVE  /\ Agree(Upto(S, n), Upto(S, m))
         /\ n <= m => Keys(Upto(S, n)) \subseteq Keys(Upto(S, m))
         /\ Keys(Upto(S, n)) = Keys(Upto(S, m)) => n = m
<1>0. Len(S) \in Nat /\ n \in Nat /\ m \in Nat
  BY DEF IsSchema, Keyed
<1>1. ASSUME NEW a \in 0..Len(S), NEW b \in 0..Len(S), a <= b
      PROVE  /\ Agree(Upto(S, a), Upto(S, b)) /\ Agree(Upto(S, b), Upto(S, a))
             /\ Keys(Upto(S, a)) \subseteq Keys(Upto(S, b))
             /\ Keys(Upto(S, a)) = Keys(Upto(S, b)) => a = b
  <2>1. /\ Keyed(Upto(S, a)) /\ Keyed(Upto(S, b)) /\ Begins(Upto(S, a), Upto(S, b))
        /\ Len(Upto(S, a)) = a /\ Len(Upto(S, b)) = b
    <3>1. a \in 0..b
      BY <1>0, <1>1
    <3>q. QED BY <3>1, UptoProperties DEF IsSchema
  <2>2. /\ Agree(Upto(S, a), Upto(S, b)) /\ Agree(Upto(S, b), Upto(S, a))
        /\ Keys(Upto(S, a)) \subseteq Keys(Upto(S, b))
        /\ \A i \in DOMAIN Upto(S, a) : Upto(S, a)[i].key = Upto(S, b)[i].key
    BY <2>1, BeginsKeys
  <2>3. ASSUME Keys(Upto(S, a)) = Keys(Upto(S, b)), a # b PROVE FALSE
    <3>1. b \in DOMAIN Upto(S, b) /\ b \notin DOMAIN Upto(S, a)
      BY <1>0, <1>1, <2>1, <2>3 DEF Keyed
    <3>2. Upto(S, b)[b].key \in Keys(Upto(S, a))
      BY <2>1, <2>3, <3>1, FieldOf
    <3>3. PICK i \in DOMAIN Upto(S, a) : Upto(S, a)[i].key = Upto(S, b)[b].key
      BY <3>2 DEF Keys
    <3>4. i \in DOMAIN Upto(S, b) /\ Upto(S, b)[i].key = Upto(S, b)[b].key
      BY <1>0, <1>1, <2>1, <2>2, <3>3 DEF Keyed
    <3>q. QED BY <2>1, <3>1, <3>3, <3>4 DEF Keyed
  <2>q. QED BY <2>2, <2>3
<1>2. CASE n <= m
  BY <1>1, <1>2
<1>3. CASE m <= n
  BY <1>0, <1>1, <1>3
<1>q. QED BY <1>0, <1>2, <1>3

(* An addition leaves what is there where it is.                            *)
LEMMA Added ==
  ASSUME NEW S, IsSchema(S), NEW s \in Additions, s.key \notin Keys(S)
  PROVE  /\ IsSchema(Append(S, s)) /\ Len(Append(S, s)) = Len(S) + 1
         /\ \A n \in 0..Len(S) : Upto(Append(S, s), n) = Upto(S, n)
<1>1. S \in Seq(Specs) /\ Keyed(S) /\ Len(S) \in Nat /\ s \in Specs
  BY DEF IsSchema, Keyed, Specs
<1>2. /\ Append(S, s) \in Seq(Specs) /\ Len(Append(S, s)) = Len(S) + 1
      /\ DOMAIN Append(S, s) = 1..(Len(S) + 1)
      /\ \A i \in 1..Len(S) : Append(S, s)[i] = S[i]
      /\ Append(S, s)[Len(S) + 1] = s
  BY <1>1
<1>3. \A i \in DOMAIN S : S[i].key # s.key
  BY DEF Keys
<1>4. Keyed(Append(S, s))
  BY <1>1, <1>2, <1>3 DEF Keyed
<1>5. ASSUME NEW n \in 0..Len(S) PROVE Upto(Append(S, s), n) = Upto(S, n)
  BY <1>1, <1>2 DEF Upto
<1>q. QED BY <1>2, <1>4, <1>5 DEF IsSchema

LEMMA Current ==
  ASSUME NEW S, IsSchema(S), Len(BaseSchema) <= Len(S)
  PROVE  /\ FromGo(S, GoEvent(S)) /\ FromPy(S, PyEvent(S))
         /\ Len(GoEvent(S)) = Len(S) /\ Len(PyEvent(S)) = Len(S)
<1>1. Keyed(S) /\ Len(S) \in Nat /\ Len(BaseSchema) \in Nat
  BY BaseIsSchema DEF IsSchema, Keyed
<1>2. Len(GoEvent(S)) = Len(S) /\ Len(PyEvent(S)) = Len(S)
  BY <1>1, Generated DEF Mirrors
<1>3. Upto(S, Len(S)) = S
  BY <1>1, UptoProperties
<1>q. QED BY <1>1, <1>2, <1>3 DEF FromGo, FromPy, Versions

LEMMA InitInv == Init => IInv
<1> SUFFICES ASSUME Init PROVE IInv
  OBVIOUS
<1>1. IsSchema(BaseSchema) /\ Len(BaseSchema) \in Nat
  BY BaseIsSchema DEF IsSchema, Keyed
<1>2. /\ FromGo(BaseSchema, GoEvent(BaseSchema)) /\ FromPy(BaseSchema, PyEvent(BaseSchema))
      /\ Len(GoEvent(BaseSchema)) = Len(BaseSchema) /\ Len(PyEvent(BaseSchema)) = Len(BaseSchema)
  BY <1>1, Current
<1>3. Begins(BaseSchema, BaseSchema)
  BY <1>1 DEF Begins
<1>q. QED BY <1>1, <1>2, <1>3 DEF Init, IInv

LEMMA EditSchemaInv ==
  ASSUME IInv, EditSchema
  PROVE  IInv'
<1>1. PICK s \in Additions : s.key \notin Keys(schema) /\ schema' = Append(schema, s)
  BY DEF EditSchema
<1>2. IsSchema(schema) /\ Len(schema) \in Nat /\ Len(BaseSchema) \in Nat /\ DOMAIN BaseSchema = 1..Len(BaseSchema)
  BY BaseIsSchema DEF IInv, IsSchema, Keyed
<1>3. /\ IsSchema(schema') /\ Len(schema') = Len(schema) + 1
      /\ \A n \in 0..Len(schema) : Upto(schema', n) = Upto(schema, n)
  BY <1>1, <1>2, Added
<1>4. Begins(BaseSchema, schema')
  <2>1. Len(BaseSchema) <= Len(schema) /\ \A i \in DOMAIN BaseSchema : BaseSchema[i] = schema[i]
    BY DEF IInv, Begins
  <2>2. \A i \in 1..Len(schema) : schema'[i] = schema[i]
    <3>1. schema \in Seq(Specs) /\ s \in Specs
      BY <1>2 DEF IsSchema, Specs
    <3>q. QED BY <1>1, <3>1
  <2>q. QED BY <1>2, <1>3, <2>1, <2>2 DEF Begins
<1>5. Versions(schema) \subseteq Versions(schema') /\ Versions(schema) \subseteq 0..Len(schema)
  BY <1>2, <1>3 DEF Versions
<1>6. \A F : (FromGo(schema, F) => FromGo(schema', F)) /\ (FromPy(schema, F) => FromPy(schema', F))
  BY <1>3, <1>5 DEF FromGo, FromPy
<1>7. ASSUME NEW r, TrueRow(schema, Len(installed.go), r) PROVE TrueRow(schema', Len(installed.go), r)
  <2>1. PICK n \in Versions(schema), m \in 0..Len(installed.go) :
          /\ n <= m
          /\ r.through = Keys(Upto(schema, n)) /\ r.json = EventJson(Upto(schema, n), r.event)
          /\ Typed(Upto(schema, n), r.event)
          /\ r.event = [k \in Keys(Upto(schema, m)) |-> r.event[k]]
    BY <1>7 DEF TrueRow
  <2>2. Len(installed.go) \in 0..Len(schema) /\ n \in 0..Len(schema)
    BY <1>5 DEF IInv, FromGo
  <2>3. m \in 0..Len(schema)
    BY <1>2, <2>2
  <2>4. n \in Versions(schema') /\ Upto(schema', n) = Upto(schema, n) /\ Upto(schema', m) = Upto(schema, m)
    BY <1>3, <1>5, <2>2, <2>3
  <2>5. /\ r.through = Keys(Upto(schema', n)) /\ r.json = EventJson(Upto(schema', n), r.event)
        /\ Typed(Upto(schema', n), r.event)
        /\ r.event = [k \in Keys(Upto(schema', m)) |-> r.event[k]]
    BY <2>1, <2>4
  <2>q. QED BY <2>1, <2>4, <2>5 DEF TrueRow
<1>q. QED BY <1>3, <1>4, <1>6, <1>7 DEF IInv, EditSchema

LEMMA GenerateInv ==
  ASSUME IInv, Generate
  PROVE  IInv'
<1>1. IsSchema(schema) /\ Len(schema) \in Nat /\ Len(BaseSchema) <= Len(schema)
  BY DEF IInv, Begins, IsSchema, Keyed
<1>2. /\ FromGo(schema, GoEvent(schema)) /\ FromPy(schema, PyEvent(schema))
      /\ Len(GoEvent(schema)) = Len(schema)
  BY <1>1, Current
<1>3. Len(installed.go) <= Len(schema)
  BY <1>1, BaseIsSchema DEF IInv, FromGo, Versions, IsSchema, Keyed
<1>q. QED BY <1>2, <1>3 DEF IInv, Generate

LEMMA ReleaseInv ==
  ASSUME IInv, Release
  PROVE  IInv'
<1>1. IsSchema(schema) /\ Len(schema) \in Nat /\ Len(BaseSchema) \in Nat /\ Len(BaseSchema) <= Len(schema)
  BY BaseIsSchema DEF IInv, Begins, IsSchema, Keyed
<1>2. installed'.go = goOut /\ installed'.py = pyOut /\ installed'.tested = Check
  BY DEF Release
<1>3. Check => Len(goOut) = Len(pyOut)
  BY <1>1, Current DEF Check
<1>4. ASSUME NEW r \in rows PROVE TrueRow(schema, Len(goOut), r)
  <2>1. TrueRow(schema, Len(installed.go), r)
    BY DEF IInv
  <2>2. PICK n \in Versions(schema), m \in 0..Len(installed.go) :
          /\ n <= m
          /\ r.through = Keys(Upto(schema, n)) /\ r.json = EventJson(Upto(schema, n), r.event)
          /\ Typed(Upto(schema, n), r.event)
          /\ r.event = [k \in Keys(Upto(schema, m)) |-> r.event[k]]
    BY <2>1 DEF TrueRow
  <2>3. Len(installed.go) <= Len(goOut) /\ Len(installed.go) \in Nat /\ Len(goOut) \in Nat
    BY <1>1 DEF IInv, FromGo, Versions
  <2>4. m \in 0..Len(goOut)
    BY <1>1, <2>3 DEF Versions
  <2>q. QED BY <2>2, <2>4 DEF TrueRow
<1>5. Len(recorder) <= Len(goOut)
  BY <1>1 DEF IInv, FromGo, Versions
<1>6. Len(goOut) <= Len(goOut)
  BY <1>1 DEF IInv, FromGo, Versions
<1>7. installed'.tested => Len(installed'.go) = Len(installed'.py)
  BY <1>2, <1>3, Zenon
<1>q. QED BY <1>2, <1>4, <1>5, <1>6, <1>7 DEF IInv, Release

LEMMA RecordInv ==
  ASSUME IInv, Record
  PROVE  IInv'
<1>1. PICK e \in EventsOf(recorder) :
        rows' = rows \cup {[json |-> GoEncode(recorder, e), event |-> e, through |-> Keys(recorder)]}
  BY DEF Record
<1> DEFINE n == Len(recorder)
           P == Upto(schema, n)
           new == [json |-> GoEncode(recorder, e), event |-> e, through |-> Keys(recorder)]
<1>2. n \in Versions(schema) /\ n \in 0..Len(installed.go) /\ n <= n /\ recorder = GoEvent(P) /\ n \in 0..Len(schema)
  BY BaseIsSchema DEF IInv, FromGo, Versions, IsSchema, Keyed
<1>3. IsSchema(P)
  BY <1>2, UptoProperties DEF IInv
<1>4. Keys(recorder) = Keys(P)
  BY <1>2, <1>3, SchemaProperties, Generated DEF Mirrors
<1>5. e = [k \in Keys(P) |-> e[k]] /\ Typed(P, e)
  BY <1>1, <1>2, <1>3, Recorded
<1>6. GoEncode(recorder, e) = EventJson(P, e)
  BY <1>2, <1>3, <1>5, GoWrites
<1>7. TrueRow(schema, Len(installed.go), new)
  <2>1. new.json = EventJson(P, e) /\ new.event = e /\ new.through = Keys(P)
    BY <1>4, <1>6
  <2> HIDE DEF new
  <2>q. QED BY <1>2, <1>5, <2>1 DEF TrueRow
<1>8. \A r \in rows' : TrueRow(schema, Len(installed.go), r)
  BY <1>1, <1>7 DEF IInv
<1>q. QED BY <1>8 DEF IInv, Record

LEMMA LoadInv ==
  ASSUME IInv, Load
  PROVE  IInv'
<1> DEFINE q == Len(installed.py)
           Q == Upto(schema, q)
           Loaded(r) == [json |-> ToDict(installed.py, FromDict(installed.py, r.json)), event |-> r.event,
                         through |-> r.through \cap Keys(installed.py)]
<1>1. q \in 0..Len(schema) /\ installed.py = PyEvent(Q) /\ IsSchema(schema) /\ q \in Versions(schema)
  BY BaseIsSchema DEF IInv, FromPy, Versions, IsSchema, Keyed
<1>2. IsSchema(Q) /\ Keys(installed.py) = Keys(Q)
  BY <1>1, UptoProperties, SchemaProperties, Generated DEF Mirrors
<1>3. ASSUME NEW r \in rows PROVE TrueRow(schema, Len(installed.go), Loaded(r))
  <2>1. PICK n \in Versions(schema), m \in 0..Len(installed.go) :
          /\ n <= m
          /\ r.through = Keys(Upto(schema, n)) /\ r.json = EventJson(Upto(schema, n), r.event)
          /\ Typed(Upto(schema, n), r.event)
          /\ r.event = [k \in Keys(Upto(schema, m)) |-> r.event[k]]
    BY DEF IInv, TrueRow
  <2> DEFINE P == Upto(schema, n)
             l == IF n <= q THEN n ELSE q
             R == Upto(schema, l)
  <2>2. n \in 0..Len(schema) /\ l \in 0..Len(schema) /\ l \in 0..n /\ l \in 0..q /\ l \in Versions(schema)
    BY <1>1, BaseIsSchema DEF Versions, IsSchema, Keyed
  <2>3. /\ IsSchema(P) /\ IsSchema(R) /\ Begins(R, P) /\ Begins(R, Q) /\ Agree(P, Q)
        /\ Keys(R) = Keys(P) \cap Keys(Q)
    <3>1. IsSchema(P) /\ IsSchema(R) /\ Begins(R, P) /\ Begins(R, Q) /\ Agree(P, Q)
      BY <1>1, <2>2, UptoProperties, UptoAgree
    <3>2. (n <= q => Keys(P) \subseteq Keys(Q)) /\ (q <= n => Keys(Q) \subseteq Keys(P))
      BY <1>1, <2>2, UptoAgree
    <3>3. n <= q \/ (q <= n /\ ~(n <= q))
      BY <1>1, <2>2, BaseIsSchema DEF Versions, IsSchema, Keyed
    <3>q. QED BY <3>1, <3>2, <3>3
  <2>4. ~Raises(installed.py, r.json)
    BY DEF Load, ReadEventsRaises
  <2> HIDE DEF P, Q, R, l, q
  <2>5. /\ \A k \in Keys(Q) \ Keys(P) : Field(Q, k).optional
        /\ FromDict(installed.py, r.json) = [k \in Keys(Q) |-> IF k \in Keys(P) THEN r.event[k] ELSE Null]
    <3>1. r.json = EventJson(P, r.event) /\ Typed(P, r.event)
      BY <2>1 DEF P
    <3>2. /\ Raises(PyEvent(Q), EventJson(P, r.event))
               <=> \E k \in Keys(Q) \ Keys(P) : ~Field(Q, k).optional
          /\ FromDict(PyEvent(Q), EventJson(P, r.event))
               = [k \in Keys(Q) |-> IF k \in Keys(P) THEN r.event[k] ELSE Null]
      BY <1>2, <2>3, <3>1, PyReads
    <3>3. FromDict(installed.py, r.json) = FromDict(PyEvent(Q), EventJson(P, r.event))
      BY <1>1, <3>1
    <3>4. ~Raises(PyEvent(Q), EventJson(P, r.event))
      BY <1>1, <2>4, <3>1
    <3>5. \A k \in Keys(Q) \ Keys(P) : Field(Q, k).optional
      BY <3>2, <3>4, Zenon
    <3>q. QED BY <3>2, <3>3, <3>5
  <2>6. ToDict(installed.py, FromDict(installed.py, r.json)) = EventJson(R, r.event) /\ Typed(R, r.event)
    <3>1. Typed(P, r.event)
      BY <2>1 DEF P
    <3>q. QED BY <1>1, <1>2, <2>3, <2>5, <3>1, PyWrites
  <2>7. /\ Loaded(r).json = EventJson(R, r.event) /\ Loaded(r).event = r.event
        /\ Loaded(r).through = Keys(R)
    BY <1>2, <2>1, <2>3, <2>6 DEF P
  <2>8. l <= m
    <3>1. n <= m /\ m \in 0..Len(installed.go) /\ l \in 0..n /\ Len(installed.go) \in Int /\ n \in Int
      BY <2>1, <2>2 DEF IInv, FromGo, Versions
    <3> HIDE DEF P
    <3>q. QED BY <3>1
  <2> HIDE DEF Loaded
  <2>q. QED BY <2>1, <2>2, <2>6, <2>7, <2>8 DEF TrueRow, R
<1>4. \A r \in rows' : TrueRow(schema, Len(installed.go), r)
  BY <1>3 DEF Load
<1>q. QED BY <1>4 DEF IInv, Load

(* A step of any of the programs keeps the invariant.                       *)
LEMMA StepInv == IInv /\ [Next]_vars => IInv'
<1> SUFFICES ASSUME IInv, [Next]_vars PROVE IInv'
  OBVIOUS
<1>1. CASE EditSchema
  BY <1>1, EditSchemaInv
<1>2. CASE Generate
  BY <1>2, GenerateInv
<1>3. CASE Release
  BY <1>3, ReleaseInv
<1>4. CASE RestartRecorder
  <2>1. Len(installed.go) <= Len(installed.go)
    BY BaseIsSchema DEF IInv, FromGo, Versions, IsSchema, Keyed
  <2>q. QED BY <1>4, <2>1 DEF IInv, RestartRecorder
<1>5. CASE RestartEngine
  BY <1>5 DEF IInv, RestartEngine
<1>6. CASE Record
  BY <1>6, RecordInv
<1>7. CASE Load
  BY <1>7, LoadInv
<1>8. CASE UNCHANGED vars
  BY <1>8 DEF IInv, vars
<1>q. QED BY <1>1, <1>2, <1>3, <1>4, <1>5, <1>6, <1>7, <1>8 DEF Next

(* Every program's code is generated from the schema as it was at some      *)
(* time, no recorder is newer than the installed one, and every row is what *)
(* the programs it came through make of the event recorded.                 *)
THEOREM Invariance == Spec => []IInv
<1>1. Init => IInv
  BY InitInv
<1>2. IInv /\ [Next]_vars => IInv'
  BY StepInv
<1>q. QED BY <1>1, <1>2, PTL DEF Spec

(* What an engine makes of a row: it fails of a required property that the  *)
(* row has not, and no field that both know is changed.                     *)
LEMMA RowReads ==
  ASSUME IInv, NEW r \in rows, NEW C, FromPy(schema, C)
  PROVE  \E n \in Versions(schema) :
           /\ r.through = Keys(Upto(schema, n)) /\ Keys(C) = Keys(Upto(schema, Len(C)))
           /\ Raises(C, r.json) <=> \E k \in Keys(C) \ r.through : ~Field(schema, k).optional
           /\ FromDict(C, r.json) = [k \in Keys(C) |-> IF k \in r.through THEN r.event[k] ELSE Null]
<1> DEFINE q == Len(C)
           Q == Upto(schema, q)
<1>1. q \in 0..Len(schema) /\ C = PyEvent(Q) /\ IsSchema(schema)
  BY BaseIsSchema DEF IInv, FromPy, Versions, IsSchema, Keyed
<1>2. IsSchema(Q) /\ Keys(C) = Keys(Q) /\ Begins(Q, schema)
  BY <1>1, UptoProperties, SchemaProperties, Generated DEF Mirrors
<1>3. PICK n \in Versions(schema), m \in 0..Len(installed.go) :
        /\ n <= m
        /\ r.through = Keys(Upto(schema, n)) /\ r.json = EventJson(Upto(schema, n), r.event)
        /\ Typed(Upto(schema, n), r.event)
        /\ r.event = [k \in Keys(Upto(schema, m)) |-> r.event[k]]
  BY DEF IInv, TrueRow
<1> DEFINE P == Upto(schema, n)
<1>4. n \in 0..Len(schema)
  BY <1>3, BaseIsSchema DEF Versions, IsSchema, Keyed
<1>5. IsSchema(P) /\ Agree(P, Q)
  BY <1>1, <1>4, UptoProperties, UptoAgree
<1>6. r.through = Keys(P) /\ r.json = EventJson(P, r.event) /\ Typed(P, r.event)
  BY <1>3
<1>7. \A k \in Keys(Q) : Field(Q, k) = Field(schema, k)
  BY <1>1, <1>2, BeginsKeys DEF Agree, IsSchema
<1> HIDE DEF P, Q, q
<1>8. /\ Raises(PyEvent(Q), EventJson(P, r.event))
           <=> \E k \in Keys(Q) \ Keys(P) : ~Field(Q, k).optional
      /\ FromDict(PyEvent(Q), EventJson(P, r.event))
           = [k \in Keys(Q) |-> IF k \in Keys(P) THEN r.event[k] ELSE Null]
  BY <1>2, <1>5, <1>6, PyReads
<1>9. FromDict(C, r.json) = [k \in Keys(C) |-> IF k \in r.through THEN r.event[k] ELSE Null]
  BY <1>1, <1>2, <1>6, <1>8
<1>10. Raises(C, r.json) <=> \E k \in Keys(C) \ r.through : ~Field(schema, k).optional
  <2>1. Raises(C, r.json) <=> Raises(PyEvent(Q), EventJson(P, r.event))
    BY <1>1, <1>6
  <2>2. Keys(C) \ r.through = Keys(Q) \ Keys(P)
    BY <1>2, <1>6
  <2>q. QED BY <1>7, <1>8, <2>1, <2>2, Zenon
<1>q. QED BY <1>2, <1>3, <1>6, <1>9, <1>10 DEF P, Q, q

(* Whatever is added to the schema and whenever each side is restarted, no  *)
(* engine meets a row that it cannot read, while the additions are optional *)
(* (reader.py, read_events; _py_from_dict).                                 *)
THEOREM OlderRecordingsRead == Spec => []ReadsOlderRecordings
<1>1. IInv => ReadsOlderRecordings
  <2> SUFFICES ASSUME IInv,
                      \A i \in DOMAIN schema : ~schema[i].optional => schema[i].key \in Keys(BaseSchema),
                      NEW r \in rows, NEW C, FromPy(schema, C), Raises(C, r.json)
               PROVE  FALSE
    BY DEF IInv, ReadsOlderRecordings, ReadEventsRaises
  <2>1. PICK n \in Versions(schema) :
          /\ r.through = Keys(Upto(schema, n)) /\ Keys(C) = Keys(Upto(schema, Len(C)))
          /\ Raises(C, r.json) <=> \E k \in Keys(C) \ r.through : ~Field(schema, k).optional
    BY RowReads
  <2>2. PICK k \in Keys(C) \ r.through : ~Field(schema, k).optional
    BY <2>1
  <2>3. /\ IsSchema(schema) /\ IsSchema(BaseSchema) /\ Begins(BaseSchema, schema)
        /\ n \in 0..Len(schema) /\ Len(C) \in 0..Len(schema) /\ Len(BaseSchema) \in 0..n
        /\ Len(BaseSchema) \in Nat /\ Len(schema) \in Nat
    BY BaseIsSchema DEF IInv, FromPy, Versions, IsSchema, Keyed
  <2>4. k \in Keys(schema)
    <3>1. Keys(Upto(schema, Len(C))) \subseteq Keys(schema)
      BY <2>3, UptoProperties, BeginsKeys DEF IsSchema
    <3>q. QED BY <2>1, <2>2, <3>1
  <2>5. PICK i \in DOMAIN schema : schema[i].key = k /\ Field(schema, k) = schema[i]
    BY <2>3, <2>4, KeyOf DEF IsSchema
  <2>6. k \in Keys(BaseSchema)
    BY <2>2, <2>5
  <2>7. Begins(BaseSchema, Upto(schema, n))
    BY <2>3 DEF Begins, Upto, IsSchema, Keyed
  <2>8. Keys(BaseSchema) \subseteq Keys(Upto(schema, n))
    <3>1. Keyed(Upto(schema, n)) /\ Keyed(BaseSchema)
      BY <2>3, UptoProperties DEF IsSchema
    <3>q. QED BY <2>7, <3>1, BeginsKeys
  <2>q. QED BY <2>1, <2>2, <2>6, <2>8
<1>q. QED BY <1>1, Invariance, PTL

(* A field that all the programs a row came through know is read as it was  *)
(* recorded, absent, zero and empty ones too, by any engine that can read   *)
(* the row (_go_struct, _py_from_dict, _py_to_dict).                        *)
THEOREM FieldsKept == Spec => []NothingLost
<1>1. IInv => NothingLost
  <2> SUFFICES ASSUME IInv, NEW r \in rows, NEW C, FromPy(schema, C),
                      NEW k \in r.through \cap Keys(C)
               PROVE  FromDict(C, r.json)[k] = r.event[k]
    BY DEF IInv, NothingLost
  <2>1. FromDict(C, r.json) = [f \in Keys(C) |-> IF f \in r.through THEN r.event[f] ELSE Null]
    BY RowReads
  <2>q. QED BY <2>1
<1>q. QED BY <1>1, Invariance, PTL

(* Of a release the drift check passed, a row its recorder made goes through *)
(* its Python and comes out with the same keys in the same order and the    *)
(* same values, which its Go reads back as the event (gen.py, --check;      *)
(* event_gen.go, event_gen.py).                                             *)
THEOREM JsonAgrees == Spec => []SameJson
<1>1. IInv => SameJson
  <2> SUFFICES ASSUME IInv, installed.tested, NEW r \in rows, r.through = Keys(installed.go)
               PROVE  LET back == ToDict(installed.py, FromDict(installed.py, r.json))
                      IN  /\ ~Raises(installed.py, r.json)
                          /\ back = r.json /\ GoDecode(installed.go, back) = r.event
    BY DEF SameJson
  <2> DEFINE q == Len(installed.go)
             Q == Upto(schema, q)
  <2>1. /\ IsSchema(schema) /\ q \in 0..Len(schema) /\ installed.go = GoEvent(Q)
        /\ installed.py = PyEvent(Q)
    BY BaseIsSchema DEF IInv, FromGo, FromPy, Versions, IsSchema, Keyed
  <2>2. IsSchema(Q) /\ Keys(installed.go) = Keys(Q)
    BY <2>1, UptoProperties, SchemaProperties, Generated DEF Mirrors
  <2>3. PICK n \in Versions(schema), m \in 0..q :
          /\ n <= m
          /\ r.through = Keys(Upto(schema, n)) /\ r.json = EventJson(Upto(schema, n), r.event)
          /\ Typed(Upto(schema, n), r.event)
          /\ r.event = [k \in Keys(Upto(schema, m)) |-> r.event[k]]
    BY DEF IInv, TrueRow
  <2>4. n \in 0..Len(schema)
    BY <2>3, BaseIsSchema DEF Versions, IsSchema, Keyed
  <2>5. n = q /\ m = q
    <3>1. n = q
      BY <2>1, <2>2, <2>3, <2>4, UptoAgree
    <3>q. QED BY <2>1, <3>1, <2>3
  <2>6. r.json = EventJson(Q, r.event) /\ Typed(Q, r.event) /\ r.event = [k \in Keys(Q) |-> r.event[k]]
    BY <2>3, <2>5
  <2>7. Agree(Q, Q) /\ Begins(Q, Q) /\ Keys(Q) = Keys(Q) \cap Keys(Q)
    BY <2>2 DEF Agree, Begins, IsSchema, Keyed
  <2> HIDE DEF Q, q
  <2>8. /\ ~Raises(installed.py, r.json)
        /\ FromDict(installed.py, r.json) = [k \in Keys(Q) |-> IF k \in Keys(Q) THEN r.event[k] ELSE Null]
    BY <2>1, <2>2, <2>6, <2>7, PyReads
  <2>9. ToDict(installed.py, FromDict(installed.py, r.json)) = r.json
    BY <2>1, <2>2, <2>6, <2>7, <2>8, PyWrites
  <2>10. GoDecode(installed.go, r.json) = r.event
    BY <2>1, <2>2, <2>6, GoReads
  <2>q. QED BY <2>8, <2>9, <2>10
<1>q. QED BY <1>1, Invariance, PTL
=============================================================================
