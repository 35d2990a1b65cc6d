------------------------------ MODULE EventCodec ------------------------------
(***************************************************************************)
(* shared/schema/gen.py and what it generates from event.schema.json: the   *)
(* Go structs that encoding/json works on (daemon/internal/event) and the   *)
(* Python dataclasses with from_dict and to_dict (engine/causegraph/schema).*)
(*                                                                         *)
(* A schema is the sequence of its properties, in the order of the file; an *)
(* object among them has properties of its own and no objects in them.  A   *)
(* JSON object is the sequence of its <<key, value>> pairs: how a number or *)
(* a string is written is not part of it.  A decoded event is a function of *)
(* its keys.                                                                *)
(***************************************************************************)
EXTENDS Lists

CONSTANTS
  Null,        \* Go's nil, Python's None and JSON's null
  Zero, One,   \* scalars; Zero is the one Go calls zero
  NoItems,     \* the empty array
  Items,       \* another array
  Unreadable   \* the error of Go's decoder

Keys(fields) == {fields[i].key : i \in DOMAIN fields}
Field(fields, k) == fields[CHOOSE i \in DOMAIN fields : fields[i].key = k]

Has(json, k) == \E i \in DOMAIN json : json[i][1] = k
Get(json, k) == json[CHOOSE i \in DOMAIN json : json[i][1] = k][2]

(* What is under a key; both decoders take null for a missing one.          *)
Value(json, k) == IF Has(json, k) THEN Get(json, k) ELSE Null

(* A JSON object of the values under their keys, in the order of the fields. *)
Written(fields, values) ==
  LET keys == [i \in DOMAIN fields |-> fields[i].key]
      kept == Keep(keys, {i \in DOMAIN keys : keys[i] \in DOMAIN values})
  IN  [i \in DOMAIN kept |-> <<kept[i], values[kept[i]]>>]

-----------------------------------------------------------------------------
(* The Go side. *)

(* Optional scalars are values too, as they are required to be. *)
GoFieldNoPointer(spec, fields) ==
  [key |-> spec.key, type |-> spec.type, fields |-> fields, omitempty |-> spec.optional,
   pointer |-> spec.optional /\ spec.type = "object"]

(* An optional field is `omitempty`, and a pointer unless it is a slice. *)
GoField(spec, fields) ==
  [key |-> spec.key, type |-> spec.type, fields |-> fields, omitempty |-> spec.optional,
   pointer |-> spec.optional /\ spec.type # "array"]

GoStruct(props) == [i \in DOMAIN props |-> GoField(props[i], <<>>)]

(* The struct Event, with the structs of its objects. *)
GoEvent(props) == [i \in DOMAIN props |-> GoField(props[i], GoStruct(props[i].props))]

(* What encoding/json leaves out: nil, and the zero value where there is no *)
(* pointer.  (An optional array would lose the empty one; the schema has    *)
(* none.)                                                                   *)
Omitted(f, x) ==
  f.omitempty /\ x \in IF f.pointer THEN {Null} ELSE {Null, Zero, NoItems}

GoKeeps(fields, e) == {k \in Keys(fields) : ~Omitted(Field(fields, k), e[k])}

GoEncodeStruct(fields, o) == Written(fields, [k \in GoKeeps(fields, o) |-> o[k]])

GoEncode(fields, e) ==
  LET Json(f, x) == IF f.type = "object" /\ x # Null THEN GoEncodeStruct(f.fields, x) ELSE x
  IN  Written(fields, [k \in GoKeeps(fields, e) |-> Json(Field(fields, k), e[k])])

ZeroLeaf(f) == IF f.pointer \/ f.type = "array" THEN Null ELSE Zero
ZeroOf(f) ==
  IF f.type = "object" /\ ~f.pointer
  THEN [k \in Keys(f.fields) |-> ZeroLeaf(Field(f.fields, k))]
  ELSE ZeroLeaf(f)

(* A key the struct has not is refused. *)
Known(fields, json) == \A i \in DOMAIN json : json[i][1] \in Keys(fields)

GoDecodeStruct(fields, json) ==
  IF Known(fields, json)
  THEN [k \in Keys(fields) |-> IF Value(json, k) = Null THEN ZeroLeaf(Field(fields, k))
                               ELSE Value(json, k)]
  ELSE Unreadable

(* A missing key leaves the zero value. *)
GoDecode(fields, json) ==
  LET Of(f, x) == IF x = Null THEN ZeroOf(f)
                  ELSE IF f.type = "object" THEN GoDecodeStruct(f.fields, x)
                  ELSE x
      e == [k \in Keys(fields) |-> Of(Field(fields, k), Value(json, k))]
  IN  IF Known(fields, json) /\ \A k \in Keys(fields) : e[k] # Unreadable
      THEN e ELSE Unreadable

-----------------------------------------------------------------------------
(* The Python side. *)

(* from_dict takes every field with d['k']. *)
PyFieldIndexed(spec, fields) ==
  [key |-> spec.key, type |-> spec.type, fields |-> fields,
   index |-> TRUE, always |-> ~spec.optional]

(* Whether from_dict says d['k'] or d.get('k'), and whether to_dict always  *)
(* writes the field or only if it is not None.                              *)
PyField(spec, fields) ==
  [key |-> spec.key, type |-> spec.type, fields |-> fields,
   index |-> ~spec.optional, always |-> ~spec.optional]

PyClass(props) == [i \in DOMAIN props |-> PyField(props[i], <<>>)]

(* The class Event, with the classes of its objects. *)
PyEvent(props) == [i \in DOMAIN props |-> PyField(props[i], PyClass(props[i].props))]

(* d['k'] of a missing key raises, and so does a class made from None where *)
(* one is required; keys the class has not are passed over.                 *)
RaisesFlat(cls, json) ==
  \E i \in DOMAIN cls :
    /\ cls[i].index
    /\ Has(json, cls[i].key) => cls[i].type = "object" /\ Get(json, cls[i].key) = Null

(* from_dict raises. *)
Raises(cls, json) ==
  \/ RaisesFlat(cls, json)
  \/ \E i \in DOMAIN cls : LET x == Value(json, cls[i].key)
                           IN  cls[i].type = "object" /\ x # Null /\ RaisesFlat(cls[i].fields, x)

FromDictFlat(cls, json) == [k \in Keys(cls) |-> Value(json, k)]

(* What it returns otherwise. *)
FromDict(cls, json) ==
  LET Of(c, x) == IF c.type = "object" /\ x # Null THEN FromDictFlat(c.fields, x) ELSE x
  IN  [k \in Keys(cls) |-> Of(Field(cls, k), Value(json, k))]

PyKeeps(cls, e) == {k \in Keys(cls) : Field(cls, k).always \/ e[k] # Null}

ToDictFlat(cls, o) == Written(cls, [k \in PyKeeps(cls, o) |-> o[k]])

ToDict(cls, e) ==
  LET Json(c, x) == IF c.type = "object" THEN ToDictFlat(c.fields, x) ELSE x
  IN  Written(cls, [k \in PyKeeps(cls, e) |-> Json(Field(cls, k), e[k])])
=============================================================================
