---------------------------- MODULE EventContract ----------------------------
(***************************************************************************)
(* The event schema as the contract between two programs: it is edited, the *)
(* code of both sides is generated and committed, released and installed;   *)
(* each side runs on with its old code until it is restarted, and the       *)
(* recordings outlive them all.                                             *)
(***************************************************************************)
EXTENDS EventCodec, FiniteSets

CONSTANTS
  Plain,        \* the values of fields that Go and Python write alike, character by character
  BaseSchema,   \* event.schema.json as it is
  Additions,    \* properties that may be added to it
  MaxEdits,     \* bound: how many of them are
  MaxRows       \* bound: rows of the database

Leaf == {Null, Zero, One, NoItems, Items}

(* No property comes twice; no array is optional, as in event.schema.json.  *)
WellFormed(props) ==
  /\ props \in Seq(Elements(props))
  /\ \A i, j \in DOMAIN props : props[i].key = props[j].key => i = j
  /\ \A i \in DOMAIN props :
       /\ props[i].type \in {"scalar", "array", "object"} /\ props[i].optional \in BOOLEAN
       /\ props[i].type = "array" => ~props[i].optional

(* An object has properties of its own, which are no objects. *)
WellFormedObjects(specs) ==
  \A s \in specs : WellFormed(s.props) /\ \A i \in DOMAIN s.props : s.props[i].type # "object"

(* Nulls, scalars and arrays are not structs and not JSON objects. *)
NoStruct(specs) ==
  \A s \in specs : /\ (Leaf \cup {Unreadable}) \cap [Keys(s.props) -> Leaf] = {}
                   /\ Leaf \cap Seq(Keys(s.props) \X Leaf) = {}

ASSUME ContractAssumption ==
  /\ MaxEdits \in Nat /\ MaxRows \in Nat /\ Plain \subseteq Leaf
  /\ WellFormed(BaseSchema) /\ \A s \in Additions : WellFormed(<<s>>) /\ s.key \notin Keys(BaseSchema)
  /\ WellFormedObjects(Elements(BaseSchema) \cup Additions)
  /\ NoStruct(Elements(BaseSchema) \cup Additions)
  /\ Null \notin {Zero, One, NoItems, Items} /\ Unreadable \notin Leaf

VARIABLES
  schema,     \* event.schema.json
  goOut,      \* GO_OUT, the committed event_gen.go
  pyOut,      \* PY_OUT, the committed event_gen.py
  installed,  \* the release on the machine, and whether `make test` passed it
  recorder,   \* the code the running cged was built from
  engine,     \* the code the running engine has imported
  rows        \* the `data` of the database; event and through are history:
              \* what was recorded, and the keys every program it passed knows

vars == <<schema, goOut, pyOut, installed, recorder, engine, rows>>

(* What --check compares: both committed files with what is generated now. *)
CheckGoOnly == goOut = GoEvent(schema)

Check == goOut = GoEvent(schema) /\ pyOut = PyEvent(schema)

Init ==
  /\ schema = BaseSchema
  /\ goOut = GoEvent(BaseSchema) /\ pyOut = PyEvent(BaseSchema)
  /\ installed = [go |-> GoEvent(BaseSchema), py |-> PyEvent(BaseSchema), tested |-> TRUE]
  /\ recorder = GoEvent(BaseSchema) /\ engine = PyEvent(BaseSchema)
  /\ rows = {}

-----------------------------------------------------------------------------
(* The repository. *)

EditSchema ==
  /\ Len(schema) < Len(BaseSchema) + MaxEdits
  /\ \E s \in Additions : s.key \notin Keys(schema) /\ schema' = Append(schema, s)
  /\ UNCHANGED <<goOut, pyOut, installed, recorder, engine, rows>>

(* main renders both files before it writes the first; it may be stopped    *)
(* before it writes the second.                                             *)
Generate ==
  /\ goOut' = GoEvent(schema)
  /\ pyOut' \in {pyOut, PyEvent(schema)}
  /\ UNCHANGED <<schema, installed, recorder, engine, rows>>

(* A tag is built from the committed files.  `make test` runs the check     *)
(* first; the release workflow itself does not.                             *)
Release ==
  /\ installed' = [go |-> goOut, py |-> pyOut, tested |-> Check]
  /\ UNCHANGED <<schema, goOut, pyOut, recorder, engine, rows>>

-----------------------------------------------------------------------------
(* The machine. *)

RestartRecorder ==
  /\ recorder' = installed.go
  /\ UNCHANGED <<schema, goOut, pyOut, installed, engine, rows>>

RestartEngine ==
  /\ engine' = installed.py
  /\ UNCHANGED <<schema, goOut, pyOut, installed, recorder, rows>>

(* The values of a struct, from those each field may have. *)
Structs(fields, values) ==
  LET of[n \in 0..Len(fields)] ==
        IF n = 0 THEN {[k \in Keys(fields) |-> Null]}
        ELSE {[e EXCEPT ![fields[n].key] = x] : e \in of[n - 1], x \in values[n]}
  IN  of[Len(fields)]

OrNil(f, S) == IF f.pointer THEN {Null} \cup S ELSE S

Leaves(f) == OrNil(f, IF f.type = "array" THEN {NoItems, Items} ELSE {Zero, One})

LeafStructs(fields) == Structs(fields, [i \in DOMAIN fields |-> Leaves(fields[i])])

(* The events a recorder of these structs makes; actorOf makes a nil slice  *)
(* an empty one.                                                            *)
EventsOf(fields) ==
  LET ValuesOf(f) == IF f.type = "object" THEN OrNil(f, LeafStructs(f.fields)) ELSE Leaves(f)
  IN  Structs(fields, [i \in DOMAIN fields |-> ValuesOf(fields[i])])

Record ==
  /\ \E e \in EventsOf(recorder) :
       LET row == [json |-> GoEncode(recorder, e), event |-> e, through |-> Keys(recorder)]
       IN  rows' = rows \cup {row}
  /\ Cardinality(rows') <= MaxRows
  /\ UNCHANGED <<schema, goOut, pyOut, installed, recorder, engine>>

(* read_events: one row that cannot be read is an exception, and no answer  *)
(* of the engine is to be had.                                              *)
ReadEventsRaises(cls) == \E r \in rows : Raises(cls, r.json)

(* cg load, a program of its own and of the code there is: a recording, as  *)
(* lines of JSON, is parsed to its end and then written into an empty       *)
(* database.                                                                *)
Load ==
  /\ ~ReadEventsRaises(installed.py)
  /\ rows' = {[json |-> ToDict(installed.py, FromDict(installed.py, r.json)), event |-> r.event,
               through |-> r.through \cap Keys(installed.py)] : r \in rows}
  /\ UNCHANGED <<schema, goOut, pyOut, installed, recorder, engine>>

Next ==
  \/ EditSchema \/ Generate \/ Release
  \/ RestartRecorder \/ RestartEngine
  \/ Record \/ Load

Spec == Init /\ [][Next]_vars

-----------------------------------------------------------------------------

(* docs/schema.md: the engine "can read any recording the recorder          *)
(* produced, including older ones", and additive changes do not break       *)
(* existing recordings.  Holds while what is added is optional: whichever   *)
(* side is restarted first, neither the running engine nor the one it will  *)
(* be replaced by, meets a row that it cannot read.                         *)
ReadsOlderRecordings ==
  (\A i \in DOMAIN schema : ~schema[i].optional => schema[i].key \in Keys(BaseSchema))
    => ~ReadEventsRaises(engine) /\ ~ReadEventsRaises(installed.py)

(* docs/schema.md: both languages serialize an event alike: the same keys   *)
(* in the same order with the same values.  Holds of a release the drift    *)
(* check has passed, for every event that its recorder makes, through its   *)
(* Python and back into its Go.  (The bytes are not the same: SameBytes.)   *)
SameJson ==
  installed.tested =>
    \A r \in rows : r.through = Keys(installed.go) =>
      LET back == ToDict(installed.py, FromDict(installed.py, r.json))
      IN  /\ ~Raises(installed.py, r.json)
          /\ back = r.json /\ GoDecode(installed.go, back) = r.event

(* What any engine reads of a row is what was recorded, as far as the       *)
(* programs the row passed know its fields: a field that is absent, zero or *)
(* empty stays what it was.                                                 *)
NothingLost ==
  \A r \in rows : \A cls \in {engine, installed.py} :
    ~Raises(cls, r.json) =>
      \A k \in r.through \cap Keys(cls) : FromDict(cls, r.json)[k] = r.event[k]

-----------------------------------------------------------------------------
(* What does not hold (README, "Refuted claims"). *)

(* The text of a JSON object: what is not plain each language writes in its *)
(* own way, an accented letter as itself in Go and escaped in Python, the   *)
(* number 1e-7 so in Go and as 1e-07 in Python.                             *)
Bytes(language, json) ==
  LET Spelled(x) == IF x \in Leaf \ Plain THEN <<language, x>> ELSE x
      Flat(o) == [i \in DOMAIN o |-> <<o[i][1], Spelled(o[i][2])>>]
  IN  [i \in DOMAIN json |->
         <<json[i][1], IF json[i][2] \in Leaf THEN Spelled(json[i][2]) ELSE Flat(json[i][2])>>]

(* docs/schema.md: "both languages serialize an event to exactly the same   *)
(* bytes"; codec.go: "the bytes match what other languages (Python)         *)
(* produce".                                                                *)
SameBytes ==
  \A r \in rows : installed.tested /\ r.through = Keys(installed.go) =>
    Bytes("python", ToDict(installed.py, FromDict(installed.py, r.json))) = Bytes("go", r.json)

(* docs/schema.md: "defined once and both sides are generated from it, so   *)
(* they can never drift".                                                   *)
NeverDrift == Keys(installed.go) = Keys(installed.py)

(* docs/schema.md: "additive changes to the schema", with no word that they *)
(* have to be optional.                                                     *)
ReadsWhateverIsAdded == ~ReadEventsRaises(installed.py)
=============================================================================
