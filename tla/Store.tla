-------------------------------- MODULE Store --------------------------------
(***************************************************************************)
(* daemon/internal/store/sqlite.go: the events table as a ring of rows.    *)
(* WriteBatch inserts a batch and deletes the rows past the cap in one     *)
(* transaction; any error rolls it back, and the process may die at any    *)
(* point and be started again, with another -max-rows.  SQLite's WAL makes *)
(* the transaction atomic: readers and a restarted recorder see `table`,   *)
(* never `txTable`.                                                        *)
(***************************************************************************)
EXTENDS Integers, Sequences, FiniteSets

CONSTANTS
  Caps,       \* the values -max-rows is given over the life of the file
  BatchMax,   \* bound: events in one WriteBatch
  MaxEvents   \* bound: events handed to WriteBatch in one behaviour

ASSUME StoreAssumption ==
  /\ Caps \subseteq Nat
  /\ BatchMax \in Nat
  /\ MaxEvents \in Nat

VARIABLES
  table,      \* committed rows: a function from seq to event
  autoSeq,    \* committed AUTOINCREMENT counter: the last seq given out
  maxRows,    \* s.maxRows
  pc,         \* "closed", "idle", "insert", "evict" or "commit"
  given,      \* the events WriteBatch was called with
  todo,       \* the ones not inserted yet
  txTable,    \* the table as the open transaction sees it
  txSeq,      \* the counter as the open transaction sees it
  fits,       \* history: this process has committed a batch
  handedIn,   \* history: events handed to WriteBatch so far; the n-th is n
  log         \* history: every event ever committed, in seq order

tx == <<given, todo, txTable, txSeq>>
vars == <<table, autoSeq, maxRows, pc, tx, fits, handedIn, log>>

NoRows == [s \in {} |-> 0]

(* SELECT COALESCE(MAX(seq), 0) *)
MaxSeq(t) ==
  IF DOMAIN t = {} THEN 0
  ELSE CHOOSE m \in DOMAIN t : \A s \in DOMAIN t : s <= m

Keep(t, S) == [s \in S |-> t[s]]

StoreInit ==
  /\ table = NoRows /\ autoSeq = 0 /\ log = <<>>
  /\ maxRows \in Caps
  /\ pc = "closed" /\ fits = FALSE
  /\ given = <<>> /\ todo = <<>> /\ txTable = NoRows /\ txSeq = 0
  /\ handedIn = 0

-----------------------------------------------------------------------------

(* OpenSQLite: CREATE ... IF NOT EXISTS leaves an existing table as it is. *)
OpenSQLite ==
  /\ pc = "closed"
  /\ pc' = "idle"
  /\ maxRows' \in Caps
  /\ fits' = FALSE
  /\ UNCHANGED <<table, autoSeq, tx, handedIn, log>>

(* WriteBatch up to Prepare; an empty batch returns before it begins. *)
Begin ==
  /\ pc = "idle"
  /\ \E n \in 1..BatchMax :
       /\ handedIn + n <= MaxEvents
       /\ given' = [i \in 1..n |-> handedIn + i]
       /\ handedIn' = handedIn + n
  /\ todo' = given'
  /\ txTable' = table
  /\ txSeq' = autoSeq
  /\ pc' = "insert"
  /\ UNCHANGED <<table, autoSeq, maxRows, fits, log>>

(* One INSERT: AUTOINCREMENT gives the row the next seq. *)
Insert ==
  /\ pc = "insert"
  /\ todo # <<>>
  /\ txTable' = [s \in DOMAIN txTable \cup {txSeq + 1} |->
                   IF s = txSeq + 1 THEN Head(todo) ELSE txTable[s]]
  /\ txSeq' = txSeq + 1
  /\ todo' = Tail(todo)
  /\ pc' = IF Len(todo) = 1 THEN "evict" ELSE "insert"
  /\ UNCHANGED <<table, autoSeq, maxRows, given, fits, handedIn, log>>

(* Counts the rows there are instead of going by the highest seq. *)
EvictByCount ==
  /\ pc = "evict"
  /\ txTable' = Keep(txTable, {s \in DOMAIN txTable : s > Cardinality(DOMAIN txTable) - maxRows})
  /\ pc' = "commit"
  /\ UNCHANGED <<table, autoSeq, maxRows, given, todo, txSeq, fits, handedIn, log>>

(* DELETE FROM events WHERE seq <= MAX(seq) - maxRows *)
Evict ==
  /\ pc = "evict"
  /\ txTable' = Keep(txTable, {s \in DOMAIN txTable : s > MaxSeq(txTable) - maxRows})
  /\ pc' = "commit"
  /\ UNCHANGED <<table, autoSeq, maxRows, given, todo, txSeq, fits, handedIn, log>>

Commit ==
  /\ pc = "commit"
  /\ table' = txTable
  /\ autoSeq' = txSeq
  /\ log' = log \o given
  /\ fits' = TRUE
  /\ pc' = "idle"
  /\ UNCHANGED <<maxRows, tx, handedIn>>

(* An error after the inserts is returned without undoing them. *)
FailKeepsInserts ==
  /\ pc \in {"insert", "evict", "commit"}
  /\ table' = txTable
  /\ autoSeq' = txSeq
  /\ pc' = "idle"
  /\ UNCHANGED <<maxRows, tx, fits, handedIn, log>>

(* The rows are undone, the seqs given out are not. *)
FailBurnsSeqs ==
  /\ pc \in {"insert", "evict", "commit"}
  /\ autoSeq' = txSeq
  /\ pc' = "idle"
  /\ UNCHANGED <<table, maxRows, tx, fits, handedIn, log>>

(* Any error: Prepare, an event Encode refuses, INSERT, DELETE or COMMIT.   *)
(* The deferred Rollback undoes the rows and the AUTOINCREMENT counter.     *)
Fail ==
  /\ pc \in {"insert", "evict", "commit"}
  /\ pc' = "idle"
  /\ UNCHANGED <<table, autoSeq, maxRows, tx, fits, handedIn, log>>

(* Close after the pipeline stopped, or the process is killed anywhere.     *)
CloseStore ==
  /\ pc # "closed"
  /\ pc' = "closed"
  /\ UNCHANGED <<table, autoSeq, maxRows, tx, fits, handedIn, log>>

WriteBatch == Begin \/ Insert \/ Evict \/ Commit \/ Fail

StoreNext == OpenSQLite \/ WriteBatch \/ CloseStore

StoreSpec == StoreInit /\ [][StoreNext]_vars

-----------------------------------------------------------------------------

IsRows(t) == DOMAIN t \subseteq Nat \ {0} /\ t \in [DOMAIN t -> Nat]

StoreTypeOK ==
  /\ IsRows(table)
  /\ autoSeq \in Nat
  /\ maxRows \in Caps
  /\ pc \in {"closed", "idle", "insert", "evict", "commit"}
  /\ given \in Seq(Nat)
  /\ todo \in Seq(Nat)
  /\ IsRows(txTable)
  /\ txSeq \in Nat
  /\ fits \in BOOLEAN
  /\ handedIn \in Nat
  /\ log \in Seq(Nat)

(* The seq of the oldest row kept; autoSeq + 1 when there is none. *)
Oldest == (autoSeq + 1) - Cardinality(DOMAIN table)

(* The seqs in the store are an unbroken run that ends at the last seq ever *)
(* given out, whatever batches failed, however the recorder died and       *)
(* however the cap changed in between; and row s holds the s-th event ever *)
(* committed.  max_seq and min_seq in reader.py, and the cache arithmetic  *)
(* built on them, need no less.                                            *)
UnbrokenNewestRows ==
  /\ autoSeq = Len(log)
  /\ DOMAIN table = Oldest..autoSeq
  /\ \A s \in DOMAIN table : table[s] = log[s]

(* "an interrupt between batches always leaves row count <= maxRows": once  *)
(* this process has committed a batch, and however it is then interrupted.  *)
WithinCap ==
  fits => Cardinality(DOMAIN table) <= maxRows

(* "keeps exactly the newest maxRows rows": a step that makes a row         *)
(* disappear leaves exactly the cap behind, so no row is ever evicted that  *)
(* the cap had room for.                                                    *)
EvictsOnlyForCap ==
  [][~(DOMAIN table \subseteq DOMAIN table') => Cardinality(DOMAIN table') = maxRows]_vars

(* Rows never change once committed, and a seq is never used twice.         *)
Rows == INSTANCE RowRing WITH low <- Oldest

ImplementsRowRing == Rows!RRSpec
=============================================================================
