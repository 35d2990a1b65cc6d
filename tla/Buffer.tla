-------------------------------- MODULE Buffer --------------------------------
(***************************************************************************)
(* daemon/internal/pipeline/buffer.go: the bounded, drop-oldest ring       *)
(* buffer shared by the goroutines that ingest events and the one that     *)
(* drains them.  Every operation is a section under b.mu, except that Push *)
(* adds to the overflow counter AFTER it has released the lock: an eviction *)
(* is visible for a while before it is counted.                            *)
(*                                                                         *)
(* An event's payload never matters here, so the n-th event ever pushed is *)
(* named n.                                                                *)
(***************************************************************************)
EXTENDS Integers, Sequences, FiniteSets

CONSTANTS
  Ingester,    \* goroutines that call Push
  BufferSize,  \* cfg.BufferSize, the capacity asked of NewBuffer
  BatchSize    \* cfg.BatchSize, the max passed to PopBatch

ASSUME BufferAssumption ==
  /\ IsFiniteSet(Ingester)
  /\ BufferSize \in Int
  /\ BatchSize \in Int

(* NewBuffer: a capacity below one becomes one. *)
cap == IF BufferSize < 1 THEN 1 ELSE BufferSize

Slot == 0..(cap - 1)

VARIABLES
  buf,              \* the slots; 0 is a slot that was never written
  head,             \* index of the oldest event
  size,             \* how many events are buffered
  droppedOverflow,  \* evictions counted so far
  uncounted,        \* ingesters between b.mu.Unlock and droppedOverflow.Add
  batch             \* what the last PopBatch returned, until it is disposed of

bufferVars == <<buf, head, size, droppedOverflow, uncounted, batch>>

NewBuffer ==
  /\ buf = [i \in Slot |-> 0]
  /\ head = 0
  /\ size = 0
  /\ droppedOverflow = 0
  /\ uncounted = {}
  /\ batch = <<>>

(* The buffered events, oldest first. *)
Contents == [i \in 1..size |-> buf[(head + (i - 1)) % cap]]

(* Evictions that have happened, counted or not. *)
Evictions == droppedOverflow + Cardinality(uncounted)

(* A full buffer is overwritten but head stays on the overwritten slot. *)
PushKeepsHead(w, e) ==
  /\ w \notin uncounted
  /\ IF size = cap
       THEN /\ buf' = [buf EXCEPT ![head] = e]
            /\ uncounted' = uncounted \cup {w}
            /\ UNCHANGED <<head, size>>
       ELSE /\ buf' = [buf EXCEPT ![(head + size) % cap] = e]
            /\ size' = size + 1
            /\ UNCHANGED <<head, uncounted>>
  /\ UNCHANGED <<droppedOverflow, batch>>

(* The locked section of Push.  The caller is back only after CountEviction, *)
(* so an ingester whose eviction is uncounted pushes nothing.                *)
Push(w, e) ==
  /\ w \notin uncounted
  /\ \/ /\ size = cap
        /\ buf' = [buf EXCEPT ![head] = e]
        /\ head' = (head + 1) % cap
        /\ uncounted' = uncounted \cup {w}
        /\ UNCHANGED size
     \/ /\ size # cap
        /\ buf' = [buf EXCEPT ![(head + size) % cap] = e]
        /\ size' = size + 1
        /\ UNCHANGED <<head, uncounted>>
  /\ UNCHANGED <<droppedOverflow, batch>>

(* b.droppedOverflow.Add(1), outside the lock: a read and a write in one. *)
CountEviction(w) ==
  /\ w \in uncounted
  /\ uncounted' = uncounted \ {w}
  /\ droppedOverflow' = droppedOverflow + 1
  /\ UNCHANGED <<buf, head, size, batch>>

(* How many events a PopBatch removes. *)
PopCount == IF BatchSize < 1 THEN 0 ELSE IF size > BatchSize THEN BatchSize ELSE size

PopBatch ==
  /\ batch' = [i \in 1..PopCount |-> buf[(head + (i - 1)) % cap]]
  /\ head' = (head + PopCount) % cap
  /\ size' = size - PopCount
  /\ UNCHANGED <<buf, droppedOverflow, uncounted>>
=============================================================================
