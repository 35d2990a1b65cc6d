------------------------------- MODULE Pipeline -------------------------------
(***************************************************************************)
(* daemon/internal/pipeline/pipeline.go: goroutines Ingest into the ring   *)
(* buffer while one goroutine, Run, drains it into the sink in batches, on *)
(* a timer and once more when its context is cancelled.  A batch the sink  *)
(* refuses is counted and dropped, never retried.  The sink is the Store   *)
(* module's transaction, which either takes a batch whole or not at all.   *)
(***************************************************************************)
EXTENDS Buffer

CONSTANT MaxIngest  \* bound: events ingested in one behaviour

ASSUME MaxIngestAssumption == MaxIngest \in Nat

VARIABLES
  drain,              \* where Run is: "select", "pop", "write" or "returned"
  flushing,           \* Run is in the drainAll of the ctx.Done() case
  cancelled,          \* Run's context is cancelled
  droppedWriteError,  \* events of refused batches
  ingested,           \* history: events ingested so far
  ingestedAtCancel,   \* history: value of ingested when the context was cancelled
  stored              \* history: events the sink has committed, in order

drainVars == <<drain, flushing, cancelled>>
historyVars == <<ingested, ingestedAtCancel, stored>>
pipelineVars == <<bufferVars, drainVars, droppedWriteError, historyVars>>

Init ==
  /\ NewBuffer
  /\ drain = "select" /\ flushing = FALSE /\ cancelled = FALSE
  /\ droppedWriteError = 0
  /\ ingested = 0 /\ ingestedAtCancel = 0 /\ stored = <<>>

-----------------------------------------------------------------------------

Ingest(w) ==
  /\ ingested < MaxIngest
  /\ Push(w, ingested + 1)
  /\ ingested' = ingested + 1
  /\ UNCHANGED <<drainVars, droppedWriteError, ingestedAtCancel, stored>>

(* The rest of Push: the ingester returns to its caller. *)
FinishIngest(w) ==
  /\ CountEviction(w)
  /\ UNCHANGED <<drainVars, droppedWriteError, historyVars>>

Cancel ==
  /\ ~cancelled
  /\ cancelled' = TRUE
  /\ ingestedAtCancel' = ingested
  /\ UNCHANGED <<bufferVars, drain, flushing, droppedWriteError, ingested, stored>>

(* Waits for a full batch instead of flushing whatever is there. *)
TickOnFullBatch ==
  /\ drain = "select"
  /\ size >= BatchSize
  /\ drain' = "pop"
  /\ UNCHANGED <<bufferVars, flushing, cancelled, droppedWriteError, historyVars>>

(* select takes the ticker's case; a Go select picks any ready case, so the *)
(* tick may win even when the context is cancelled.                         *)
Tick ==
  /\ drain = "select"
  /\ drain' = "pop"
  /\ UNCHANGED <<bufferVars, flushing, cancelled, droppedWriteError, historyVars>>

(* Returns on cancellation without the final flush. *)
StopWithoutFlush ==
  /\ drain = "select"
  /\ cancelled
  /\ drain' = "returned"
  /\ UNCHANGED <<bufferVars, flushing, cancelled, droppedWriteError, historyVars>>

(* select takes ctx.Done(): one last drainAll. *)
Stop ==
  /\ drain = "select"
  /\ cancelled
  /\ drain' = "pop"
  /\ flushing' = TRUE
  /\ UNCHANGED <<bufferVars, cancelled, droppedWriteError, historyVars>>

(* drainAll: an empty batch ends the loop. *)
Pop ==
  /\ drain = "pop"
  /\ PopBatch
  /\ drain' = IF PopCount = 0 THEN IF flushing THEN "returned" ELSE "select" ELSE "write"
  /\ UNCHANGED <<flushing, cancelled, droppedWriteError, historyVars>>

WriteOk ==
  /\ drain = "write"
  /\ stored' = stored \o batch
  /\ batch' = <<>>
  /\ drain' = "pop"
  /\ UNCHANGED <<buf, head, size, droppedOverflow, uncounted, flushing, cancelled,
                 droppedWriteError, ingested, ingestedAtCancel>>

(* Counts the refused batch as one dropped event. *)
WriteErrorCountsBatch ==
  /\ drain = "write"
  /\ droppedWriteError' = droppedWriteError + 1
  /\ batch' = <<>>
  /\ drain' = "pop"
  /\ UNCHANGED <<buf, head, size, droppedOverflow, uncounted, flushing, cancelled, historyVars>>

WriteError ==
  /\ drain = "write"
  /\ droppedWriteError' = droppedWriteError + Len(batch)
  /\ batch' = <<>>
  /\ drain' = "pop"
  /\ UNCHANGED <<buf, head, size, droppedOverflow, uncounted, flushing, cancelled, historyVars>>

Run == Tick \/ Stop \/ Pop \/ WriteOk \/ WriteError

Next ==
  \/ \E w \in Ingester : Ingest(w) \/ FinishIngest(w)
  \/ Cancel
  \/ Run

Spec == Init /\ [][Next]_pipelineVars

(* Run's goroutine is always scheduled again, its ticker keeps ticking and *)
(* WriteBatch returns (busy_timeout bounds the wait for the database), so   *)
(* a step of Run that stays possible is taken.                              *)
FairSpec == Spec /\ WF_pipelineVars(Run)

-----------------------------------------------------------------------------

TypeOK ==
  /\ buf \in [Slot -> Nat]
  /\ head \in Slot
  /\ size \in 0..cap
  /\ droppedOverflow \in Nat
  /\ uncounted \subseteq Ingester
  /\ batch \in Seq(Nat)
  /\ drain \in {"select", "pop", "write", "returned"}
  /\ flushing \in BOOLEAN
  /\ cancelled \in BOOLEAN
  /\ droppedWriteError \in Nat
  /\ ingested \in Nat
  /\ ingestedAtCancel \in Nat
  /\ stored \in Seq(Nat)

(* Every ingested event is in exactly one place: buffered, in the batch Run *)
(* holds, committed, evicted, or dropped with a refused batch.  The two     *)
(* drop counters together tell the whole loss, up to the evictions not yet  *)
(* counted (the conservation buffer_test.go checks after the goroutines     *)
(* have stopped, here at every instant).                                    *)
Conservation ==
  ingested = size + Len(batch) + Len(stored) + Evictions + droppedWriteError

(* The buffered events are the newest ones, consecutive and in order: what  *)
(* Push gives up is always the oldest, wherever head stands in the ring and *)
(* however PopBatch interleaves with it.                                    *)
NewestRetained ==
  \A i \in 1..size : Contents[i] = ingested - size + i

(* The sink receives events in the order they were ingested, none twice,    *)
(* across batches, refused batches and evictions.                           *)
StoredInOrder ==
  LET seen == stored \o batch \o Contents
  IN  \A i, j \in DOMAIN seen : i < j => seen[i] < seen[j]

(* "does a final flush so a clean shutdown (SIGINT) loses nothing already   *)
(* buffered": when Run has returned, the buffer holds nothing that had been *)
(* ingested when the context was cancelled.                                 *)
FlushedOnReturn ==
  drain = "returned" => \A i \in 1..size : Contents[i] > ingestedAtCancel

(* "draining continues so a broken store cannot wedge the pipeline": an     *)
(* event that is buffered leaves the buffer, whatever the sink answers,     *)
(* unless Run has returned.                                                 *)
BufferedEventLeaves ==
  \A n \in 1..MaxIngest :
    (\E i \in 1..size : Contents[i] = n) ~>
       (drain = "returned" \/ \A i \in 1..size : Contents[i] # n)

(* The ring, its lagging counter and the drain loop behave as the           *)
(* drop-oldest queue the package promises.                                  *)
Queue == INSTANCE DropOldestQueue WITH
  Capacity <- cap, queue <- Contents, handed <- batch,
  arrived <- ingested, evicted <- Evictions

ImplementsDropOldestQueue == Queue!DQSpec
=============================================================================
