--------------------------- MODULE DropOldestQueue ---------------------------
(***************************************************************************)
(* What the recorder's in-memory buffer promises its clients, without      *)
(* saying how: a FIFO queue of at most Capacity events that never refuses  *)
(* a new event and makes room by giving up the OLDEST one ("it drops the   *)
(* OLDEST event, never the newest", package comment of buffer.go).         *)
(* Pipeline implements it with a ring of slots and a counter that is       *)
(* brought up to date after the lock is released.                          *)
(***************************************************************************)
EXTENDS Naturals, Sequences

CONSTANTS Capacity, BatchSize

VARIABLES
  queue,    \* the buffered events, oldest first
  handed,   \* the batch the drainer holds
  arrived,  \* how many events have been put; the n-th event put is named n
  evicted   \* how many events have been given up to make room

dvars == <<queue, handed, arrived, evicted>>

DQInit == queue = <<>> /\ handed = <<>> /\ arrived = 0 /\ evicted = 0

(* A put always succeeds at once. *)
Put ==
  /\ arrived' = arrived + 1
  /\ \/ /\ Len(queue) < Capacity
        /\ queue' = Append(queue, arrived + 1)
        /\ UNCHANGED evicted
     \/ /\ Len(queue) = Capacity
        /\ queue' = Append(Tail(queue), arrived + 1)
        /\ evicted' = evicted + 1
  /\ UNCHANGED handed

(* The drainer takes the oldest events, at most a batch of them, in order. *)
Take ==
  /\ handed = <<>>
  /\ \E n \in 1..Len(queue) :
       /\ n <= BatchSize
       /\ n = Len(queue) \/ n = BatchSize
       /\ handed' = SubSeq(queue, 1, n)
       /\ queue' = SubSeq(queue, n + 1, Len(queue))
  /\ UNCHANGED <<arrived, evicted>>

(* The batch has been written to the store or given up. *)
Release ==
  /\ handed' = <<>>
  /\ UNCHANGED <<queue, arrived, evicted>>

DQNext == Put \/ Take \/ Release

DQSpec == DQInit /\ [][DQNext]_dvars
=============================================================================
