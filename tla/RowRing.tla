------------------------------- MODULE RowRing -------------------------------
(***************************************************************************)
(* What the event store promises its readers: an append-only log of which  *)
(* a contiguous, newest part is kept.  Row n is log[n] for ever; rows only *)
(* go away at the old end, and only to make room for newer ones.  The      *)
(* readers lean on it: the API's cache trims "that contiguous front" by    *)
(* counting sequence numbers (api/server.py).                              *)
(***************************************************************************)
EXTENDS Naturals, Sequences

CONSTANT Caps  \* the caps (-max-rows) the recorder may be run with

VARIABLES
  log,  \* every row ever committed; its position is its seq
  low   \* the oldest row still kept; Len(log) + 1 when none is

rrvars == <<log, low>>

RRInit == log = <<>> /\ low = 1

(* A batch goes in whole.  Under a cap of k the rows kept are the k newest  *)
(* of those there were, never fewer.                                        *)
Write ==
  /\ Len(log) < Len(log')
  /\ SubSeq(log', 1, Len(log)) = log
  /\ \E k \in Caps :
       low' = IF low + k > Len(log') THEN low ELSE (Len(log') - k) + 1

RRSpec == RRInit /\ [][Write]_rrvars
=============================================================================
