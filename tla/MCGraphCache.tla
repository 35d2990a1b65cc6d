----------------------------- MODULE MCGraphCache -----------------------------
(* GraphCache for TLC: the request threads are interchangeable. *)
EXTENDS GraphCache, TLC

ThreadSymmetry == Permutations(Thread)
=============================================================================
