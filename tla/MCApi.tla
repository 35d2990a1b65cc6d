-------------------------------- MODULE MCApi --------------------------------
(* The requests: views of now and of the past, and one of every other kind. *)
EXTENDS Api

MCCalls ==
  { [route |-> "graph", as_of |-> Now], [route |-> "proc", as_of |-> 1],
    [route |-> "incidents", as_of |-> 2], [route |-> "all", as_of |-> Now],
    [route |-> "nopid", as_of |-> 2] }
  \cup { [route |-> r, as_of |-> Now] : r \in {"static", "meta", "window", "kill"} }
=============================================================================
