------------------------------- MODULE MCService -------------------------------
(* Service for TLC: the terminals are interchangeable, and so are the pids. *)
EXTENDS Service, TLC

ServiceSymmetry == Permutations(Client) \cup Permutations(Pid)

(* Each property excepts overlapping commands, and each is silent on a       *)
(* behaviour with a late recorder and a cut stop or a failure: such a        *)
(* behaviour is not followed further.                                        *)
Relevant ==
  /\ "overlap" \notin mishaps
  /\ "late" \in mishaps => mishaps \cap {"cut", "failure"} = {}
=============================================================================
