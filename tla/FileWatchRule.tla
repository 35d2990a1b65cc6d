---------------------------- MODULE FileWatchRule ----------------------------
(***************************************************************************)
(* engine/causegraph/graph/edges/file_watch.py with scoring.py: a file that *)
(* changed shortly before a process started that references it is proposed *)
(* as a cause of the process.                                              *)
(*                                                                         *)
(* There is one watched path, and every process names it as its exe or in  *)
(* an argument.  base * provenance * exp(-dt / half_life) falls with dt     *)
(* alone, so a confidence is given by dt, and "at least min_confidence" by  *)
(* the largest dt that reaches it.                                         *)
(***************************************************************************)
EXTENDS CausalGraph

CONSTANTS
  Window,      \* window_ns
  ConfidentDt  \* the largest dt whose confidence is not below min_confidence

ASSUME FileWatchRuleAssumption == Window \in Nat /\ ConfidentDt \in Nat

NoChange == -1

(* The changes of the path, as the FILE node has them. *)
Changes(events) == {events[i].ts : i \in {j \in DOMAIN events : events[j].kind = "file"}}

LatestOf(S) == IF S = {} THEN NoChange ELSE CHOOSE t \in S : \A u \in S : u <= t

(* Looks at the newest change only. *)
NewestChangeWithin(changes, spawn_ts) ==
  LatestOf({t \in changes : /\ \A u \in changes : u <= t
                            /\ t <= spawn_ts /\ spawn_ts - t <= Window})

(* _latest_change_within *)
LatestChangeWithin(changes, spawn_ts) ==
  LatestOf({t \in changes : t <= spawn_ts /\ spawn_ts - t <= Window})

(* propose: the edges FILE -> process, each with its dt. *)
FileEdges(events, insts) ==
  LET changes == Changes(events)
      Latest(i) == LatestChangeWithin(changes, i.spawn_ts)
  IN  {[child |-> Key(i), dt |-> i.spawn_ts - Latest(i)] :
         i \in {j \in InstanceSet(insts) : Latest(j) # NoChange}}

(* traverse.causes, of all nodes: the nodes that are shown with a file cause. *)
Caused(events, insts) == {e.child : e \in {f \in FileEdges(events, insts) : f.dt <= ConfidentDt}}
=============================================================================
