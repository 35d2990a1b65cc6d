---------------------------- MODULE ResourceViews ----------------------------
(***************************************************************************)
(* What three views make of the resource samples and the lifetimes in the  *)
(* graph: annotate (attribution.py) credits each sample to a node, and      *)
(* proc_detail and incidents (server.py) go through the samples again.     *)
(* Peaks, averages and series are functions of the set of samples, so each *)
(* view is given by the set of samples it uses (their positions in the      *)
(* event list), and a sample has a cpu value that is hot.                   *)
(***************************************************************************)
EXTENDS CausalGraph

CONSTANT ShortLife  \* the lifetime below which an instance may be part of a crash loop

ASSUME ResourceViewsAssumption == ShortLife \in Nat

SamplesOfPid(events, pid) ==
  {i \in DOMAIN events : events[i].kind = "sample" /\ events[i].pid = pid}

(* annotate: the samples that went into the peak_* and latest_* of a node. *)
Credited(events, insts, key) ==
  {i \in SamplesOfPid(events, key[1]) : InstanceFor(insts, key[1], events[i].ts) = key}

(* Without the lower end of the window. *)
DetailToExit(events, insts, pid) ==
  LET n == Node(insts, LatestInstance(insts, pid))
  IN  {i \in SamplesOfPid(events, pid) : n.exit_ts = NoExit \/ events[i].ts <= n.exit_ts}

(* proc_detail: the samples shown for the latest instance of the pid. *)
ProcDetail(events, insts, pid) ==
  LET n == Node(insts, LatestInstance(insts, pid))
  IN  {i \in SamplesOfPid(events, pid) :
         /\ events[i].ts >= n.spawn_ts
         /\ n.exit_ts = NoExit \/ events[i].ts <= n.exit_ts}

(* incidents, its cpu cards: one for each pid, which names the process of   *)
(* the pid's first sample.                                                  *)
CpuCards(events) ==
  {[pid |-> p, samples |-> SamplesOfPid(events, p),
    process |-> events[CHOOSE i \in SamplesOfPid(events, p) :
                         \A j \in SamplesOfPid(events, p) : i <= j].id] :
     p \in {q \in PidsOf(events) : SamplesOfPid(events, q) # {}}}

(* incidents, its crash loops: the instances that are counted. *)
CrashLoop(insts) ==
  {i \in InstanceSet(insts) :
     i.observed /\ i.exit_ts # NoExit /\ i.exit_ts - i.spawn_ts < ShortLife}
=============================================================================
