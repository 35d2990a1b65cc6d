------------------------------- MODULE Capture -------------------------------
(***************************************************************************)
(* The poller and the graph built from what it writes: does the graph tell *)
(* the truth about the processes?  The store in between is taken to keep   *)
(* order and to lose nothing but its oldest rows.                          *)
(***************************************************************************)
EXTENDS Poller, FileWatchRule, ResourceViews

Graph == Instances(events)

(* "the one CERTAIN edge": the parent of a process whose spawn was observed *)
(* is the process that really was its parent when it was first seen, though *)
(* the parent's pid may have been used before and since, scans may fail or  *)
(* leave processes out, and the oldest events may be gone; if the scan that *)
(* first saw the child saw its parent too (ParentAlwaysTrue is false), and  *)
(* as long as the recorder was not stopped, since it misses exits then.     *)
TrueParent ==
  "stop" \notin faults =>
  LET g == Graph
  IN  \A e \in SpawnEdges(g) :
        e.child.observed /\ e.child.parent # 0 => e.child.parent \in IdsOf(g, e.parent)

(* Once a diff has seen the process that holds a pid, latest_instance of    *)
(* that pid is this process and its node is still open.  (Of a baseline     *)
(* process the store may know an older holder of its pid only.)             *)
LatestIsLive ==
  "stop" \notin faults =>
  LET g == Graph
      Latest(p) == LatestInstance(g, p)
  IN  \A p \in DOMAIN g :
        prev[p].id # 0 /\ prev[p].id = proc[p].id =>
          prev[p].id \in IdsOf(g, Latest(p)) /\ Node(g, Latest(p)).exit_ts = NoExit

(* The lifetimes in the graph are those of the processes, unless a scan     *)
(* left one out.  An instance is closed only when its process is gone, over *)
(* all runs of the recorder; and within one run only the last instance of a *)
(* pid may be open, and the others have ended when the next one begins: two *)
(* processes never hold a pid at once.  Excepted are the instances that a   *)
(* sample opened for a process which no diff and no baseline had yet: it is *)
(* shown twice once its spawn comes (InferredPredatesCapture is false).     *)
Dependable(i) == i.observed \/ i.id \notin early

LifetimesAreTrue ==
  "scan" \notin faults =>
  LET g == Graph
  IN  /\ \A i \in InstanceSet(g) :
           Dependable(i) /\ i.exit_ts # NoExit => \A p \in Pid : proc[p].id # i.id
      /\ faults = {} =>
           \A p \in DOMAIN g :
             \A n \in 1..(Len(g[p]) - 1) :
               Dependable(g[p][n]) => g[p][n].exit_ts \in 0..g[p][n + 1].spawn_ts

(* Over all runs of the recorder, if its scans succeed, a process is        *)
(* reported as spawned at most once and as gone at most once, nothing is    *)
(* reported of it after that, and no spawn of one that was there when a     *)
(* recorder started: "The first snapshot is a baseline (no spawn flood for  *)
(* already-running processes)".  Each new event is held against those that  *)
(* the store has before it.                                                 *)
ReportedOnce ==
  []["scan" \notin faults' =>
     \A j \in (Len(events) + 1)..Len(events') :
       LET before == {events'[i].kind : i \in {k \in 1..(j - 1) : events'[k].id = events'[j].id}}
       IN  /\ "exit" \notin before
           /\ events'[j].kind = "spawn" =>
                before \subseteq {"sample"} /\ events'[j].id \notin baseline']_vars

(* Inspect and the ranking speak of the same samples, though one takes them *)
(* by the lifetime of the latest instance ("THIS instance's live window")   *)
(* and the other asks of every sample which instance it belongs to.         *)
SpikesAgree ==
  LET g == Graph
  IN  \A p \in {c.pid : c \in CpuCards(events)} :
        ProcDetail(events, g, p) = Credited(events, g, LatestInstance(g, p))

(* "crash-loop: many SHORT-LIVED instances of one exe (not long-running     *)
(* worker pools)": as long as the scans succeed, every instance counted is  *)
(* that of another process, and this process is gone.                       *)
CrashLoopsAreReal ==
  "scan" \notin faults =>
  LET counted == CrashLoop(Graph)
  IN  \A i \in counted :
        /\ \A p \in Pid : proc[p].id # i.id
        /\ \A j \in counted : j.id = i.id => j = i

(* _view's slice of the events up to ts. *)
AsOf(ts) == Keep(events, {i \in DOMAIN events : events[i].ts <= ts})

Shown(evs) ==
  LET g == Instances(evs)
  IN  [spawns |-> {<<Key(e.child), e.parent>> : e \in SpawnEdges(g)}, caused |-> Caused(evs, g)]

(* "append-only ts, so a past slice is stable" (server.py): the view of the *)
(* past shows nothing that a later one takes back: no process has another   *)
(* parent then, and no file cause goes away when a file changes again.      *)
(* Compared with the slice that leaves out the last tick; older slices      *)
(* follow step by step.                                                     *)
RewindAgrees ==
  LET past == Shown(AsOf(now - 1))
      current == Shown(events)
  IN  past.spawns \subseteq current.spawns /\ past.caused \subseteq current.caused

(* "The instance of pid==child.ppid that was live at the child's spawn"     *)
(* (spawn.py): as long as a process has its parent, its edge is from it.    *)
ParentAlwaysTrue ==
  "stop" \notin faults =>
  LET g == Graph
  IN  \A e \in SpawnEdges(g) : \A p \in Pid :
        e.child.observed /\ e.child.id = proc[p].id /\ proc[p].ppid # Outside =>
          proc[proc[p].ppid].id \in IdsOf(g, e.parent)

(* "so the two never collapse into one graph node downstream" (diff.go), "a *)
(* reused pid is two distinct nodes" (model.py).                            *)
NeverCollapse == \A k \in Keys(Graph) : Cardinality(IdsOf(Graph, k)) = 1

(* "matching resource.sample events to the correct instance ... (pid-reuse  *)
(* safe)" (attribution.py): the node a sample is credited to was opened by  *)
(* the process that was sampled.                                            *)
SamplesCreditedRight ==
  \A i \in DOMAIN events :
    events[i].kind = "sample" =>
      Node(Graph, InstanceFor(Graph, events[i].pid, events[i].ts)).id = events[i].id

(* A cpu card names one process and counts the samples "across" it          *)
(* (server.py): all of them are that process's.                             *)
OneProcessPerCard ==
  \A c \in CpuCards(events) : \A i \in c.samples : events[i].id = c.process

(* "a file changed shortly before a process that references it started"     *)
(* (file_watch.py): not one that was there before the recorder, and so      *)
(* before every change it saw.                                              *)
CauseComesFirst ==
  "stop" \notin faults => \A k \in Caused(events, Graph) : Node(Graph, k).id \notin baseline

(* CrashLoopsAreReal, whatever the scans do. *)
CrashLoopsAlwaysReal ==
  \A i \in CrashLoop(Graph) : \A p \in Pid : proc[p].id # i.id

(* "starts an inferred one for a process that pre-dated capture"            *)
(* (builder.py).                                                            *)
InferredPredatesCapture ==
  \A i \in InstanceSet(Graph) : ~i.observed => i.id \in baseline

(* "a spawn DAG is acyclic" (traverse.py): nobody is an own ancestor.       *)
SpawnDagIsAcyclic ==
  \A k \in Keys(Graph) :
    \A n \in 1..Cardinality(Keys(Graph)) : Ancestor(Graph, k, n) # k
=============================================================================
