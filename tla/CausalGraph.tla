----------------------------- MODULE CausalGraph -----------------------------
(***************************************************************************)
(* engine/causegraph/graph: the process part of the graph that builder.py, *)
(* edges/spawn.py, attribution.py and traverse.py make of a list of events. *)
(* Pure functions of the list, as in the code.                             *)
(*                                                                         *)
(* An event carries what these functions look at (kind, pid, ppid, ts) and *)
(* two fields the code has no access to, for the properties only: id, the  *)
(* process the event is really about, and parent, the process that really  *)
(* was its parent when the event was taken (0 if none of those scanned).   *)
(***************************************************************************)
EXTENDS Integers, Sequences, FiniteSets, Lists

NoExit == -1  \* exit_ts = None
NoKey == <<>> \* no such node

(* sorted(events, key=ts): stable within equal ts. *)
SortedByTs(events) ==
  LET Insert(s, e) == Keep(s, {i \in DOMAIN s : s[i].ts <= e.ts}) \o <<e>>
                        \o Keep(s, {i \in DOMAIN s : s[i].ts > e.ts})
      sorted[n \in 0..Len(events)] == IF n = 0 THEN <<>> ELSE Insert(sorted[n - 1], events[n])
  IN  sorted[Len(events)]

(* The events of one pid in a sorted list. *)
OfPid(sorted, pid) == Keep(sorted, {i \in DOMAIN sorted : sorted[i].pid = pid})

(* A file.change is no process event: its actor is the sentinel pid 0. *)
PidsOf(events) == {events[i].pid : i \in {j \in DOMAIN events : events[j].kind # "file"}}

(* Event i of a pid opens an instance: a spawn does, and so does any event  *)
(* when there is no current instance (none yet, or an exit closed it).      *)
Opens(evs, i) == i = 1 \/ evs[i].kind = "spawn" \/ evs[i - 1].kind = "exit"

(* _segment: the instances of one pid, in order; id is the process whose    *)
(* event opened the instance, ids are those whose events went into it.      *)
Segment(evs) ==
  LET ExitTs(e, else) == IF e.kind = "exit" THEN e.ts ELSE else
      New(e) == [pid |-> e.pid, ppid |-> e.ppid, spawn_ts |-> e.ts, exit_ts |-> ExitTs(e, NoExit),
                 observed |-> e.kind = "spawn", parent |-> e.parent, id |-> e.id, ids |-> {e.id}]
      With(i, e) == [i EXCEPT !.exit_ts = ExitTs(e, @), !.ids = @ \cup {e.id}]
      seg[n \in 0..Len(evs)] ==
        IF n = 0 THEN <<>>
        ELSE LET s == seg[n - 1]
             IN  IF Opens(evs, n) THEN Append(s, New(evs[n]))
                 ELSE [s EXCEPT ![Len(s)] = With(@, evs[n])]
  IN  seg[Len(evs)]

(* by_pid: every pid's instances in order of spawn_ts. *)
Instances(events) ==
  LET sorted == SortedByTs(events)
  IN  [pid \in PidsOf(events) |-> Segment(OfPid(sorted, pid))]

InstanceSet(insts) == UNION {{insts[p][n] : n \in DOMAIN insts[p]} : p \in DOMAIN insts}

Key(inst) == <<inst.pid, inst.spawn_ts>>

Keys(insts) == {Key(i) : i \in InstanceSet(insts)}

(* add_node under a key that is there already replaces its attributes: the  *)
(* node shows the last of the instances with that key.                      *)
Node(insts, key) ==
  LET list == insts[key[1]]
      n == CHOOSE m \in DOMAIN list : /\ Key(list[m]) = key
                                      /\ \A k \in DOMAIN list : Key(list[k]) = key => k <= m
  IN  list[n]

(* The processes a node stands for. *)
IdsOf(insts, key) == UNION {i.ids : i \in {j \in InstanceSet(insts) : Key(j) = key}}

-----------------------------------------------------------------------------
(* edges/spawn.py *)

Candidates(insts, child) ==
  IF child.ppid \in DOMAIN insts THEN {insts[child.ppid][n] : n \in DOMAIN insts[child.ppid]}
  ELSE {}

(* Takes the first instance of the parent's pid. *)
EarliestParent(insts, child) ==
  LET before == {p \in Candidates(insts, child) : p.spawn_ts <= child.spawn_ts}
  IN  IF child.ppid = child.pid \/ before = {} THEN NoKey
      ELSE Key(CHOOSE p \in before : \A q \in before : p.spawn_ts <= q.spawn_ts)

(* propose and _parent_live_at: the latest instance of ppid that was there  *)
(* at the child's spawn; for a child whose own start is inferred, failing   *)
(* that, the instance nearest in time, which is the earliest one since all  *)
(* of them are later.  exit_ts is not looked at.                            *)
ParentLiveAt(insts, child) ==
  LET all == Candidates(insts, child)
      before == {p \in all : p.spawn_ts <= child.spawn_ts}
  IN  IF child.ppid = child.pid \/ all = {} THEN NoKey
      ELSE IF before # {} THEN Key(CHOOSE p \in before : \A q \in before : q.spawn_ts <= p.spawn_ts)
      ELSE IF child.observed THEN NoKey
      ELSE Key(CHOOSE p \in all : \A q \in all : p.spawn_ts <= q.spawn_ts)

(* The spawn edges, with the instance each was proposed for. *)
SpawnEdges(insts) ==
  {e \in {[child |-> c, parent |-> ParentLiveAt(insts, c)] : c \in InstanceSet(insts)} :
     e.parent # NoKey}

-----------------------------------------------------------------------------
(* attribution.py *)

(* _instance_for: the latest instance whose [spawn_ts, exit_ts) holds ts,   *)
(* else the latest one begun by then, else the first.                       *)
InstanceFor(insts, pid, ts) ==
  LET list == insts[pid]
      begun == {n \in DOMAIN list : list[n].spawn_ts <= ts}
      open == {n \in begun : LET x == Node(insts, Key(list[n])).exit_ts
                             IN  x = NoExit \/ ts < x}
      Latest(S) == CHOOSE n \in S : \A m \in S : m <= n
  IN  Key(list[IF open # {} THEN Latest(open) ELSE IF begun # {} THEN Latest(begun) ELSE 1])

-----------------------------------------------------------------------------
(* traverse.py *)

(* latest_instance *)
LatestInstance(insts, pid) ==
  LET list == insts[pid]
  IN  Key(CHOOSE i \in {list[n] : n \in DOMAIN list} :
            \A m \in DOMAIN list : list[m].spawn_ts <= i.spawn_ts)

(* parent_of: a spawn predecessor; all of them have confidence 1.0. *)
ParentOf(insts, key) ==
  LET preds == {e.parent : e \in {x \in SpawnEdges(insts) : Key(x.child) = key}}
  IN  IF preds = {} THEN NoKey ELSE CHOOSE p \in preds : TRUE

(* The node n steps root-ward of key; ancestry_path lists them and stops    *)
(* where the chain ends or comes back to a node it has listed.              *)
Ancestor(insts, key, n) ==
  LET up[k \in 0..n] == IF k = 0 THEN key
                        ELSE IF up[k - 1] = NoKey THEN NoKey
                        ELSE ParentOf(insts, up[k - 1])
  IN  up[n]
=============================================================================
