-------------------------------- MODULE Poller --------------------------------
(***************************************************************************)
(* daemon/internal/collector/generic: the process list is scanned again    *)
(* and again while processes come and go; two consecutive scans are        *)
(* diffed into spawn and exit events, and a slower scan adds resource      *)
(* samples of the processes above a threshold.  The recorder may be        *)
(* stopped and started; it keeps nothing but the events it has written.    *)
(*                                                                         *)
(* A scan is one step, and may leave out any of the processes: those that  *)
(* cannot be read, or all of them if the list cannot.  Process creation    *)
(* times are taken to be distinct (id), so createNs tells processes with   *)
(* one pid apart.                                                          *)
(***************************************************************************)
EXTENDS CausalGraph

CONSTANTS
  MaxPid,       \* the highest pid there is
  Pid,          \* the pids watched
  Busy,         \* the pids whose process may be above a sampling threshold
  ScanMayFail,  \* process.Processes() may return an error, and so may Ppid or CreateTime
  Evicting,     \* the store is at its cap
  MaxForks,     \* bound: processes ever created
  MaxScans      \* bound: scans and file changes, and so timestamps

ASSUME PollerAssumption ==
  /\ MaxPid \in Nat /\ Pid \subseteq 1..MaxPid /\ Busy \subseteq Pid
  /\ ScanMayFail \in BOOLEAN /\ Evicting \in BOOLEAN
  /\ {MaxForks, MaxScans} \subseteq Nat

VARIABLES
  proc,     \* the process behind each pid, or Free
  forks,    \* how many processes were ever created; the n-th has id n
  now,      \* wall clock: one tick per scan or file change
  running,  \* the recorder is running and has its baseline
  prev,     \* the snapshot the next diff compares with
  baseline, \* history: ids of the processes there when the recorder started
  early,    \* history: ids of the processes sampled before a diff or a baseline had them
  faults,   \* history: "scan" once a scan left one out, "stop" once the recorder was stopped
  events    \* what the store holds, in seq order

vars == <<proc, forks, now, running, prev, baseline, early, faults, events>>

Outside == 0  \* as ppid: pid 1 or a pid not watched; never in the event list

Free == [id |-> 0, ppid |-> Outside]
Live == {p \in Pid : proc[p].id # 0}
NoProcess == [p \in Pid |-> Free]

Init ==
  /\ proc = NoProcess /\ forks = 0
  /\ now = 0
  /\ running = FALSE /\ prev = NoProcess /\ baseline = {}
  /\ early = {} /\ faults = {}
  /\ events = <<>>

-----------------------------------------------------------------------------
(* The operating system. *)

Fork(parent, p) ==
  /\ forks < MaxForks
  /\ p \in Pid \ Live
  /\ parent \in Live \cup {Outside}
  /\ proc' = [proc EXCEPT ![p] = [id |-> forks + 1, ppid |-> parent]]
  /\ forks' = forks + 1
  /\ UNCHANGED <<now, running, prev, baseline, early, faults, events>>

(* The children of a process that exits pass to init. *)
Exit(p) ==
  /\ p \in Live
  /\ proc' = [q \in Pid |-> IF q = p THEN Free
                            ELSE IF proc[q].ppid = p THEN [proc[q] EXCEPT !.ppid = Outside]
                            ELSE proc[q]]
  /\ UNCHANGED <<forks, now, running, prev, baseline, early, faults, events>>

-----------------------------------------------------------------------------

(* An event about process x under pid p, as the scan at ts saw it; parent is *)
(* 0 if that scan did not see the parent.                                   *)
EventOf(kind, p, x, ts, scan) ==
  [kind |-> kind, pid |-> p, ppid |-> x.ppid, ts |-> ts, id |-> x.id,
   parent |-> IF x.ppid = Outside THEN 0 ELSE scan[x.ppid].id]

(* sortedPids *)
Sorted(pids) == Keep([n \in 1..MaxPid |-> n], pids)

(* The snapshot is a Go map: its range is in any order. *)
Arrangements(pids) ==
  {list \in [1..Cardinality(pids) -> pids] : \A p \in pids : \E i \in DOMAIN list : list[i] = p}

SampleEvents(scan, list, ts) ==
  [i \in DOMAIN list |-> EventOf("sample", list[i], scan[list[i]], ts, scan)]

(* Compares pids only. *)
DiffByPid(old, cur, ts) ==
  LET born == Sorted({p \in Pid : old[p].id = 0 /\ cur[p].id # 0})
      gone == Sorted({p \in Pid : old[p].id # 0 /\ cur[p].id = 0})
  IN  [i \in DOMAIN born |-> EventOf("spawn", born[i], cur[born[i]], ts, cur)]
      \o [i \in DOMAIN gone |-> EventOf("exit", gone[i], old[gone[i]], ts, old)]

(* The spawns first, then the exits. *)
DiffSpawnsFirst(old, cur, ts) ==
  LET born == Sorted({p \in Pid : cur[p].id \notin {0, old[p].id}})
      gone == Sorted({p \in Pid : old[p].id \notin {0, cur[p].id}})
  IN  [i \in DOMAIN born |-> EventOf("spawn", born[i], cur[born[i]], ts, cur)]
      \o [i \in DOMAIN gone |-> EventOf("exit", gone[i], old[gone[i]], ts, old)]

(* diff: in pid order the new processes, each reused pid as an exit and a   *)
(* spawn, then the exits of the pids that are gone.                         *)
Diff(old, cur, ts) ==
  LET New(p) ==
        IF cur[p].id \in {0, old[p].id} THEN <<>>
        ELSE (IF old[p].id = 0 THEN <<>> ELSE <<EventOf("exit", p, old[p], ts, old)>>)
             \o <<EventOf("spawn", p, cur[p], ts, cur)>>
      Gone(p) ==
        IF old[p].id # 0 /\ cur[p].id = 0 THEN <<EventOf("exit", p, old[p], ts, old)>> ELSE <<>>
      pids == Sorted(Pid)
  IN  Flatten([i \in DOMAIN pids |-> New(pids[i])])
      \o Flatten([i \in DOMAIN pids |-> Gone(pids[i])])

(* scan: a process whose ppid or creation time cannot be read is skipped,   *)
(* and an error from the process list yields an empty snapshot.             *)
Scans ==
  {[p \in Pid |-> IF p \in skipped THEN Free ELSE proc[p]] :
     skipped \in IF ScanMayFail THEN SUBSET Live ELSE {{}}}

WithScan(snapshot) == IF snapshot = proc THEN faults ELSE faults \cup {"scan"}

(* Compares the first scan with nothing. *)
StartWithoutBaseline ==
  /\ ~running
  /\ now < MaxScans
  /\ now' = now + 1
  /\ running' = TRUE
  /\ prev' = NoProcess
  /\ baseline' = baseline \cup {proc[p].id : p \in Live}
  /\ UNCHANGED <<proc, forks, early, faults, events>>

(* Start: the baseline snapshot, and samples of it. *)
Start ==
  /\ ~running
  /\ now < MaxScans
  /\ now' = now + 1
  /\ running' = TRUE
  /\ prev' \in Scans
  /\ faults' = WithScan(prev')
  /\ baseline' = baseline \cup {proc[p].id : p \in Live}
  /\ \E S \in SUBSET {p \in Busy : prev'[p].id # 0} :
       \E list \in Arrangements(S) : events' = events \o SampleEvents(prev', list, now')
  /\ UNCHANGED <<proc, forks, early>>

(* The diff timer's case, sends included. *)
DiffTick ==
  /\ running
  /\ now < MaxScans
  /\ now' = now + 1
  /\ prev' \in Scans
  /\ faults' = WithScan(prev')
  /\ events' = events \o Diff(prev, prev', now')
  /\ UNCHANGED <<proc, forks, running, baseline, early>>

(* The resource ticker's case; a process that its scan skips is just not    *)
(* sampled.  A tick without samples changes nothing.                        *)
SampleTick ==
  /\ running
  /\ now < MaxScans
  /\ now' = now + 1
  /\ \E S \in SUBSET (Live \cap Busy) \ {{}} :
       /\ \E list \in Arrangements(S) : events' = events \o SampleEvents(proc, list, now')
       /\ early' = early \cup {proc[p].id : p \in {q \in S : prev[q].id # proc[q].id}}
  /\ UNCHANGED <<proc, forks, running, prev, baseline, faults>>

(* collector/filewatch: a write, creation, removal or renaming of the       *)
(* watched path is one event, with an unknown actor.                        *)
FileChange ==
  /\ running
  /\ now < MaxScans
  /\ now' = now + 1
  /\ events' = Append(events, [kind |-> "file", pid |-> 0, ppid |-> Outside, ts |-> now',
                               id |-> 0, parent |-> 0])
  /\ UNCHANGED <<proc, forks, running, prev, baseline, early, faults>>

(* ctx.Done, in the select or while a diff's events are being sent: what    *)
(* has not been sent is lost, and so is prev.                               *)
Stop ==
  /\ running
  /\ running' = FALSE
  /\ prev' = NoProcess
  /\ \/ /\ faults' = faults \cup {"stop"}
        /\ UNCHANGED <<now, events>>
     \/ /\ now < MaxScans
        /\ now' = now + 1
        /\ \E cur \in Scans :
             /\ faults' = WithScan(cur) \cup {"stop"}
             /\ \E n \in 0..Len(Diff(prev, cur, now')) :
                  events' = events \o SubSeq(Diff(prev, cur, now'), 1, n)
  /\ UNCHANGED <<proc, forks, baseline, early>>

(* The store evicts its oldest row (module Store). *)
EvictOldest ==
  /\ Evicting
  /\ events # <<>>
  /\ events' = Tail(events)
  /\ UNCHANGED <<proc, forks, now, running, prev, baseline, early, faults>>

Collect == Start \/ DiffTick \/ SampleTick \/ FileChange

System ==
  \/ \E parent \in Pid \cup {Outside}, p \in Pid : Fork(parent, p)
  \/ \E p \in Pid : Exit(p)

Next == System \/ Collect \/ EvictOldest \/ Stop

Spec == Init /\ [][Next]_vars
=============================================================================
