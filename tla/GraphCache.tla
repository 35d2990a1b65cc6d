------------------------------ MODULE GraphCache ------------------------------
(***************************************************************************)
(* engine/causegraph/api/server.py, _load and _view: the request threads   *)
(* of the API server share one in-memory copy of the event log (_CACHE),   *)
(* brought up to date from the recorder's SQLite file while the recorder    *)
(* goes on writing it, and one slice of it for the timeline (_ASOF).  Each  *)
(* read of the file is a transaction of its own; _BUILD_LOCK serializes     *)
(* the builders and _CACHE_LOCK guards the two dicts.                       *)
(*                                                                         *)
(* The graph built from a list of events is a function of that list, so    *)
(* only the list is kept.                                                   *)
(***************************************************************************)
EXTENDS Integers, Sequences, FiniteSets, Lists

CONSTANTS
  Thread,      \* threads of the ThreadingHTTPServer
  Ts,          \* timestamps of events
  AsOf,        \* timestamps the timeline asks for
  Now,         \* as_of=None
  NoThread,    \* a lock that is free
  MaxRows,     \* -max-rows of the recorder
  BatchMax,    \* bound: events the recorder commits at once
  MaxEvents,   \* bound: rows of the first database file, and one less of each next
  MaxReplace   \* bound: how often the database file is replaced

ASSUME CacheAssumption ==
  /\ Ts \subseteq Nat /\ AsOf \subseteq Nat /\ Now \notin AsOf
  /\ NoThread \notin Thread
  /\ MaxRows \in Nat \ {0}
  /\ BatchMax \in Nat /\ MaxEvents \in Nat /\ MaxReplace \in Nat

VARIABLES
  log,        \* the rows ever committed to the present file; position = seq
  lowest,     \* seq of the oldest row the ring still holds
  gen,        \* which database file this is
  cache,      \* _CACHE; built is FALSE while its path and graph are None
  slice,      \* _ASOF; as_of is Now while it is empty
  cacheLock,  \* who holds _CACHE_LOCK across a step
  buildLock,  \* who holds _BUILD_LOCK
  pc,
  want,       \* the request's as_of
  top,        \* _load's top
  low,        \* _load's low
  seen,       \* c_seq, c_min, c_events: _CACHE as this build found it
  ev,         \* _load's events; once pc is "answered", the events answered from
  torn,       \* history: what came between the reads of one build (below)
  due,        \* history: the rows a request is due, those committed when it began
  asked       \* history: the value of gen when the request began

store == <<log, lowest, gen>>
locals == <<want, top, low, seen, ev>>
history == <<torn, due, asked>>
vars == <<store, cache, slice, cacheLock, buildLock, pc, locals, history>>

EmptyCache == [built |-> FALSE, events |-> <<>>, last_seq |-> 0, min_seq |-> 0]
NoSlice == [as_of |-> Now, events |-> <<>>]

EventsOf(s) == {s[i] : i \in DOMAIN s}

Init ==
  /\ log = <<>> /\ lowest = 1 /\ gen = 0
  /\ cache = EmptyCache /\ slice = NoSlice
  /\ cacheLock = NoThread /\ buildLock = NoThread
  /\ pc = [t \in Thread |-> "idle"]
  /\ want = [t \in Thread |-> Now]
  /\ top = [t \in Thread |-> 0] /\ low = [t \in Thread |-> 0]
  /\ seen = [t \in Thread |-> EmptyCache]
  /\ ev = [t \in Thread |-> <<>>]
  /\ torn = {}
  /\ due = [t \in Thread |-> {}] /\ asked = [t \in Thread |-> 0]

-----------------------------------------------------------------------------
(* The database, and the reads of it in ingest/reader.py. *)

Rows == {log[s] : s \in lowest..Len(log)}

(* 0 for an empty table, as `row[0] or 0` makes it. *)
MaxSeq == IF lowest > Len(log) THEN 0 ELSE Len(log)
MinSeq == IF lowest > Len(log) THEN 0 ELSE lowest

ReadEvents == SubSeq(log, lowest, Len(log))

ReadEventsSince(after) ==
  SubSeq(log, IF after + 1 > lowest THEN after + 1 ELSE lowest, Len(log))

(* A build in its reads after MAX(seq), up to the one of the rows. *)
Reading == \E t \in Thread : buildLock = t /\ pc[t] \in {"low", "check", "read"}

(* A build between its first read and the publication. *)
Building == Reading \/ \E t \in Thread : pc[t] = "rebuild"

StaleCache == \E e \in EventsOf(cache.events) : e.gen # gen

(* "grown": a build read the file before and after a commit; "cut": and the *)
(* commit evicted rows; "replaced": a build read two files, or a new file   *)
(* has caught up with the cached last_seq, which is how _load knows it.     *)
Tear ==
  torn' = torn \cup (IF Reading THEN {"grown"} ELSE {})
               \cup (IF Reading /\ lowest' > lowest THEN {"cut"} ELSE {})
               \cup (IF \/ Building /\ gen' # gen
                        \/ StaleCache' /\ Len(log') >= cache.last_seq
                       THEN {"replaced"} ELSE {})

(* The recorder commits a batch: inserts and the eviction past the cap, in  *)
(* one transaction (module Store).  Timestamps are taken by the collectors  *)
(* before the events are queued: a row's ts may be that of an earlier row,  *)
(* or before it.                                                            *)
CommitBatch ==
  /\ \E n \in 1..BatchMax : \E ts \in [1..n -> Ts] :
       /\ Len(log) + n <= MaxEvents - gen
       /\ log' = log \o [i \in 1..n |-> [gen |-> gen, seq |-> Len(log) + i, ts |-> ts[i]]]
  /\ lowest' = IF Len(log') - MaxRows >= lowest THEN (Len(log') - MaxRows) + 1 ELSE lowest
  /\ UNCHANGED <<gen, cache, slice, cacheLock, buildLock, pc, locals, due, asked>>
  /\ Tear

(* The file is deleted and a recorder makes a new one in its place. *)
ReplaceFile ==
  /\ gen < MaxReplace
  /\ gen' = gen + 1
  /\ log' = <<>> /\ lowest' = 1
  /\ UNCHANGED <<cache, slice, cacheLock, buildLock, pc, locals, due, asked>>
  /\ Tear

-----------------------------------------------------------------------------
(* One request of a thread. *)

Goto(t, l) == pc' = [pc EXCEPT ![t] = l]

(* _load returns es: the end of the request, or the start of the slicing. *)
Loaded(t, es) ==
  /\ ev' = [ev EXCEPT ![t] = es]
  /\ Goto(t, IF want[t] = Now THEN "answered" ELSE "view")
  /\ top' = [top EXCEPT ![t] = 0]
  /\ low' = [low EXCEPT ![t] = 0]
  /\ seen' = [seen EXCEPT ![t] = EmptyCache]
  /\ UNCHANGED <<want, history>>

Request(t, w) ==
  /\ pc[t] \in {"idle", "answered", "failed"}
  /\ Goto(t, "top")
  /\ want' = [want EXCEPT ![t] = w]
  /\ ev' = [ev EXCEPT ![t] = <<>>]
  /\ due' = [due EXCEPT ![t] = {e \in Rows : w # Now => e.ts <= w}]
  /\ asked' = [asked EXCEPT ![t] = gen]
  /\ UNCHANGED <<store, cache, slice, cacheLock, buildLock, top, low, seen, torn>>

ReadTop(t) ==
  /\ pc[t] = "top"
  /\ top' = [top EXCEPT ![t] = MaxSeq]
  /\ Goto(t, "hot")
  /\ UNCHANGED <<store, cache, slice, cacheLock, buildLock, want, low, seen, ev, history>>

(* Serves whatever graph there is. *)
BuiltOnce(t) == cache.built

UpToDate(t) == cache.built /\ top[t] = cache.last_seq

HotPath(t) ==
  /\ pc[t] = "hot"
  /\ cacheLock = NoThread
  /\ \/ /\ UpToDate(t)
        /\ Loaded(t, cache.events)
     \/ /\ ~UpToDate(t)
        /\ Goto(t, "lock")
        /\ UNCHANGED <<locals, history>>
  /\ UNCHANGED <<store, cache, slice, cacheLock, buildLock>>

TakeBuildLock(t) ==
  /\ pc[t] = "lock"
  /\ buildLock = NoThread
  /\ buildLock' = t
  /\ Goto(t, "retop")
  /\ UNCHANGED <<store, cache, slice, cacheLock, locals, history>>

RereadTop(t) ==
  /\ pc[t] = "retop"
  /\ top' = [top EXCEPT ![t] = MaxSeq]
  /\ Goto(t, "low")
  /\ UNCHANGED <<store, cache, slice, cacheLock, buildLock, want, low, seen, ev, history>>

ReadLow(t) ==
  /\ pc[t] = "low"
  /\ low' = [low EXCEPT ![t] = MinSeq]
  /\ Goto(t, "check")
  /\ UNCHANGED <<store, cache, slice, cacheLock, buildLock, want, top, seen, ev, history>>

(* Another builder may have published it; else note what _CACHE holds. *)
Check(t) ==
  /\ pc[t] = "check"
  /\ cacheLock = NoThread
  /\ \/ /\ UpToDate(t)
        /\ buildLock' = NoThread
        /\ Loaded(t, cache.events)
     \/ /\ ~UpToDate(t)
        /\ seen' = [seen EXCEPT ![t] = cache]
        /\ Goto(t, "read")
        /\ UNCHANGED <<buildLock, want, top, low, ev, history>>
  /\ UNCHANGED <<store, cache, slice, cacheLock>>

(* A fresh capture: the cached rows are of no use. *)
Reset(t) == ~seen[t].built \/ top[t] < seen[t].last_seq

(* del events[: n] *)
DropFront(es, n) == SubSeq(es, n + 1, Len(es))

(* Appends the new rows and forgets to trim the deleted ones. *)
ReadRowsNoTrim(t) ==
  /\ pc[t] = "read"
  /\ ev' = [ev EXCEPT ![t] =
              IF Reset(t) THEN ReadEvents
              ELSE seen[t].events \o ReadEventsSince(seen[t].last_seq)]
  /\ Goto(t, "rebuild")
  /\ UNCHANGED <<store, cache, slice, cacheLock, buildLock, want, top, low, seen, history>>

(* One SELECT, which sees one snapshot of the file. *)
ReadRows(t) ==
  /\ pc[t] = "read"
  /\ ev' = [ev EXCEPT ![t] =
              IF Reset(t) THEN ReadEvents
              ELSE DropFront(seen[t].events, IF low[t] > seen[t].min_seq
                                               THEN low[t] - seen[t].min_seq ELSE 0)
                   \o ReadEventsSince(seen[t].last_seq)]
  /\ Goto(t, "rebuild")
  /\ UNCHANGED <<store, cache, slice, cacheLock, buildLock, want, top, low, seen, history>>

(* Records the newest row there is now, not the top this build went by. *)
PublishNewTop(t) ==
  /\ pc[t] = "rebuild"
  /\ cacheLock = NoThread
  /\ cache' = [built |-> TRUE, events |-> ev[t], last_seq |-> MaxSeq, min_seq |-> low[t]]
  /\ slice' = IF Reset(t) THEN NoSlice ELSE slice
  /\ buildLock' = NoThread
  /\ Loaded(t, ev[t])
  /\ UNCHANGED <<store, cacheLock>>

(* The rebuilt graph is published; a reset drops the slice. *)
Publish(t) ==
  /\ pc[t] = "rebuild"
  /\ cacheLock = NoThread
  /\ cache' = [built |-> TRUE, events |-> ev[t], last_seq |-> top[t], min_seq |-> low[t]]
  /\ slice' = IF Reset(t) THEN NoSlice ELSE slice
  /\ buildLock' = NoThread
  /\ Loaded(t, ev[t])
  /\ UNCHANGED <<store, cacheLock>>

(* Hits on any slice there is. *)
ViewAnySlice(t) ==
  /\ pc[t] = "view"
  /\ cacheLock = NoThread
  /\ \/ /\ slice.as_of # Now
        /\ ev' = [ev EXCEPT ![t] = slice.events]
        /\ Goto(t, "answered")
        /\ UNCHANGED cacheLock
     \/ /\ slice.as_of = Now
        /\ cacheLock' = t
        /\ Goto(t, "slice")
        /\ UNCHANGED ev
  /\ UNCHANGED <<store, cache, slice, buildLock, want, top, low, seen, history>>

(* _view takes the cache lock and keeps it if it has to make the slice. *)
View(t) ==
  /\ pc[t] = "view"
  /\ cacheLock = NoThread
  /\ \/ /\ slice.as_of = want[t]
        /\ ev' = [ev EXCEPT ![t] = slice.events]
        /\ Goto(t, "answered")
        /\ UNCHANGED cacheLock
     \/ /\ slice.as_of # want[t]
        /\ cacheLock' = t
        /\ Goto(t, "slice")
        /\ UNCHANGED ev
  /\ UNCHANGED <<store, cache, slice, buildLock, want, top, low, seen, history>>

(* [e for e in es if e.ts <= w] *)
UpTo(es, w) == Keep(es, {i \in DOMAIN es : es[i].ts <= w})

(* The slice and its graph are built and published. *)
Slice(t) ==
  /\ pc[t] = "slice"
  /\ LET es == UpTo(ev[t], want[t])
     IN  /\ ev' = [ev EXCEPT ![t] = es]
         /\ slice' = [as_of |-> want[t], events |-> es]
  /\ cacheLock' = NoThread
  /\ Goto(t, "answered")
  /\ UNCHANGED <<store, cache, buildLock, want, top, low, seen, history>>

(* A request of which a step failed starts again. *)
FailRetries(t) ==
  /\ pc[t] \in {"top", "retop", "low", "read", "rebuild", "slice"}
  /\ Goto(t, "top")
  /\ buildLock' = IF buildLock = t THEN NoThread ELSE buildLock
  /\ cacheLock' = IF cacheLock = t THEN NoThread ELSE cacheLock
  /\ top' = [top EXCEPT ![t] = 0]
  /\ low' = [low EXCEPT ![t] = 0]
  /\ seen' = [seen EXCEPT ![t] = EmptyCache]
  /\ ev' = [ev EXCEPT ![t] = <<>>]
  /\ UNCHANGED <<store, cache, slice, want, history>>

(* SQLite refuses a read, or building a graph raises: the exception leaves  *)
(* the `with` blocks, which release the locks, and the handler answers 500. *)
Fail(t) ==
  /\ pc[t] \in {"top", "retop", "low", "read", "rebuild", "slice"}
  /\ Goto(t, "failed")
  /\ buildLock' = IF buildLock = t THEN NoThread ELSE buildLock
  /\ cacheLock' = IF cacheLock = t THEN NoThread ELSE cacheLock
  /\ top' = [top EXCEPT ![t] = 0]
  /\ low' = [low EXCEPT ![t] = 0]
  /\ seen' = [seen EXCEPT ![t] = EmptyCache]
  /\ ev' = [ev EXCEPT ![t] = <<>>]
  /\ due' = [due EXCEPT ![t] = {}]
  /\ asked' = [asked EXCEPT ![t] = 0]
  /\ UNCHANGED <<store, cache, slice, want, torn>>

(* A step of _load, and one of a request that has begun.  (Fail is also     *)
(* _view's: it is the one step of Load that a slice may take.)              *)
Load(t) ==
  \/ ReadTop(t) \/ HotPath(t) \/ TakeBuildLock(t) \/ RereadTop(t) \/ ReadLow(t)
  \/ Check(t) \/ ReadRows(t) \/ Publish(t) \/ Fail(t)

Serve(t) == Load(t) \/ View(t) \/ Slice(t)

AnyRequest(t) == \E w \in AsOf \cup {Now} : Request(t, w)

Next ==
  \/ CommitBatch
  \/ ReplaceFile
  \/ \E t \in Thread : AnyRequest(t) \/ Serve(t)

Spec == Init /\ [][Next]_vars

(* The same with requests about now alone, which end with _load. *)
LoadNext ==
  \/ CommitBatch
  \/ ReplaceFile
  \/ \E t \in Thread : Request(t, Now) \/ Load(t)

LoadSpec == Init /\ [][LoadNext]_vars

-----------------------------------------------------------------------------

Event == [gen : Nat, seq : Nat, ts : Ts]
CacheRecord == [built : BOOLEAN, events : Seq(Event), last_seq : Nat, min_seq : Nat]

TypeOK ==
  /\ log \in Seq(Event) /\ lowest \in Nat /\ gen \in Nat
  /\ cache \in CacheRecord
  /\ slice \in [as_of : AsOf \cup {Now}, events : Seq(Event)]
  /\ cacheLock \in Thread \cup {NoThread}
  /\ buildLock \in Thread \cup {NoThread}
  /\ pc \in [Thread -> {"idle", "top", "hot", "lock", "retop", "low", "check", "read",
                        "rebuild", "view", "slice", "answered", "failed"}]
  /\ want \in [Thread -> AsOf \cup {Now}]
  /\ top \in [Thread -> Nat] /\ low \in [Thread -> Nat]
  /\ seen \in [Thread -> CacheRecord]
  /\ ev \in [Thread -> Seq(Event)]
  /\ torn \subseteq {"grown", "cut", "replaced"}
  /\ due \in [Thread -> SUBSET Event] /\ asked \in [Thread -> Nat]

(* Whatever is committed while a build is under way, no row the store still *)
(* holds is missing from the cache below its last_seq: the next build reads *)
(* on from there and would never come back for it.  (Unless a build was cut *)
(* by an eviction or met a new file.)                                       *)
NoRowMissed ==
  torn \subseteq {"grown"} /\ cache.built /\ ~StaleCache =>
    \A s \in lowest..Len(log) : s <= cache.last_seq => log[s] \in EventsOf(cache.events)

(* A request about now is answered from a list that holds every row that    *)
(* was committed when it began and has not been evicted since, whichever    *)
(* thread built the list and whether the request took the hot path or not   *)
(* (with the same reservation); and "full reload if the DB was              *)
(* reset/replaced": from no row of a file that had been replaced when it    *)
(* began, unless the new one has caught up with the old or a build met both. *)
Freshness ==
  \A t \in Thread :
    pc[t] = "answered" /\ want[t] = Now =>
      /\ torn \subseteq {"grown"} => due[t] \cap Rows \subseteq EventsOf(ev[t])
      /\ "replaced" \notin torn => \A e \in EventsOf(ev[t]) : e.gen >= asked[t]

(* A timeline request is answered from events of its own past only, never   *)
(* from the slice another thread made for another position.                 *)
AnswerIsInThePast ==
  \A t \in Thread :
    pc[t] = "answered" /\ want[t] # Now => \A e \in EventsOf(ev[t]) : e.ts <= want[t]

(* "append only rows written since the last read ... trim the oldest rows a *)
(* ring buffer has deleted": the cache is the list of the rows from min_seq *)
(* to last_seq, in order, none missing and none twice, over evictions and   *)
(* replaced files, as long as no build is torn.                             *)
ExactMirror ==
  torn = {} /\ cache.built /\ ~StaleCache =>
    cache.events = SubSeq(log, IF cache.min_seq = 0 THEN 1 ELSE cache.min_seq, cache.last_seq)

(* "append only rows written since the last read": no row is in the cached  *)
(* list twice.                                                              *)
NoRowTwice ==
  \A i, j \in DOMAIN cache.events : cache.events[i] = cache.events[j] => i = j

(* "append-only ts, so a past slice is stable": a timeline request is       *)
(* answered with every event of its past that was committed when it began.  *)
PastSliceIsStable ==
  \A t \in Thread :
    pc[t] = "answered" /\ want[t] # Now => due[t] \cap Rows \subseteq EventsOf(ev[t])

(* "a fresh capture invalidates any cached time-travel slice at the old     *)
(* path": the slice and the cache never come from two captures.             *)
SliceOfThisCapture ==
  \A e \in EventsOf(slice.events), f \in EventsOf(cache.events) : e.gen = f.gen

(* _CACHE_LOCK is "fast; never held during a rebuild".                      *)
NeverHeldDuringRebuild ==
  \A t \in Thread : cacheLock = t => pc[t] \notin {"rebuild", "slice"}
=============================================================================
