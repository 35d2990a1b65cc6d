# causegraph: TLA+ specifications, model checks and proofs

Causegraph records what happens on a machine (process spawns and exits, file
changes, resource samples) in a SQLite file, and builds from it, on request, a
graph of what caused what. A Go daemon (`src/daemon`) writes the file, a Python
engine (`src/engine`) reads it and serves it over HTTP, and a page
(`src/ui/app.js`) polls the engine. This directory holds a specification of
each part whose behaviour depends on the order of events, the TLC
configurations that check it, and TLAPS proofs of every safety property that the
passing runs check. The event schema, from which the code of both sides is
generated, is specified as the contract between them.

## 1. The system

```
 poller --+                                                   +-> request threads --+
          +-> out --> bridge --> ring buffer --> Run --> SQLite                      +--> page
 watcher -+           heartbeat -----^                        +-> _CACHE, _ASOF -----+
   (goroutines of cged: Daemon)      (Pipeline)      (Store)     (GraphCache, Api)  (Dashboard)

 event.schema.json --> gen.py --> Go structs, Python classes   (EventCodec, EventContract)
 cg up, down, setup, ... --> pidfile, login services           (Service)
```

| component | state it keeps | operations | what is hard | what makes it correct |
|---|---|---|---|---|
| Ring buffer and pipeline, `daemon/internal/pipeline` | ring, head, size, two drop counters | Push, PopBatch, Run's ticks, final flush | several ingesters against one drain; the overflow counter is raised outside the lock; batches the store refuses; cancellation in mid-drain | no event is lost uncounted, order is kept, the newest stay, a clean stop flushes |
| Store, `daemon/internal/store` | rows keyed by seq, the capped ring | open, one transaction per batch, close | end of process between any two statements; cap changed between runs; eviction counts in seqs | the rows are always the newest ones, unbroken, within the cap |
| Daemon, `daemon/cmd/cged` | goroutines, the channel `out`, two contexts | start, signal, ordered shutdown | who waits for whom; a heartbeat at the moment of the signal; full channel | nothing is sent on a closed channel or ingested after the last flush; shutdown ends |
| Poller and diff, `collector/generic` | previous snapshot, adaptive interval | baseline, diff tick, sample tick | pid reuse between scans, scans that fail or leave processes out, restarts | each process reported once, exits before the spawn that reuses the pid |
| File watcher, `collector/filewatch` | watched directories | fs events | early return; no process behind an event | (as a collector of the daemon) |
| Graph, `engine/causegraph/graph` | none: functions of the events | segmentation, spawn edges, attribution, ancestry, descendants | instances whose beginning or end was not seen | spawn edges name the true parent, lifetimes of a pid do not overlap |
| Graph cache, `api/server.py` `_load`, `_view` | `_CACHE`, `_ASOF`, two locks | incremental load, rebuild, time-travel slice | three reads in three transactions while the recorder commits; stale values across a lock; replaced files | answers are complete and of the time asked for, threads never undo one another's work, nobody waits for ever |
| Views, `graph_payload`, `_family_payload`, `_all_payload`, `cg tree` | the selection under construction | bounded walks | four caps, graphs with cycles | what is shown hangs together, cuts are said, walks end |
| Service manager, `service.py`, `cli.py` | pidfile, login services | up, down, setup, teardown, service install and uninstall | no lock on the pidfile; commands cut short; zombies, reused pids, slow exits; services that restart, give up or do not get their port | one recorder at most, and one that can be found again, with the exceptions below |
| Dashboard, `ui/app.js` | page globals | polling, clicks, rewind, alerts | every `await` lets other handlers run; answers out of order; processes evicted while they are shown | what the page shows is of one process and one time, alerts fire once, staleness is noticed |
| Inspect and incidents, `proc_detail`, `incidents` | none | samples of a process, cards | two views that each find their samples in another way; pids with several processes | the views agree; a crash loop is made of processes that died |
| File-watch rule and scoring | none | file causes with a confidence | changes before and after a start | a cause once shown stays |
| HTTP handler, `do_GET`, `do_POST` | none (one thread per request) | every route | a failing file under any of them, while others hold the locks; a pid reused before it is killed | every request gets a status, and the one that is true |
| Schema and codecs, `gen.py`, `codec.go`, `event_gen.py` | schema, two generated files, releases, running programs, stored rows | edit, generate, check, release, restart, record, load | the two sides are updated at different times and rows outlive both; absent, zero and empty fields | old rows are readable, both sides write the same keys, order and values, no field is lost |
| Configuration, benchmarks, packaging, page layout | - | - | - | not modelled: defaults, measurement, installation, markup |

The state shared between components is small, and so the specifications meet at
it: the sink of the pipeline is a store that takes a batch whole or not at all
(which is what `Store` shows of a transaction), the poller's output is the event
list that `CausalGraph` reads, and the cache reads a log that grows by batches
and loses its oldest rows (again `Store`).

## 2. Modules

Definitions carry the names of the source where TLA+ allows it; PROJECT.json
maps each of them to its lines. A definition whose comment describes what it does
wrong (`PushKeepsHead`, `FailRetries`, ...) stands before the one it is a
mutation of and is used by no specification: it is there to show that a property
would notice.

* **Buffer**: the ring of buffer.go. `Push` is the locked section; the counter
  is raised by `CountEviction`, a step of its own, as it is outside the lock.
* **Pipeline** (EXTENDS Buffer): `Ingest`, and Run as a state machine
  (`drain` = "select", "pop", "write", "returned"). Events are numbered in the
  order they are ingested, so that order and loss can be stated.
* **DropOldestQueue**: what the package promises, in three variables and no
  ring. `Pipeline!ImplementsDropOldestQueue` is the refinement.
* **Daemon** (EXTENDS Pipeline): the goroutines of `run()`: collectors, channel,
  bridge, heartbeat, main. A `select` is a choice between the enabled actions.
* **Store** and **RowRing**: `WriteBatch` statement by statement, with the
  rollback after any of them and the end of the process between any two;
  `OpenSQLite` under another cap. RowRing is the atomic ring of rows it
  implements.
* **Poller** (EXTENDS CausalGraph): operating system, scans, `Diff`, samples,
  file changes, stop and restart of the recorder, eviction. A scan may leave out any of the
  processes (`Scans`): those whose `Ppid` or `CreateTime` fails, or all of them. Samples are written in
  any order (`Arrangements`), as the code ranges over a map. `early` remembers the
  processes that a sample found before a diff or a baseline had them. Each event carries, for the
  properties only, the identity of the process it is about and of that one's
  parent at that time. Pids are numbers up to `MaxPid`: sorting them is keeping
  those that are there of 1, 2, 3, ...
* **CausalGraph**: pure operators: segmentation of a pid's events into instances,
  spawn edges, attribution of samples, latest instance, ancestors. What loops over a
  list in the code is a recursive function here.
* **FileWatchRule** (EXTENDS CausalGraph): the file causes of processes, for one
  path. The confidence of a cause falls with the age of the change alone, so it
  is given by that age, and a threshold by the greatest age that reaches it.
* **ResourceViews** (EXTENDS CausalGraph): which samples the ranking, the detail
  view and the cpu cards use, and which instances a crash loop counts.
* **Capture** (EXTENDS Poller, FileWatchRule, ResourceViews; TLC: MCCapture): no behaviour of its own; says when the graph
  built from the events tells the truth about the processes.
* **PollCadence**: `pollBounds` and `nextInterval`, with Durations of a fixed
  width.
* **GraphCache** (TLC: MCGraphCache): each request thread as a program counter through
  `_load` and `_view`; each SELECT is a step, as is each section under a lock.
  The lock variables are kept only where a lock is held across steps.
* **Api** (EXTENDS GraphCache; TLC: MCApi): the request in each thread's hand
  and the status it is answered with. The routes that read a view ("graph", the
  whole graph "all", "nopid" for a graph request without a pid, "proc", "incidents") run GraphCache's
  `Serve`, each of whose steps may fail; the others answer in a step of their own.
* **Payload**: the five views (`mode`), one step per round of a loop, on every
  spawn relation there is; `Emit` writes out the edges, of which some file
  edges are weak.
* **EventCodec**: what `gen.py` generates for a field (`GoField`, `PyField`) and
  what the generated code does with an event (`GoEncode`, `GoDecode`,
  `FromDict`, `ToDict`). A generated file is a value: two files are equal when
  their fields are.
* **EventContract** (EXTENDS EventCodec; TLC: MCEventContract): the life of the
  schema. `goOut` and `pyOut` are the committed files, `installed` a release, `recorder` and
  `engine` the code that runs; `rows` outlives them all. A `cg load` is a new process, with the
  code that is installed.
* **Service** (TLC: MCService): each terminal's command as a program counter; processes are
  "recorder", "stray" (a recorder whose pid never got into the pidfile), "dying" (told to stop,
  flushing), "zombie" or "other". Any command may be cut short at any place (`CutShort`: Ctrl-C, a signal,
  an exception such as a failing write of the pidfile). The two
  login services are `recUnit` and `uiUnit`, under launchd or systemd; a `Login` starts
  them beside what detached recorders there are, a `Reboot` ends every process first.
* **Dashboard** (TLC: MCDashboard): each call of an async function that awaits an
  answer is an element of `Call`; an answer is described by the time asked for,
  the ts at which it was answered and whether the engine found the process
  (`found`: it is born by then, and not evicted, `Gone`). A request may be answered with an error
  (`NotOk`), or not at all (`Fail`).
* **Lists**: `Elements` of a list, `Keep`, the list of its elements at some places, and
  `Flatten`, the concatenation of a list of lists (GraphCache, Payload, CausalGraph,
  Poller, Capture).
* **RecorderProofs** (Pipeline, Daemon and Store), **GraphCacheProofs**
  (GraphCache and Api), **CaptureProofs** (Poller, CausalGraph, FileWatchRule, ResourceViews,
  Capture and PollCadence), **ContractProofs** (EventCodec and EventContract),
  **ServiceProofs**, **DashboardProofs**, **PayloadProofs**: the theorems. **ListProofs**: lemmas about lists and
  recursive functions that several of these need. So that two specifications can
  be proved about in one module, those of Store and PollCadence are called
  `StoreSpec` and `CadenceSpec`.

### Faults are recorded, not excluded

Several comments of the code hold only as long as a certain fault does not
occur. Those models keep a history variable that says which of these faults there have been
(`torn` in GraphCache, `faults` in Poller, `mishaps` in Service, `overlapped` and `fails` in
Dashboard). The faults are steps of the model: wherever the code can meet one, it may
happen, also in between two others. Each
property names the faults it does not survive. `ReportedOnce`, for example,
survives stops, restarts, samples and evictions and does not survive a
scan that fails or leaves out a process. Section 6 lists what goes wrong in the other cases. The
reservations of some properties exclude much of what is hard: `SettledView` and `FiresOncePerCrossing`
speak of a page whose user waits for the answers, `NoRowMissed` of builds that no
eviction and no new file tore, `OneWriter` of commands given one after the other.

## 3. The runs

All of them are run with `tlc -workers 2 -config X.cfg M`; PROJECT.json has the
list. `CHECK_DEADLOCK FALSE` is set only where the system really comes to rest: after
a shutdown, when a view has been answered, when nobody clicks and polling is off.

| run | module | distinct states | shows |
|---|---|---|---|
| daemon | Daemon | 49 000 | the properties of Daemon and, through it, of Pipeline, the refinement of DropOldestQueue, two liveness properties |
| store | Store | 58 000 | rows are the newest, unbroken, in the cap; refinement of RowRing |
| cache | MCGraphCache | 2.3 million (symmetric) | the cache under commits, evictions and replaced files at any moment |
| api | MCApi | 331 000 | timeline answers; who is called absent; every request is answered although any step may fail |
| wire | MCEventContract | 46 000 | schema, generated code, both codecs and stored rows under updates in any order |
| capture | MCCapture | 741 000 | poller, graph, file causes and resource views under pid reuse, incomplete scans, stops and evictions |
| poll_cadence | PollCadence | 6 800 | the adaptive interval |
| payload | Payload | 227 000 | all views on every spawn relation of four processes |
| service | MCService | 576 000 (symmetric) | two terminals, two service managers, every interleaving; cut commands, slow exits, crashes, logins, reboots, reused pids |
| dash | MCDashboard | 1.4 million (symmetric) | what the page shows, and when it alerts |
| dash_fair | MCDashboard | 424 000 | the page becomes current, and says when the recorder stopped |
| cache_duplicates | MCGraphCache | violation | rows enter the cache twice |

Bounds and why they are enough:

* **daemon**: three slots, batches of two, five events, a channel of one, a
  poller and a watcher that may fail. The channel is full, the ring overflows and
  wraps and is drained in part only (batch smaller than the content), and each
  goroutine is found in every state when the signal comes. The proofs lift the
  bounds for what concerns the ring.
* **store**: caps 0 to 3 and seven events in batches of up to three: batches
  smaller than, equal to and larger than the cap; the largest cap overflows twice.
* **cache**: two threads, since builders are serialized and a third one would
  wait like the second; a ring of two rows and three events in the
  first file and two in the second, so that evictions fall before, between and after the reads of a build; one
  replacement of the file. Requests are about now.
* **api**: two threads that contend for the slice, two timeline positions, one
  row, one request of each kind (`MCCalls`): a failed step, a hit and a miss meet in every order.
* **wire**: one field of each kind the schema has (required and optional; scalar, array,
  object), two additions out of three, one row: a property of one row at a time
  needs no more. Each field takes every value the codecs tell apart, among them one that the two languages
  spell alike and one that they do not (`Plain`).
* **capture**: two pids and three processes are the least for a reused pid with
  a child or a parent; four ticks leave room for a baseline, a change, a reuse
  and a restart. One pid is sampled. A tick may be a change of the file instead of a
  scan, so that changes come before and after the start of a process, at an age
  that reaches the threshold and at one that does not. Each scan sees any set of the processes. A behaviour with both an incomplete scan and a stop
  is not followed further (`Relevant`): only `SpikesAgree` and `RewindAgrees` still say something of it, and what they
  say holds of any list of events in order (CaptureProofs).
* **poll_cadence**: seven bits and bounds up to 24, the doubles of which still
  fit; unset, equal and crossed bounds. With six bits (`Half` of CaptureProofs does
  not hold then) doubling 24 wraps around and the property fails.
* **payload**: four processes, because a child cut off by the cap that has a
  child itself needs four; caps of one (two with expand), so that two are too many; one file cause and one weak edge.
* **service**: two terminals (a command meets at most one pidfile and one pid, so
  a third one adds no new kind of overlap) and three pids: a stray, a recorder and
  one that lingers, or another program, may be there at once. Terminals are
  interchangeable, and so are pids. Every property of the run excepts overlapping
  commands, and none speaks of a behaviour with both a late recorder and a failure or
  a cut stop, so the constraint `Relevant` does not follow those further. The two terminals still meet: one serves
  the UI, with a recorder or a zombie for a child, while the other gives commands.
* **dash**: two processes, of which the second is born at the second event and the first is
  evicted at the fourth, two calls under way, two clicks and a failure. The rule is hot at the second and the fourth
  event, so that it fires, is disarmed and fires again. `SettledView` and `FiresOncePerCrossing` except overlaps, so a
  page on which there was one is followed for two events only (`Relevant`).
  `dash_fair` has unrelated processes, so that a focus
  changes the graph, one click, and a process that may be evicted while it is shown.

Every property has a mutation of the code that TLC refutes under the run's own
configuration (PROJECT.json, "mutants").

### Fairness

* Pipeline, Daemon: a goroutine that can step does; `WriteBatch` returns
  (busy_timeout bounds the wait). Go's `select` picks at random among the ready
  cases, so `ctx.Done()` is not passed over for ever: strong fairness of the
  three steps that take it. Neither a signal nor an event is forced.
* Api (and GraphCache in it): strong fairness of each thread's step: `threading.Lock` does not
  promise a waiter its turn, but a thread that loses every race for ever is
  not a schedule the interpreter produces. No request or commit is forced.
* Payload: the thread of a request runs on.
* Service and EventContract: none; only safety is checked.
* Dashboard: requests are answered or fail, handlers run, the interval timer
  fires. Clicks are not forced and are bounded in number ("a page left alone").

## 4. The proofs

`tlapm` checks every step of these for every value of the constants. `NewestRetained` and
`StoredInOrder` of Pipeline and `EvictsOnlyForCap` of Store are proved and therefore
in no run; TLC passes them too, as INVARIANTS of MCDaemon and a PROPERTY of MCStore.

**RecorderProofs**, of `Spec` of Pipeline, for every set of ingesters, every
buffer size (also one below 1, which `NewBuffer` takes for 1) and batch size:
`TypeCorrect`, `ConservationHolds`, `NewestRetainedHolds`, `StoredInOrderHolds`,
`FlushedOnReturnHolds` (batch size at least 1) and `Refinement` (the ring
implements DropOldestQueue).

The argument: `NewestRetained` says that slot `(head + i - 1) % cap` holds event
`ingested - size + i`. It is preserved by a push into a full ring because the slot overwritten
is that of the oldest event and head moves past it; this is arithmetic
modulo `cap`, stated once as a lemma. On it rests everything about order: the batch is
always older than the content and what is committed older than the batch
(`OrderInv`), so each append keeps the sequence increasing. Conservation counts
evictions by `droppedOverflow + |uncounted|`, which needs `uncounted` finite
(`BatchFree` and the finiteness of Ingester). A flush returns only
when a pop found nothing, and by `FlushInv` everything left was then ingested after the
cancellation.

Also in **RecorderProofs**, of `StoreSpec`, for every set of caps: `StoreTypeCorrect`,
`UnbrokenNewestRowsHolds`, `WithinCapHolds`, `EvictsOnlyForCapHolds`,
`StoreRefinement`. The inductive invariant `TxInv` says of the uncommitted table what
the committed one will be: the committed rows, then an unbroken run of inserted
ones, with an eviction done or not; rollback and the end of the process return to the
committed one, for which the invariant holds already.

And of `DaemonSpec`, for every set of collectors, which may fail
or not, and every size of the channel: `PipelineInDaemon` (each step of the daemon is a step of
the pipeline or leaves it alone, so that all theorems about Pipeline hold in
it), `DaemonTypeCorrect`, `DeliveryConservationHolds`, `ShutdownInOrderHolds`,
`ShutdownAccountsForAllHolds` (batch size at least 1). `ShutdownInv` follows
the order in which main waits: a goroutine that is done has nothing left behind it
and everyone before it is done, and nothing has been ingested since the
cancellation. With conservation in the pipeline and from collectors to bridge, what
was produced is then stored, counted or abandoned.

**GraphCacheProofs**, of `Spec` (and, of the invariants, `LoadSpec`), for any
set of threads and of positions in the past, any number of events and any cap: `TypeCorrect`,
`LocksHold`, `NoRowMissedHolds`, `FreshnessHolds`, `ExactMirrorHolds`,
`AnswerIsInThePastHolds`; `LoadsAreRequests` says that a thread under `LoadSpec`
does what one under `Spec` does. No invariant of the list is inductive, as each speaks
of an answer, which a build in three reads prepares. `IInv` says what each
place of the code may rely on:

* `LogInv`, `GenInv`: rows carry their file and place; nobody holds a row of a file yet to come.
* `LockInv`: the locks are held in the blocks they guard only. This makes the
  cache at "read" and "rebuild" the one seen at "check" (`BuildInv`).
* `CacheInv`: while nothing was cut off, the cache holds every stored row up to its `last_seq`, each no nearer to
  the front than the next trim allows for (`Holds`), and a cache of an earlier
  file is noticed because that one reached further.
* `BuildInv`: the same of what a build has read so far, from its top and low.
* `DueInv`: what a request is due lies below the top it goes by, and a
  cache up to date by that top is of the file the request found. The faults
  in `torn` are where it breaks, and only there.
* `ExactInv`: with no commit between the reads, exactly the rows from low to top.
* `SliceInv`: the slice holds nothing younger than the position it is kept under.

`Slice` keeps the elements of a list up to a time (`UpTo`, a `Keep`), by recursion. The library's
induction rule takes an operator as a parameter, which the provers cannot be given.
In ListProofs, `InductionOverNat` states it for sets of numbers instead, `RecursionExists` builds a
recursive function from it, and `KeepProperties` and `KeepElements` say what the filter
yields: the elements at these places, in their order, and no other.

Also in **GraphCacheProofs**, of `ApiSpec`: `ApiInvariance` (a step of the handler is a step of the cache or
leaves it alone, and `CallInv` relates the status to what was read),
`ApiTypeCorrect`, `TimelineIsInThePast`, `ViewsAreFresh` and
`AbsentMeansAbsentHolds`: a process is called absent only if a read succeeded
and nothing that was due is stored.

**ServiceProofs**, of `Spec` of Service, for any number of terminals and pids: `TypeCorrect`,
`OneWriterHolds`, `NoOrphanHolds` and the action property
`ActsOnTheRecorderHolds`, each under the reservations of its property: commands do not overlap; for the
first two no recorder outlasts the timeout, and for `OneWriter` no login service is started beside a
detached recorder; for the third no recorder failed and no stop was cut short. A command may be cut
short anywhere else, so strays are there in all three. `SerialInv`: as long as no two commands overlap, one is under way at most. Given
that, `WriterInv` says which recorder there can be at each place of the one command
(none that a login service manages beside one in the pidfile; from the start of a process to
the writing of the pidfile the one just started), `StrayInv` that no pidfile names a stray and none
is going to, and `FileInv` that the
pidfile names a recorder or one being stopped, as long as nothing has failed and no stop was cut short.

**DashboardProofs**, of `Spec` of Dashboard, for any processes with any births and evictions, any number of calls,
clicks and failures, any set `Hot` of times above the threshold: `TypeCorrect`,
`InspectorShowsSelectedHolds`, `SettledViewHolds`, `FiresOncePerCrossingHolds`; the last two hold as long as nobody clicks
ahead of the answers, and `SettledView` as long as no request fails. It speaks of a page at rest; `ViewInv` says
of each handler, at the `await` where it stands, what it finds when it goes on:
the list's handler a graph of the current process, the graph's a list of the
time viewed, and so on. It holds while calls do not overlap (`SingleInv`)
and requests do not fail. An answer that misses the process is one of a time before its birth, or it is evicted by
now and stays so (`FoundInv`), which is why the graph may be left as it was. `AlertInv` counts: there is a time `e` for which the rule was evaluated last, the
crossings up to `e` bound what has fired, and no answer under way is older.
That one more alert needs one more crossing uses the last time
before it that was below the threshold (a least element, from WellFoundedInduction).
The proof does not go through for `fired <= Crossings`: if the request of the load fails,
nothing primes the rule, and a value that was above the threshold all along
fires once. Hence `FiresUnprimed` in the property and a refuted claim in section 6.

**PayloadProofs**, of `Spec` of Payload, for any number of processes and files, any caps, any
confidence of the causes and every spawn relation: `TypeCorrect`,
`HangsTogetherHolds`, `ExactOrTruncatedHolds`, `TreeIsNestedHolds`. First, what the model's recursive functions compute:
`Below[k]`, N rounds of "and their children", is closed, since a round that adds nothing is the
last and n of those that do leave n + 1 members (`BelowProperties`), and
least among the closed sets (`BelowIsLeast`); `AncestryPath` climbs to a root or to a repetition
(`AncestryProperties`). Then `IInv`: `HangInv`, each node hangs on one selected before it, and of what is
queued the parent is; `WalkInv`, what a walk saw or queued is below the process, and the children of what
it saw are seen or queued, so that an empty queue means that everything below was
seen; `CoreInv`, what of the whole is not shown did not fit, told from the
sizes of both; `NestInv`, in the tree the processes printed after one and before a child of it
lie below it, and those ahead of such a child in the stack too, or were seen. Of the exception in `ExactOrTruncated`
(the ancestry of the process meets what is below it), `AncestorBelow` shows that it
takes a cycle of pids.

**CaptureProofs**, of `Spec` of Poller, for any pids, any number of processes and scans, scans that
leave out any of the processes, restarts, evictions, any window and thresholds: `PollerInvariance`, the action property
`ReportedOnceHolds`, and `TrueParentHolds`, `LatestIsLiveHolds`, `LifetimesAreTrueHold`,
`SpikesAgreeHolds`, `CrashLoopsAreRealHold`, `RewindAgreesHolds`. Three parts:

* *The graph of a list of events in order* (no state in these lemmas). `SegmentProperties`: the
  instances of a pid are its events cut at those that open one (`Cut`). `Lifelines`
  carries this over to places `o[k]` to `t[k]` of the whole list, for the k-th instance: they
  do not overlap, cover all events of the pid, and an instance that follows another begins with a spawn or after an
  exit. Everything the graph is asked (`LatestIsLast`, `ParentIs`, `FrontInstances`) is read off
  these two functions. `FrontEdges` and `FrontCauses` compare the graph of a list with that of its
  beginning.
* *The invariant.* None of the properties is inductive: they speak of the graph, and what the next
  diff will write depends on `prev`. `PollerInv` speaks of events and processes alone:
  `OnePid` (a process has one pid, and the one there now is the newest known there), `ExitsAreTrue`
  (who exited is neither alive nor in the snapshot, so no diff reports it again), `NewIsFresh` (what the next
  diff will report as new has at most been sampled), `SnapshotIsLast`, `SpawnsEnd`, `SpawnedOnce`,
  all of these while scans are complete; `LastIsLive` and `ParentIsLast` (when a process was first seen, the
  last event of its parent's pid was of its parent, if that scan had the parent too) while no recorder was stopped;
  `ExitsBetween` while there was neither. Left out of `SnapshotIsLast`, `SpawnsEnd` and `ExitsBetween` (by `Timed`) are samples and exits of a process
  that a sample found before any diff or baseline had it. Each lemma about one of them looks at three kinds of step: `Gathers` (what any of the recorder's steps adds to the
  store; `DiffFacts` and `SampleFacts` say it of the operators), `Turns` (a process comes or
  goes), `Loses` (the oldest event goes and the others move up).
* *The properties*, each a consequence of `PollerInv` and the lifelines.

Also in **CaptureProofs**, of `CadenceSpec`, for Durations of any width and any `churnBurst`
and `backoffQuiet`: `BacksOffByTheBookHolds`, under the hypothesis `Half`: all flags are
below half the range of a Duration (146 years), where 2 * cur does not wrap around. `CadenceInv`
gives the number k of doublings since the burst: there were k * backoffQuiet + quiet
calm ticks, and the interval is min * 2^k, or max. The provers know
nothing of `^`, so the powers of two are a recursive function, `TwoTo`.

**ContractProofs**, of `Spec` of EventContract, for every schema, everything that may be added to it, every number of
releases, rows and values: `Invariance`, `OlderRecordingsRead`, `JsonAgrees`, `FieldsKept`. The lemmas
are about one event: `ObjectRoundTrip` (what is left of it in the object written), `GoWrites`, `GoReads`,
`PyReads` and `PyWrites` (what the code generated for a list of fields does with it, for every field kind). They rest on
the names of a schema being distinct, which an addition keeps. `IInv` says where the code of a running
program comes from: every generated file, release and program is that of the schema as it was at
some time (a beginning of the present one, as additions come at the end), a recorder is no newer than what is installed, and each
row is what its recorder's code makes of an event. That an older row is readable then needs that the fields the reader has in
addition are optional.

Apart from `Half`, assumed are only the ASSUMEs of the modules: types of the constants, that pids are
among 1..MaxPid (any finite set of pids is), and of the schema
(ContractAssumption) that its properties have keys of their own and that none of its arrays is
optional, as in event.schema.json; of `Plain` nothing is assumed but that it holds values of fields. The
inductive invariants of Service, Dashboard, Payload, EventContract and Poller (`PollerInv`) were checked by TLC first, on the
configurations of their runs; `dash` passes with Hot = {1, 3} and
MaxTs = 3 too, Payload's `IInv` with 3 processes and 2 files.

Only model-checked: everything under
fairness (`BufferedEventLeaves`, `ShutdownCompletes`, `EveryRequestAnswered`, `Terminates`,
`StaysCurrent`, `StoppedShowsFrozen`), as liveness is beyond this prover; and the counterexample of
`cache_duplicates`. Inductions over lists are proved as inductions over numbers
(`InductionOverNat`), for the recursive functions of the models.

## 5. What is abstracted, and what is not modelled

* A scan of the process list is one step, though it may leave processes out; that a pid is reused while the
  list is read is not modelled. A diff tick with its sends is one step too,
  except that a stop may cut it off after any of them. A sample never has the ts of a diff, nor do two
  ticks have the same; heartbeats are in Daemon only. Creation times of processes are
  distinct (`createNs`), and the wall clock goes forward.
* SQLite: a transaction is atomic and durable. With synchronous=NORMAL a power
  loss may undo the last commits; the file is then in an earlier state of
  `Store`. File modes, pragmas and WAL checkpoints are left out.
* In every module but EventCodec and EventContract the event is a number or a
  small record; encoding is taken to work or to fail the batch.
* EventCodec: enums and `Validate`, the order of keys in the input and Go names are left out. The value of a field
  is kept as such, not as it is written: the two languages write many strings and numbers
  differently (section 6, `SameBytes`: Python escapes all but ASCII, Go does not; a float that
  is whole is `1` in Go and `1.0` in Python). What is added to the schema is an optional or required
  property at the end of its top level.
* GraphCache keeps the list of events and not the graph, a function of it.
* Api: the capture is of one process. Requests that cannot be parsed or are not
  allowed are answered at once, with 404 standing for the other codes.
* Payload: children come in id order, which stands for busiest first. The attributes
  of nodes are left out.
* Service: a command is cut short between two steps of the model, or in the writing of the pidfile or a
  run of the service manager. What an uninstalled service leaves behind is nothing, and a service that is
  started runs (or does not get its port) at once. Of the arguments of a service, only that they are old is
  kept. `cg status`, `path`, `tree` and `ui` change nothing.
* Dashboard: drawing, the incident feed, file cards, the inspect drawer, the
  report export, the kill dialog and the debounce of the slider are left out;
  requests that get no answer fail before they are answered. The value of an alert rule is of the list alone
  (the code also leaves out processes whose last sample is much older than `lastTs`), and a list or a graph of the past
  still has what has been evicted since.
* File-watch rule: one watched path, which every process names; the normalisation of
  paths and the exe filled in by a later event are left out. With the defaults
  (exp(-dt/60 s), 0.72 at most) a cause is below 0.5 from an age of 21.9 s on,
  within the window of 30 s: hence ConfidentDt < Window.
* File changes are stored in the order of their ts; in the daemon one may be
  stored after younger events of the poller. The graph sorts by ts.
* Inspect and incidents: samples and instances, not the peaks, means and texts made
  of them; the leak cards are left out.
* The ranking of processes by their peaks, configuration, the benchmarks, packaging and
  the page's markup are not modelled: they keep no state that an order of events could
  disturb.

## 6. Refuted claims: where code and comments part

One run ends in a violation: `cache_duplicates`. The
following claims are stated in the modules as well, next to the properties that hold
under the reservation named there. To see TLC refute one, put it in place of
the properties of the configuration named ("Spec": and give it this specification).

| property | configuration | what happens | the claim |
|---|---|---|---|
| NeverHeldDuringRebuild | MCCache, Spec, AsOf = {1} | `_view` rebuilds the slice under `_CACHE_LOCK`, and every other request waits | server.py:26 "never held during a rebuild" |
| PastSliceIsStable | MCCache, Spec, AsOf = {1}, MaxRows = 9 | rows are committed up to a batch interval after their ts; a slice cached before misses them | server.py:244 "append-only ts, so a past slice is stable" |
| SliceOfThisCapture | MCCache, Spec, AsOf = {1} | a request that loaded the old capture stores its slice after another one's reset cleared it | server.py:68 "a fresh capture invalidates any cached time-travel slice" |
| NoRowMissed without `torn` | MCCache | an eviction between MIN(seq) and the rows makes the next trim delete rows still stored | server.py:61 "drop that contiguous front" |
| Freshness without `torn` | MCCache | a new file with as many rows as the old one is taken for it | server.py:38 "full reload if the DB was reset/replaced" |
| NeverCollapse | MCCapture | a process seen first at the exit that its reused pid causes opens an instance with the same ts as the next one | diff.go:12-13 "the two never collapse into one graph node" |
| SamplesCreditedRight | MCCapture | a sample between the reuse and the diff that sees it goes to the old process | attribution.py:3 "(pid-reuse safe)" |
| InferredPredatesCapture | MCCapture | a process sampled before its spawn is reported opens an inferred instance | builder.py:27 "starts an inferred one for a process that pre-dated capture" |
| TrueParent without `faults` | MCCapture | a parent that ended while no recorder ran is still the latest instance of its pid | spawn.py:1-2 "the one CERTAIN edge" |
| ParentAlwaysTrue | MCCapture | the scan that first sees a process leaves its parent out (`Ppid` or `CreateTime` failed), and an earlier process had the parent's pid: the edge is from that one | spawn.py:26-27 "The instance of pid==child.ppid that was live at the child's spawn" |
| OneProcessPerCard | MCCapture | the statistics of a card are kept per pid, under the name of the first process that had it | server.py:291 "sustained high CPU across {s['hot']} samples" |
| CrashLoopsAlwaysReal | MCCapture | a failed scan makes every process exit, and spawn again | server.py:297 "not long-running worker pools" |
| CauseComesFirst | MCCapture | a process that was there before the recorder is first sampled, or seen to exit, after a change, and its instance begins then | file_watch.py:1-2 "a file changed shortly before a process that references it started" |
| ReportedOnce without `faults` | MCCapture | the first scan fails: every process is reported as spawned by the next | poll.go:112 "no spawn flood for already-running processes" |
| SpawnDagIsAcyclic | MCCapture, Busy = {2, 3} | inferred instances of reused pids become each other's parents | traverse.py:44 "a spawn DAG is acyclic" |
| FamilyTerminates | MCPayload | the family walk queues children that are selected already: a cycle below the culprit that stays under the cap is walked for ever | server.py:179 "bounded BFS of the subtree", traverse.py:45 "pid data is untrusted" |
| WeakEdgesHidden | MCPayload | the core view writes out every edge between its nodes: a file that is there as a confident cause of one process is shown as a weak cause of another | traverse.py:32-33 "weak edges are hidden unless min_confidence is lowered" |
| NeverDropped | MCApi | `/api/window` opens the database outside of its `try`, and a file of the page is read outside of any (server.py:421); if that fails the connection is closed without an answer | server.py:510-511 "return a clean JSON error, never a stack-trace 500" |
| KillsTheProcessShown | MCApi | the process ends and its pid is reused while the page asks for confirmation | server.py:471 "Only ever a single, specific process" |
| NeverDrift | MCWire | a release is tagged after an edit without `make gen`, or after one that was interrupted; the release workflow does not run the check | docs/schema.md:5 "they can never drift" |
| SameBytes | MCWire | `json.dumps` of reader.py:46 escapes what is not ASCII and writes 1e-07; Go writes the characters themselves and 1e-7 | docs/schema.md:24-25 "both languages serialize an event to exactly the same bytes", codec.go:9-11 "the bytes match what other languages (Python) produce" |
| ReadsWhateverIsAdded | MCWire | a required property is added: `from_dict` raises for every row recorded before | docs/schema.md:31 "additive changes to the schema" |
| FamilyShowsCulprit | MCPayload | an ancestry longer than the cap fills the family view from the root | server.py:324 "a payload always has at least the culprit" |
| FamilyFlagsTheCut | MCPayload | the walk stops at the cap without the flag | test_api.py:194 "capped -> flagged as truncated" |
| OneWriterIfLate | MCService | `stop` gives up, removes the pidfile, and the next command starts a second recorder; or `cg up` comes while systemd is about to restart the service, which is not "active" then | service.py:303 "avoid two writers on the DB" |
| OneWriterIfLogin | MCService | an installed service that was not started starts at the next login, and a recorder of `cg up` has run through the logout | service.py:303 "avoid two writers on the DB" |
| OneWriterIfCut | MCService | `cg up` is cut short between the start of the recorder and the writing of the pidfile; the next one starts a second recorder | service.py:96 "Idempotent" |
| AlreadyIfCut | MCService | `cg down` is cut short while it waits; the pidfile stays, the recorder exits, and `cg up` finds another program, or the recorder on its way out, and starts none | service.py:96 `returns ("already", pid) if one is live` |
| UpRecords | MCService | after `cg setup` and `cg service uninstall` (what `cg down` tells the user to run), `cg up` finds the UI's service and starts no recorder | cli.py:83 "ensure a background recorder is capturing" |
| SetupTakesEffect | MCService | `systemctl enable --now` leaves a running service as it is, with the database of an earlier setup | cli.py:152 "recording  → {db}" |
| SetupInstalls | MCService | nobody looks at what the service manager answered | cli.py:151 "CauseGraph is set up and self-managing" |
| OneWriter without `mishaps` | MCService | two `cg up` at once start two recorders | service.py:96 "Idempotent" |
| ActsOnTheRecorder without `mishaps` | MCService | a recorder that crashed under a serving `cg up` is a zombie and counts as live | service.py:96 "if one is live" |
| ActsOnTheRecorder without `mishaps` | MCService | the pidfile outlives a crash and names another program | service.py:117 "SIGTERM the recorder" |
| FrozenMeansStopped | MCDash | a recorder with nothing new for two polls is called frozen | app.js:59-60 |
| AlertsOnLiveData | MCDash, MaxTs = 3, MaxClicks = 3, MaxFails = 0, no CONSTRAINT | a rewound list answered after the return to live fires an alert | app.js:638 "don't fire on rewound/past data" |
| FiresOnCrossingOnly | MCDash, Hot = {1} | the list requested on load fails, the rule is not primed, and the first poll that succeeds fires it | app.js:635-636 "a rule that's ALREADY above its threshold doesn't fire a spurious alert on every page reload" |
| FiresOncePerCrossing without `overlapped` | MCDash | an older list applied after a newer one disarms the rule | app.js:620 "A rule fires ONCE when it crosses" |
| GraphOfCurrentPid | MCDash | two picks answered out of order | app.js:50 "the pid whose family the graph currently shows" |
| RewoundList | MCDash | a poll under way when the user rewinds is answered last | app.js:933 "Viewing the past" |
| RewoundGraph | MCDash | the process shown is not born at the time rewound to: the graph stays live | app.js:933 |

Also noticed: an UI service that does not get its port (a `cg up` is serving) is given up
by systemd and stays off when the port is free again; `running_pid` is said to clear a stale pidfile (service.py:81)
and does not; a `SampleInterval` of zero makes `NewTicker` panic (poll.go:127).

## 7. Plan

Done in this order, by importance: the write path (Buffer, Pipeline, Store,
Daemon), the read path (GraphCache), the truth of the graph (Poller,
CausalGraph, FileWatchRule, ResourceViews, Capture), the cadence, the views, the service manager, the page;
then the proofs of Pipeline and Store; then the contract between the two programs (EventCodec,
EventContract), the HTTP handler (Api), the remaining views and the tree, and both service managers;
then the proofs of Daemon, GraphCache, Api, Service, Dashboard, Payload and PollCadence, and last
those of EventContract and Capture. With them every safety property of the runs is a theorem.

Next, extending the model (the faults of commands, scans and requests are in it already):

1. file changes stored late, after younger events of the poller, and several paths.
2. the leak cards (`server.py` 281-296).
3. the file watcher's set of directories and its rename handling.
4. Store and GraphCache composed: the log of GraphCache as a refinement of RowRing.
5. an abstract specification of the cache (a snapshot reader) that untorn builds implement.
