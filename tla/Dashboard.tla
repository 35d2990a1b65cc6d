------------------------------ MODULE Dashboard ------------------------------
(***************************************************************************)
(* ui/app.js: the page polls the engine and lets the user pick processes   *)
(* and rewind.  JavaScript runs one handler at a time, but every await is a *)
(* gap in which any other handler may run, and answers return in any order. *)
(*                                                                         *)
(* What an answer holds is told by its ts: the newest event when a live    *)
(* request was answered, or the as_of asked for.  Layout, filters, overlays *)
(* and toasts are left out, and so are file cards and the expanded flag,    *)
(* which only widens the answer.  The value of an alert rule is taken to be  *)
(* of the list alone (that lastTs, too, decides whose samples count is left  *)
(* out), and a list or a graph of the past to have what was evicted since.   *)
(***************************************************************************)
EXTENDS Integers, FiniteSets

CONSTANTS
  Proc,        \* pids
  Born,        \* pid -> ts of its first event
  Gone,        \* pid -> ts of the event at which the store has evicted all of its events
  Related,     \* all of them are one family
  Hot,         \* the ts at which an alert rule is above its threshold
  Call,        \* calls of async functions under way (bound)
  MaxDetails,  \* bound: /api/proc requests under way
  MaxTs,       \* bound: the capture's last event
  MaxClicks,   \* bound: what the user does
  MaxFails     \* bound: requests that fail

ASSUME DashboardAssumption ==
  /\ Proc \subseteq Nat \ {0} /\ IsFiniteSet(Proc)
  /\ Born \in [Proc -> Nat \ {0}] /\ Gone \in [Proc -> Nat]
  /\ \A p \in Proc : Born[p] < Gone[p]
  /\ Related \in BOOLEAN
  /\ {MaxDetails, MaxTs, MaxClicks, MaxFails} \subseteq Nat

VARIABLES
  asOf,         \* the time viewed, or Live
  currentPid,   \* whose family a refresh asks for; 0 is null
  selected,     \* selectedId
  inspector,    \* whose details the panel shows
  details,      \* the /api/proc requests of selectNode
  list,         \* allProcs: the time asked for and the ts answered
  graph,        \* graphData: the same, and the pid
  call,         \* what each call waits for
  refreshing,
  lastTs, staleCount, frozen,
  autoOn,       \* autoMs is not 0
  interacting,  \* hover, pan, search, open drawer or a hidden tab
  active,       \* the rule's active flag
  fired,        \* alerts fired so far
  newest,       \* the capture's newest event
  recording,    \* a recorder is writing
  loadTs,       \* history: the newest event when the page was loaded
  clicks, fails,
  overlapped    \* history: the user or the timer did not wait for all answers

viewVars == <<asOf, currentPid, list, graph>>
panelVars == <<selected, inspector, details>>
pollVars == <<lastTs, staleCount, frozen>>
alertVars == <<active, fired>>
userVars == <<autoOn, interacting>>
worldVars == <<newest, recording, loadTs, clicks, fails, overlapped>>
vars == <<viewVars, panelVars, call, refreshing, pollVars, alertVars, userVars, worldVars>>

Live == 0
Nothing == [as |-> Live, ts |-> 0]
Request(op, p, as) == [op |-> op, pid |-> p, as |-> as, ts |-> 0, found |-> TRUE]
NoCall == Request("none", 0, Live)

(* loadAll() and setAuto() have just been called. *)
Init ==
  /\ asOf = Live /\ currentPid = 0
  /\ selected = 0 /\ inspector = 0 /\ details = {}
  /\ list = Nothing /\ graph = [as |-> Live, ts |-> 0, pid |-> 0]
  /\ call \in {[c \in Call |-> IF c = d THEN Request("loadMeta", 0, Live) ELSE NoCall] : d \in Call}
  /\ refreshing = FALSE
  /\ lastTs = 0 /\ staleCount = 0 /\ frozen = FALSE
  /\ autoOn = TRUE /\ interacting = FALSE
  /\ active = FALSE /\ fired = 0
  /\ newest = 1 /\ recording = TRUE /\ loadTs = 1
  /\ clicks = 0 /\ fails = 0 /\ overlapped = FALSE

Min2(a, b) == IF a < b THEN a ELSE b

(* The processes an answer of this ts knows, and those in a graph of p. *)
Known(ts) == {p \in Proc : Born[p] <= ts /\ ts < Gone[p]}
Family(p, ts) == IF Related THEN Known(ts) ELSE {p}

Waits(c, op) == call[c].op = op /\ call[c].ts # 0
Idle(c) == call[c].op = "none"

(* Nothing is under way. *)
Settled == (\A c \in Call : Idle(c)) /\ details = {}

Overlap == overlapped' = (overlapped \/ ~Settled)

(* A call awaits its next answer; asq appends as_of at this moment, but not *)
(* to /api/meta.                                                            *)
Fetch(c, op, p) == call' = [call EXCEPT ![c] = Request(op, p, asOf)]
FetchMeta(c, op) == call' = [call EXCEPT ![c] = Request(op, 0, Live)]

Return(c) == call' = [call EXCEPT ![c] = NoCall]

-----------------------------------------------------------------------------
(* The capture and the engine. *)

Record ==
  /\ recording
  /\ newest < MaxTs
  /\ newest' = newest + 1
  /\ UNCHANGED <<viewVars, panelVars, call, refreshing, pollVars, alertVars, userVars,
                 recording, loadTs, clicks, fails, overlapped>>

StopRecorder ==
  /\ recording
  /\ recording' = FALSE
  /\ UNCHANGED <<viewVars, panelVars, call, refreshing, pollVars, alertVars, userVars,
                 newest, loadTs, clicks, fails, overlapped>>

(* The engine finds a process if the store has an event of it, and one that *)
(* is not after the time asked for.                                         *)
Finds(p, ts) == p # 0 => Born[p] <= ts /\ newest < Gone[p]

Answer(c) ==
  /\ ~Idle(c) /\ call[c].ts = 0
  /\ LET ts == IF call[c].as = Live THEN newest ELSE call[c].as
     IN  call' = [call EXCEPT ![c].ts = ts, ![c].found = Finds(call[c].pid, ts)]
  /\ UNCHANGED <<viewVars, panelVars, refreshing, pollVars, alertVars, userVars, worldVars>>

-----------------------------------------------------------------------------
(* selectNode, as called by the handlers below. *)
SelectNode(p) ==
  /\ details' = details \cup {p}
  /\ Cardinality(details') <= MaxDetails
  /\ selected' = p
  /\ inspector' = p  \* a fresh selection is painted at once, an old one is kept

(* The answer is painted without looking whose it is. *)
PaintAnyDetails(p) ==
  /\ p \in details
  /\ details' = details \ {p}
  /\ inspector' = p
  /\ UNCHANGED <<viewVars, selected, call, refreshing, pollVars, alertVars, userVars, worldVars>>

(* selectNode after its await. *)
PaintDetails(p) ==
  /\ p \in details
  /\ details' = details \ {p}
  /\ inspector' = IF selected = p THEN p ELSE inspector
  /\ UNCHANGED <<viewVars, selected, call, refreshing, pollVars, alertVars, userVars, worldVars>>

-----------------------------------------------------------------------------
(* refreshData *)

(* evaluateAlerts, on the list just taken over and only when not rewound;   *)
(* prime arms the rule without firing it.                                   *)
Crossed == list'.ts \in Hot
Rising == asOf = Live /\ Crossed /\ ~active

(* Fires for as long as the rule is above its threshold. *)
EvaluateEveryPoll(prime) ==
  /\ active' = IF asOf = Live THEN Crossed ELSE active
  /\ fired' = IF asOf = Live /\ Crossed /\ ~prime THEN Min2(fired + 1, MaxTs) ELSE fired

EvaluateAlerts(prime) ==
  /\ active' = IF asOf = Live THEN Crossed ELSE active
  /\ fired' = IF Rising /\ ~prime THEN Min2(fired + 1, MaxTs) ELSE fired

RefreshData ==
  /\ refreshing' = TRUE
  /\ \E c \in Call : Idle(c) /\ call' = [call EXCEPT ![c] = Request("list", 0, asOf')]

GotList(c) ==
  /\ Waits(c, "list")
  /\ list' = [as |-> call[c].as, ts |-> call[c].ts]
  /\ EvaluateAlerts(FALSE)
  /\ IF currentPid # 0 THEN Fetch(c, "graph", currentPid) ELSE FetchMeta(c, "meta")
  /\ UNCHANGED <<asOf, currentPid, graph, panelVars, refreshing, pollVars, userVars, worldVars>>

(* applyGraphUpdate: the selection stays if the new graph has it, which it   *)
(* always has when the nodes are the same.                                  *)
ShowGraph(c) ==
  LET a == call[c]
  IN  /\ graph' = [as |-> a.as, ts |-> a.ts, pid |-> a.pid]
      /\ SelectNode(IF selected \in Family(a.pid, a.ts) THEN selected ELSE a.pid)

(* A process that the engine does not find leaves the graph what it was.    *)
GotGraph(c) ==
  /\ Waits(c, "graph")
  /\ \/ call[c].found /\ ShowGraph(c)
     \/ ~call[c].found /\ UNCHANGED <<graph, panelVars>>
  /\ FetchMeta(c, "meta")
  /\ UNCHANGED <<asOf, currentPid, list, refreshing, pollVars, alertVars, userVars, worldVars>>

(* Counts a poll as fresh when the newest event is the one known. *)
NoteTsOrEqual(ts) ==
  IF ts >= lastTs
    THEN lastTs' = ts /\ staleCount' = 0 /\ frozen' = FALSE
    ELSE /\ staleCount' = Min2(staleCount + 1, 2)
         /\ frozen' = (frozen \/ staleCount' = 2)
         /\ UNCHANGED lastTs

NoteTs(ts) ==
  IF ts > lastTs
    THEN lastTs' = ts /\ staleCount' = 0 /\ frozen' = FALSE
    ELSE /\ staleCount' = Min2(staleCount + 1, 2)
         /\ frozen' = (frozen \/ staleCount' = 2)
         /\ UNCHANGED lastTs

GotMeta(c) ==
  /\ Waits(c, "meta")
  /\ NoteTs(call[c].ts)
  /\ Return(c)
  /\ refreshing' = FALSE
  /\ UNCHANGED <<viewVars, panelVars, alertVars, userVars, worldVars>>

(* The engine answers a request of refreshData with an error, or /api/meta   *)
(* with null: the refresh goes on, and the poll was a stale one.            *)
NotOk(c) ==
  /\ fails < MaxFails
  /\ fails' = fails + 1
  /\ \/ /\ Waits(c, "list") /\ currentPid # 0
        /\ Fetch(c, "graph", currentPid)
        /\ UNCHANGED <<refreshing, pollVars>>
     \/ /\ Waits(c, "graph") \/ (Waits(c, "list") /\ currentPid = 0)
        /\ FetchMeta(c, "meta")
        /\ UNCHANGED <<refreshing, pollVars>>
     \/ /\ Waits(c, "meta")
        /\ NoteTs(0)
        /\ Return(c)
        /\ refreshing' = FALSE
  /\ UNCHANGED <<viewVars, panelVars, alertVars, userVars,
                 newest, recording, loadTs, clicks, overlapped>>

(* The catch of refreshData without its finally. *)
FailStaysRefreshing(c) ==
  /\ ~Idle(c) /\ call[c].op \notin {"loadMeta", "candidate"}
  /\ fails < MaxFails
  /\ fails' = fails + 1
  /\ Return(c)
  /\ UNCHANGED <<viewVars, panelVars, refreshing, pollVars, alertVars, userVars,
                 newest, recording, loadTs, clicks, overlapped>>

(* A request gets no answer, or one that is no JSON: refreshData gives up   *)
(* till the next poll, the others leave the view as it is.                  *)
Fail(c) ==
  /\ ~Idle(c) /\ call[c].op \notin {"loadMeta", "candidate"}
  /\ fails < MaxFails
  /\ fails' = fails + 1
  /\ Return(c)
  /\ refreshing' = (refreshing /\ call[c].op \notin {"list", "graph", "meta"})
  /\ UNCHANGED <<viewVars, panelVars, pollVars, alertVars, userVars,
                 newest, recording, loadTs, clicks, overlapped>>

(* autoTick, when the interval timer fires. *)
AutoTick ==
  /\ autoOn /\ ~refreshing /\ ~interacting /\ asOf = Live
  /\ UNCHANGED asOf
  /\ RefreshData
  /\ Overlap
  /\ UNCHANGED <<currentPid, list, graph, panelVars, pollVars, alertVars, userVars,
                 newest, recording, loadTs, clicks, fails>>

-----------------------------------------------------------------------------
(* loadAll *)

LoadMeta(c) ==
  /\ Waits(c, "loadMeta")
  /\ lastTs' = call[c].ts
  /\ Fetch(c, "loadList", 0)
  /\ UNCHANGED <<viewVars, panelVars, refreshing, staleCount, frozen, alertVars, userVars, worldVars>>

(* The busiest processes are tried in turn; pid order stands for busiest.   *)
LoadList(c) ==
  /\ Waits(c, "loadList")
  /\ list' = [as |-> call[c].as, ts |-> call[c].ts]
  /\ EvaluateAlerts(TRUE)
  /\ \/ /\ Known(call[c].ts) = {}
        /\ Return(c)
     \/ \E p \in Known(call[c].ts) :
          /\ \A q \in Known(call[c].ts) : p <= q
          /\ Fetch(c, "candidate", p)
  /\ UNCHANGED <<asOf, currentPid, graph, panelVars, refreshing, pollVars, userVars, worldVars>>

(* The next candidate is tried; after the last one the first is focused.    *)
NextCandidate(c) ==
  \E p \in Known(list.ts) :
    \/ /\ p > call[c].pid
       /\ \A q \in Known(list.ts) : q > call[c].pid => p <= q
       /\ Fetch(c, "candidate", p)
       /\ UNCHANGED currentPid
    \/ /\ \A q \in Known(list.ts) : p <= q /\ q <= call[c].pid
       /\ currentPid' = p
       /\ Fetch(c, "focus", p)

(* A candidate with a family is shown. *)
LoadCandidate(c) ==
  /\ Waits(c, "candidate")
  /\ \/ /\ call[c].found /\ Cardinality(Family(call[c].pid, call[c].ts)) > 1
        /\ currentPid' = call[c].pid
        /\ graph' = [as |-> call[c].as, ts |-> call[c].ts, pid |-> call[c].pid]
        /\ SelectNode(call[c].pid)
        /\ Return(c)
     \/ /\ call[c].found => Cardinality(Family(call[c].pid, call[c].ts)) <= 1
        /\ NextCandidate(c)
        /\ UNCHANGED <<graph, panelVars>>
  /\ UNCHANGED <<asOf, list, refreshing, pollVars, alertVars, userVars, worldVars>>

(* Neither ends the load: the meta line is skipped, the candidate passed over. *)
LoadFails(c) ==
  /\ fails < MaxFails
  /\ fails' = fails + 1
  /\ \/ call[c].op = "loadMeta" /\ Fetch(c, "loadList", 0) /\ UNCHANGED currentPid
     \/ call[c].op = "candidate" /\ NextCandidate(c)
  /\ UNCHANGED <<asOf, list, graph, panelVars, refreshing, pollVars, alertVars, userVars,
                 newest, recording, loadTs, clicks, overlapped>>

-----------------------------------------------------------------------------
(* The user. *)

Click == clicks < MaxClicks /\ clicks' = clicks + 1 /\ Overlap

(* A row of the list: focusPid. *)
FocusPid(p) ==
  /\ Click
  /\ p \in Known(list.ts)
  /\ currentPid' = p
  /\ \E c \in Call : Idle(c) /\ Fetch(c, "focus", p)
  /\ UNCHANGED <<asOf, list, graph, panelVars, refreshing, pollVars, alertVars, userVars,
                 newest, recording, loadTs, fails>>

(* focusPid after its await; an error leaves the graph. *)
GotFocus(c) ==
  /\ Waits(c, "focus")
  /\ \/ /\ call[c].found
        /\ graph' = [as |-> call[c].as, ts |-> call[c].ts, pid |-> call[c].pid]
        /\ SelectNode(call[c].pid)
     \/ ~call[c].found /\ UNCHANGED <<graph, panelVars>>
  /\ Return(c)
  /\ UNCHANGED <<asOf, currentPid, list, refreshing, pollVars, alertVars, userVars, worldVars>>

(* A card of the graph. *)
ClickCard(p) ==
  /\ Click
  /\ graph.pid # 0 /\ p \in Family(graph.pid, graph.ts)
  /\ SelectNode(p)
  /\ UNCHANGED <<viewVars, call, refreshing, pollVars, alertVars, userVars,
                 newest, recording, loadTs, fails>>

(* "show more" *)
ExpandCurrent ==
  /\ Click
  /\ graph.pid # 0
  /\ \E c \in Call : Idle(c) /\ Fetch(c, "expand", currentPid)
  /\ UNCHANGED <<viewVars, panelVars, refreshing, pollVars, alertVars, userVars,
                 newest, recording, loadTs, fails>>

GotExpand(c) ==
  /\ Waits(c, "expand")
  /\ \/ call[c].found /\ ShowGraph(c)
     \/ ~call[c].found /\ UNCHANGED <<graph, panelVars>>
  /\ Return(c)
  /\ UNCHANGED <<asOf, currentPid, list, refreshing, pollVars, alertVars, userVars, worldVars>>

(* The handle is dropped in the past: commitAsOf, once its debounce is over. *)
CommitAsOf(t) ==
  /\ Click
  /\ list.ts # 0 /\ t < lastTs  \* the track is there, and t is on it
  /\ asOf' = t
  /\ RefreshData
  /\ UNCHANGED <<currentPid, list, graph, panelVars, pollVars, alertVars, userVars,
                 newest, recording, loadTs, fails>>

(* Back to now, but nothing is asked for before the next poll. *)
SnapLiveLater ==
  /\ Click
  /\ asOf # Live
  /\ asOf' = Live
  /\ UNCHANGED <<currentPid, list, graph, panelVars, call, refreshing, pollVars, alertVars,
                 userVars, newest, recording, loadTs, fails>>

(* The handle at the right edge, or the Live button. *)
SnapLive ==
  /\ Click
  /\ asOf # Live
  /\ asOf' = Live
  /\ RefreshData
  /\ UNCHANGED <<currentPid, list, graph, panelVars, pollVars, alertVars, userVars,
                 newest, recording, loadTs, fails>>

(* The refresh that killPid schedules asks nobody whether it may run. *)
AfterKill ==
  /\ Click
  /\ UNCHANGED asOf
  /\ RefreshData
  /\ UNCHANGED <<currentPid, list, graph, panelVars, pollVars, alertVars, userVars,
                 newest, recording, loadTs, fails>>

(* setAuto: the Live button cycles through the intervals and off. *)
SetAuto ==
  /\ Click
  /\ asOf = Live
  /\ autoOn' = ~autoOn
  /\ staleCount' = IF autoOn THEN staleCount ELSE 0
  /\ frozen' = (frozen /\ autoOn)
  /\ UNCHANGED <<viewVars, panelVars, call, refreshing, lastTs, alertVars, interacting,
                 newest, recording, loadTs, fails>>

Interact ==
  /\ Click
  /\ interacting' = ~interacting
  /\ UNCHANGED <<viewVars, panelVars, call, refreshing, pollVars, alertVars, autoOn,
                 newest, recording, loadTs, fails>>

User ==
  \/ \E p \in Proc : FocusPid(p) \/ ClickCard(p)
  \/ ExpandCurrent \/ SnapLive \/ AfterKill \/ SetAuto \/ Interact
  \/ \E t \in 1..MaxTs : CommitAsOf(t)

Resume(c) ==
  \/ GotList(c) \/ GotGraph(c) \/ GotMeta(c) \/ GotFocus(c) \/ GotExpand(c)
  \/ LoadMeta(c) \/ LoadList(c) \/ LoadCandidate(c)

Background ==
  \/ Record \/ StopRecorder
  \/ \E c \in Call : Answer(c) \/ Resume(c) \/ NotOk(c) \/ Fail(c) \/ LoadFails(c)
  \/ \E p \in Proc : PaintDetails(p)

Next == Background \/ AutoTick \/ User

Spec == Init /\ [][Next]_vars

(* Requests are answered and answers handled, and the interval timer fires. *)
FairSpec ==
  /\ Spec
  /\ \A c \in Call : WF_vars(Answer(c)) /\ WF_vars(Resume(c))
  /\ \A p \in Proc : WF_vars(PaintDetails(p))
  /\ WF_vars(AutoTick)

-----------------------------------------------------------------------------

(* A slow answer about a process selected before never replaces the details *)
(* of the one selected now.                                                 *)
InspectorShowsSelected == inspector = selected

(* Once everything under way has ended the page shows one moment, the one   *)
(* asked for, and the family of currentPid ("the pid whose family the graph *)
(* currently shows"), unless that process was not born then, or has been    *)
(* evicted.  (As long as nobody clicks ahead of the answers and no request  *)
(* fails.)                                                                  *)
SettledView ==
  Settled /\ ~overlapped /\ fails = 0 /\ list.ts # 0 =>
    /\ list.as = asOf
    /\ currentPid = 0 => graph.pid = 0
    /\ currentPid # 0 /\ newest < Gone[currentPid] =>
         graph.pid = currentPid /\ (Born[currentPid] <= list.ts => graph.as = asOf)

(* How often the rule's value has risen above its threshold since loading.  *)
Crossings == Cardinality({t \in (loadTs + 1)..newest : t \in Hot /\ t - 1 \notin Hot})

(* When the load's request fails, the rule is not primed, and a value that  *)
(* was above the threshold all along fires it once.                         *)
FiresUnprimed == IF fails > 0 /\ loadTs \in Hot THEN 1 ELSE 0

(* "A rule fires ONCE when it crosses its threshold", and one that is above *)
(* it when the page is loaded does not fire, unless its load failed.        *)
(* Requests may fail, but answers must not overtake one another.            *)
FiresOncePerCrossing == ~overlapped => fired <= Crossings + FiresUnprimed

(* "a rule that's ALREADY above its threshold doesn't fire a spurious alert *)
(* on every page reload" (evaluateAlerts).                                  *)
FiresOnCrossingOnly == ~overlapped => fired <= Crossings

(* The page is live and left alone. *)
Watching == asOf = Live /\ autoOn /\ ~interacting

(* A page left alone ends up with the newest data and keeps it, whatever    *)
(* answers were late or lost before; but of a process that the store has    *)
(* evicted the graph stays an old one.                                      *)
StaysCurrent ==
  <>[]Watching => <>[](/\ list = [as |-> Live, ts |-> newest]
                       /\ currentPid # 0 /\ newest < Gone[currentPid] =>
                            graph = [as |-> Live, ts |-> newest, pid |-> currentPid])

(* "the recorder has stopped writing - say frozen": the page finds out.     *)
StoppedShowsFrozen == <>[](Watching /\ ~recording) => <>[]frozen

(* "if the newest event ts stops advancing for 2 polls, the recorder has    *)
(* stopped writing" (app.js).                                               *)
FrozenMeansStopped == frozen => ~recording

(* "don't fire on rewound/past data" (evaluateAlerts).                      *)
AlertsOnLiveData == [][fired' # fired => list'.as = Live]_vars

(* "the pid whose family the graph currently shows" (currentPid).           *)
GraphOfCurrentPid == Settled => graph.pid = currentPid

(* "Viewing the past" (the Live button's title): the list is of asOf.       *)
RewoundList == Settled /\ asOf # Live => list.as = asOf

(* The same for the graph.                                                  *)
RewoundGraph == Settled /\ asOf # Live => graph.as = asOf
=============================================================================
