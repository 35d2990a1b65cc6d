--------------------------- MODULE DashboardProofs ---------------------------
(***************************************************************************)
(* Theorems about the page, for every set of processes and calls, every    *)
(* alert rule and every bound.                                             *)
(***************************************************************************)
EXTENDS Dashboard, FiniteSetTheorems, WellFoundedInduction, TLAPS

Ops == {"none", "loadMeta", "loadList", "candidate", "list", "graph", "meta", "focus", "expand"}
Req == [op : Ops, pid : Proc \cup {0}, as : Nat, ts : Nat, found : BOOLEAN]

TypeOK ==
  /\ asOf \in Nat /\ currentPid \in Proc \cup {0}
  /\ selected \in Proc \cup {0} /\ inspector \in Proc \cup {0} /\ details \in SUBSET Proc
  /\ list \in [as : Nat, ts : Nat]
  /\ graph \in [as : Nat, ts : Nat, pid : Proc \cup {0}]
  /\ call \in [Call -> Req]
  /\ refreshing \in BOOLEAN /\ frozen \in BOOLEAN /\ autoOn \in BOOLEAN /\ interacting \in BOOLEAN
  /\ active \in BOOLEAN /\ recording \in BOOLEAN /\ overlapped \in BOOLEAN
  /\ lastTs \in Nat /\ staleCount \in Nat /\ fired \in Nat
  /\ newest \in Nat /\ loadTs \in Nat /\ clicks \in Nat /\ fails \in Nat

-----------------------------------------------------------------------------
(* The inductive invariant. *)

(* The requests about a process name one, and the page then has a current one. *)
PidInv ==
  /\ \A c \in Call : call[c].op \in {"candidate", "graph", "focus", "expand"} => call[c].pid # 0
  /\ \A c \in Call : call[c].op \in {"graph", "focus", "expand"} => currentPid # 0
  /\ graph.pid # 0 => currentPid # 0

(* An answer is no younger than the capture, and one about the past is of   *)
(* the time asked for.                                                      *)
InTime(a) == a.ts # 0 => IF a.as = Live THEN a.ts <= newest ELSE a.ts = a.as

(* One that misses a process is of a time before its birth, or the process  *)
(* is evicted by now.                                                       *)
Missed(p, ts) == p # 0 /\ (Born[p] > ts \/ Gone[p] <= newest)
FoundInv == \A c \in Call : call[c].ts # 0 /\ ~call[c].found => Missed(call[c].pid, call[c].ts)

TimeInv ==
  /\ 1 <= loadTs /\ loadTs <= newest
  /\ InTime(list)
  /\ \A c \in Call : InTime(call[c])

(* Whoever waits for the answers has one call under way at a time, ...      *)
SingleInv == ~overlapped => \A c, d \in Call : ~Idle(c) /\ ~Idle(d) => c = d

(* ... which asks for the time viewed; and the page is live, and shows no   *)
(* process, until it is loaded.                                             *)
Loading == {"loadMeta", "loadList", "candidate"}
AsksNow(c) == call[c].op \in {"list", "loadList", "candidate", "graph", "focus", "expand"} => call[c].as = asOf
AskInv ==
  ~overlapped => \A c \in Call :
    /\ AsksNow(c)
    /\ call[c].op \in Loading => asOf = Live /\ currentPid = 0 /\ graph.pid = 0

(* The graph is of the process asked for, unless that is evicted.           *)
Stored == currentPid # 0 /\ newest < Gone[currentPid]
GraphIsCurrent ==
  /\ currentPid = 0 => graph.pid = 0
  /\ Stored => graph.pid = currentPid

(* The page shows the moment asked for. *)
Shows ==
  /\ list.as = asOf
  /\ GraphIsCurrent
  /\ Stored /\ Born[currentPid] <= list.ts => graph.as = asOf

(* What each call finds on the page, and what it will have answered.        *)
Later(c) == call[c].ts # 0 => list.ts <= call[c].ts
OnPage(c) ==
  /\ call[c].op = "list" => GraphIsCurrent
  /\ call[c].op = "graph" =>
       list.as = asOf /\ GraphIsCurrent /\ call[c].pid = currentPid /\ Later(c)
  /\ call[c].op = "focus" =>
       list.as = asOf /\ call[c].pid = currentPid /\ Born[currentPid] <= list.ts /\ Later(c)
  /\ call[c].op = "expand" => Shows /\ call[c].pid = currentPid
  /\ call[c].op = "candidate" => list.as = asOf /\ Born[call[c].pid] <= list.ts /\ Later(c)

Rests == \A c \in Call : call[c].op \in {"none", "meta"}

ViewInv == ~overlapped /\ fails = 0 => (Rests => Shows) /\ \A c \in Call : OnPage(c)

(* The crossings up to e.                                                   *)
CrossingsTo(e) == {t \in (loadTs + 1)..e : t \in Hot /\ t - 1 \notin Hot}

(* The rule was last evaluated on the data of e (loadTs before it was).     *)
Primes == \E c \in Call : call[c].op \in {"loadMeta", "loadList"}
EvaluatedOn(e) ==
  /\ fired <= Cardinality(CrossingsTo(e)) + FiresUnprimed
  /\ active => e \in Hot
  /\ ~active /\ e \in Hot => e = loadTs /\ fired = 0 /\ (fails > 0 \/ Primes)
  /\ \A c \in Call :
       call[c].op \in {"list", "loadList"} /\ call[c].as = Live /\ call[c].ts # 0 => e <= call[c].ts

AlertInv == ~overlapped => \E e \in loadTs..newest : EvaluatedOn(e)

IInv == /\ TypeOK /\ PidInv /\ TimeInv /\ FoundInv /\ SingleInv /\ AskInv /\ ViewInv /\ AlertInv
        /\ InspectorShowsSelected

-----------------------------------------------------------------------------
(* Requests. *)

LEMMA RequestType ==
  ASSUME NEW o \in Ops, NEW p \in Proc \cup {0}, NEW t \in Nat
  PROVE  Request(o, p, t) \in Req
BY DEF Request, Req, Live

LEMMA ProcsArePids ==
  \A p \in Proc : p # 0 /\ p \in Nat /\ Born[p] \in Nat /\ 1 <= Born[p] /\ Gone[p] \in Nat
BY DashboardAssumption

(* What a call holds after the steps that give it another request.          *)
LEMMA GivenTo ==
  ASSUME TypeOK, NEW c \in Call, NEW r \in Req, call' = [call EXCEPT ![c] = r]
  PROVE  call' \in [Call -> Req] /\ call'[c] = r /\ \A d \in Call : d # c => call'[d] = call[d]
BY DEF TypeOK

(* An answer fills in what was left open. *)
AnswerTs(c) == IF call[c].as = Live THEN newest ELSE call[c].as

LEMMA AnswerGives ==
  ASSUME TypeOK, NEW c \in Call, Answer(c)
  PROVE  /\ call' \in [Call -> Req]
         /\ call'[c].op = call[c].op /\ call'[c].pid = call[c].pid /\ call'[c].as = call[c].as
         /\ call'[c].ts = AnswerTs(c)
         /\ ~call'[c].found => ~Finds(call[c].pid, AnswerTs(c))
         /\ \A d \in Call : d # c => call'[d] = call[d]
<1>1. call[c] \in Req /\ call \in [Call -> Req] /\ newest \in Nat
  BY DEF TypeOK
<1>2. PICK t \in Nat : t = AnswerTs(c)
  BY <1>1 DEF AnswerTs, Req
<1>3. Finds(call[c].pid, t) \in BOOLEAN
  BY DEF Finds
<1>4. PICK f \in BOOLEAN : f = Finds(call[c].pid, t)
  BY <1>3
<1>5. call' = [call EXCEPT ![c].ts = t, ![c].found = f]
  BY <1>2, <1>4 DEF Answer, AnswerTs
<1>6. call' \in [Call -> Req]
  BY <1>1, <1>2, <1>4, <1>5 DEF Req
<1>7. call'[c].op = call[c].op /\ call'[c].pid = call[c].pid /\ call'[c].as = call[c].as /\ call'[c].ts = t
  BY <1>1, <1>2, <1>4, <1>5 DEF Req
<1>8. call'[c].found = f /\ \A d \in Call : d # c => call'[d] = call[d]
  BY <1>1, <1>2, <1>4, <1>5 DEF Req
<1>9. ~call'[c].found => ~Finds(call[c].pid, t)
  BY <1>4, <1>8
<1>q. QED BY <1>2, <1>6, <1>7, <1>8, <1>9

-----------------------------------------------------------------------------
(* Type correctness, together with the pids that the requests are about.    *)

PidTypes == TypeOK /\ PidInv

LEMMA InitPidTypes == ASSUME Init PROVE PidTypes
<1>1. Request("loadMeta", 0, Live) \in Req /\ NoCall \in Req
  BY DEF Request, NoCall, Req, Live, Ops
<1>2. PICK d \in Call : call = [c \in Call |-> IF c = d THEN Request("loadMeta", 0, Live) ELSE NoCall]
  BY DEF Init
<1>3. call \in [Call -> Req]
  BY <1>1, <1>2
<1>4. \A c \in Call : call[c].op \in {"loadMeta", "none"}
  BY <1>2 DEF Request, NoCall
<1>5. PidInv
  BY <1>4 DEF Init, PidInv
<1>6. TypeOK
  BY <1>3 DEF Init, TypeOK, Live, Nothing
<1>q. QED BY <1>5, <1>6 DEF PidTypes

(* The steps of a call. *)
CallStep(c) ==
  \/ Answer(c)
  \/ GotList(c) \/ GotGraph(c) \/ GotMeta(c) \/ GotFocus(c) \/ GotExpand(c)
  \/ LoadMeta(c) \/ LoadList(c) \/ LoadCandidate(c)
  \/ NotOk(c) \/ Fail(c) \/ LoadFails(c)

LEMMA Min2Type == ASSUME NEW a \in Nat, NEW b \in Nat PROVE Min2(a, b) \in Nat /\ Min2(a, b) <= a
BY DEF Min2

LEMMA ClickType == ASSUME TypeOK, Click PROVE clicks' \in Nat /\ overlapped' \in BOOLEAN
<1>1. clicks' \in Nat
  BY DEF Click, TypeOK
<1>2. overlapped' \in BOOLEAN
  BY DEF Click, Overlap, TypeOK
<1>q. QED BY <1>1, <1>2

LEMMA AlertsType ==
  ASSUME TypeOK, NEW prime \in BOOLEAN, EvaluateAlerts(prime)
  PROVE  active' \in BOOLEAN /\ fired' \in Nat
<1>1. active' \in BOOLEAN
  <2>1. CASE asOf = Live
    <3>1. active' = (list'.ts \in Hot)
      BY <2>1 DEF EvaluateAlerts, Crossed
    <3>q. QED BY <3>1
  <2>2. CASE asOf # Live
    BY <2>2 DEF EvaluateAlerts, TypeOK
  <2>q. QED BY <2>1, <2>2
<1>2. Min2(fired + 1, MaxTs) \in Nat
  <2>1. MaxTs \in Nat /\ fired + 1 \in Nat
    BY DashboardAssumption DEF TypeOK
  <2>q. QED BY <2>1, Min2Type
<1>q. QED BY <1>1, <1>2 DEF EvaluateAlerts, TypeOK

LEMMA NoteTsType ==
  ASSUME TypeOK, NEW t \in Nat, NoteTs(t)
  PROVE  lastTs' \in Nat /\ staleCount' \in Nat /\ frozen' \in BOOLEAN
<1>1. Min2(staleCount + 1, 2) \in Nat
  <2>1. staleCount + 1 \in Nat
    BY DEF TypeOK
  <2>q. QED BY <2>1, Min2Type
<1>2. CASE t > lastTs
  <2>1. lastTs' = t /\ staleCount' = 0 /\ frozen' = FALSE
    BY <1>2 DEF NoteTs
  <2>q. QED BY <2>1
<1>3. CASE ~(t > lastTs)
  <2>1. staleCount' = Min2(staleCount + 1, 2) /\ frozen' = (frozen \/ staleCount' = 2) /\ lastTs' = lastTs
    BY <1>3 DEF NoteTs
  <2>2. frozen' \in BOOLEAN
    BY <2>1
  <2>q. QED BY <1>1, <2>1, <2>2 DEF TypeOK
<1>q. QED BY <1>2, <1>3

(* A node is selected among the processes.                                  *)
LEMMA SelectType ==
  ASSUME TypeOK, NEW p \in Proc, SelectNode(p)
  PROVE  selected' \in Proc /\ inspector' \in Proc /\ details' \in SUBSET Proc
BY DEF SelectNode, TypeOK

LEMMA ShowType ==
  ASSUME TypeOK, NEW c \in Call, call[c].pid # 0, ShowGraph(c)
  PROVE  /\ selected' \in Proc /\ inspector' \in Proc /\ details' \in SUBSET Proc
         /\ graph' \in [as : Nat, ts : Nat, pid : Proc \cup {0}]
         /\ graph'.pid = call[c].pid /\ graph'.as = call[c].as
<1>1. call[c] \in Req /\ call[c].pid \in Proc
  BY DEF TypeOK, Req
<1>2. (IF selected \in Family(call[c].pid, call[c].ts) THEN selected ELSE call[c].pid) \in Proc
  BY <1>1 DEF Family, Known
<1>3. selected' \in Proc /\ inspector' \in Proc /\ details' \in SUBSET Proc
  BY <1>2, SelectType DEF ShowGraph
<1>q. QED BY <1>1, <1>3 DEF ShowGraph, Req

(* The next candidate is a process, and the last try is about the first.    *)
LEMMA NextCandidateGives ==
  ASSUME TypeOK, NEW c \in Call, NextCandidate(c)
  PROVE  \E p \in Known(list.ts), o \in {"candidate", "focus"} :
            /\ call' = [call EXCEPT ![c] = Request(o, p, asOf)]
            /\ currentPid' = IF o = "focus" THEN p ELSE currentPid
BY DEF NextCandidate, Fetch

LEMMA PidTypesStep == ASSUME PidTypes, [Next]_vars PROVE PidTypes'
<1> USE DEF PidTypes
<1>a. Live \in Nat /\ 0 \in Proc \cup {0}
  BY DEF Live
<1>t. ASSUME NEW c \in Call PROVE call[c] \in Req
  BY <1>t DEF TypeOK
<1>1. CASE UNCHANGED vars
  <2>1. UNCHANGED <<viewVars, panelVars, call, refreshing, pollVars, alertVars, userVars, worldVars>>
    BY <1>1 DEF vars
  <2>a. UNCHANGED <<asOf, currentPid, list, graph, selected, inspector, details, call, refreshing>>
    BY <2>1 DEF viewVars, panelVars
  <2>b. UNCHANGED <<lastTs, staleCount, frozen, active, fired, autoOn, interacting>>
    BY <2>1 DEF pollVars, alertVars, userVars
  <2>c. UNCHANGED <<newest, recording, loadTs, clicks, fails, overlapped>>
    BY <2>1 DEF worldVars
  <2>2. TypeOK'
    BY <2>a, <2>b, <2>c DEF TypeOK
  <2>3. PidInv'
    BY <2>a DEF PidInv
  <2>q. QED BY <2>2, <2>3
<1>2. CASE Record
  BY <1>2 DEF Record, viewVars, panelVars, pollVars, alertVars, userVars, TypeOK, PidInv
<1>3. CASE StopRecorder
  <2>a. UNCHANGED <<asOf, currentPid, list, graph, selected, inspector, details, call, refreshing>>
    BY <1>3 DEF StopRecorder, viewVars, panelVars
  <2>b. UNCHANGED <<lastTs, staleCount, frozen, active, fired, autoOn, interacting>>
    BY <1>3 DEF StopRecorder, pollVars, alertVars, userVars
  <2>c. UNCHANGED <<newest, loadTs, clicks, fails, overlapped>> /\ recording' \in BOOLEAN
    BY <1>3 DEF StopRecorder
  <2>2. TypeOK'
    BY <2>a, <2>b, <2>c DEF TypeOK
  <2>3. PidInv'
    BY <2>a DEF PidInv
  <2>q. QED BY <2>2, <2>3
<1>4. ASSUME NEW p \in Proc, PaintDetails(p) PROVE PidTypes'
  BY <1>4 DEF PaintDetails, viewVars, panelVars, pollVars, alertVars, userVars, worldVars, TypeOK, PidInv
<1>5. ASSUME NEW p \in Proc, ClickCard(p) PROVE PidTypes'
  <2>1. selected' \in Proc /\ inspector' \in Proc /\ details' \in SUBSET Proc
    BY <1>5, SelectType DEF ClickCard
  <2>q. QED BY <1>5, <2>1 DEF ClickCard, Click, Overlap, viewVars, pollVars, alertVars, userVars, TypeOK, PidInv
<1>6. CASE SetAuto
  BY <1>6 DEF SetAuto, Click, Overlap, viewVars, panelVars, alertVars, TypeOK, PidInv
<1>7. CASE Interact
  BY <1>7 DEF Interact, Click, Overlap, viewVars, panelVars, pollVars, alertVars, TypeOK, PidInv
<1>8. ASSUME NEW p \in Proc, FocusPid(p) PROVE PidTypes'
  <2>1. PICK c \in Call : Idle(c) /\ call' = [call EXCEPT ![c] = Request("focus", p, asOf)]
    BY <1>8 DEF FocusPid, Fetch
  <2>2. Request("focus", p, asOf) \in Req
    BY RequestType DEF TypeOK, Ops
  <2>3. call' \in [Call -> Req] /\ call'[c] = Request("focus", p, asOf) /\ \A d \in Call : d # c => call'[d] = call[d]
    BY <2>1, <2>2, GivenTo
  <2>4. currentPid' = p /\ p # 0
    BY <1>8, ProcsArePids DEF FocusPid
  <2>5. PidInv'
    BY <1>8, <2>3, <2>4 DEF FocusPid, PidInv, Request
  <2>6. TypeOK'
    BY <1>8, <2>3, <2>4 DEF FocusPid, Click, Overlap, panelVars, pollVars, alertVars, userVars, TypeOK
  <2>q. QED BY <2>5, <2>6
<1>9. CASE ExpandCurrent
  <2>1. PICK c \in Call : Idle(c) /\ call' = [call EXCEPT ![c] = Request("expand", currentPid, asOf)]
    BY <1>9 DEF ExpandCurrent, Fetch
  <2>2. Request("expand", currentPid, asOf) \in Req
    BY RequestType DEF TypeOK, Ops
  <2>3. call' \in [Call -> Req] /\ call'[c] = Request("expand", currentPid, asOf) /\ \A d \in Call : d # c => call'[d] = call[d]
    BY <2>1, <2>2, GivenTo
  <2>5. PidInv'
    BY <1>9, <2>3 DEF ExpandCurrent, viewVars, PidInv, Request
  <2>6. TypeOK'
    BY <1>9, <2>3 DEF ExpandCurrent, Click, Overlap, viewVars, panelVars, pollVars, alertVars, userVars, TypeOK
  <2>q. QED BY <2>5, <2>6
<1>10. ASSUME RefreshData, asOf' \in Nat PROVE call' \in [Call -> Req] /\ (UNCHANGED <<currentPid, graph>> => PidInv')
  <2>1. PICK c \in Call : call' = [call EXCEPT ![c] = Request("list", 0, asOf')]
    BY <1>10 DEF RefreshData
  <2>2. Request("list", 0, asOf') \in Req
    BY <1>10, <1>a, RequestType DEF Ops
  <2>3. call' \in [Call -> Req] /\ call'[c] = Request("list", 0, asOf') /\ \A d \in Call : d # c => call'[d] = call[d]
    BY <2>1, <2>2, GivenTo
  <2>q. QED BY <2>3 DEF PidInv, Request
<1>11. CASE AutoTick
  <2>1. asOf' \in Nat /\ RefreshData /\ UNCHANGED <<currentPid, graph>>
    BY <1>11 DEF AutoTick, TypeOK
  <2>q. QED BY <2>1, <1>10, <1>11 DEF AutoTick, RefreshData, Overlap, panelVars, pollVars, alertVars, userVars, TypeOK
<1>12. CASE SnapLive
  <2>1. asOf' \in Nat /\ RefreshData /\ UNCHANGED <<currentPid, graph>>
    BY <1>12, <1>a DEF SnapLive
  <2>2. clicks' \in Nat /\ overlapped' \in BOOLEAN
    BY <1>12, ClickType DEF SnapLive
  <2>q. QED BY <2>1, <2>2, <1>10, <1>12 DEF SnapLive, RefreshData, panelVars, pollVars, alertVars, userVars, TypeOK
<1>13. CASE AfterKill
  <2>1. asOf' \in Nat /\ RefreshData /\ UNCHANGED <<currentPid, graph>>
    BY <1>13 DEF AfterKill, TypeOK
  <2>2. clicks' \in Nat /\ overlapped' \in BOOLEAN
    BY <1>13, ClickType DEF AfterKill
  <2>q. QED BY <2>1, <2>2, <1>10, <1>13 DEF AfterKill, RefreshData, panelVars, pollVars, alertVars, userVars, TypeOK
<1>14. ASSUME NEW t \in 1..MaxTs, CommitAsOf(t) PROVE PidTypes'
  <2>0. 1..MaxTs \subseteq Nat
    BY DashboardAssumption
  <2>1. asOf' \in Nat /\ RefreshData /\ UNCHANGED <<currentPid, graph>>
    BY <1>14, <2>0 DEF CommitAsOf
  <2>2. clicks' \in Nat /\ overlapped' \in BOOLEAN
    BY <1>14, ClickType DEF CommitAsOf
  <2>q. QED BY <2>1, <2>2, <1>10, <1>14 DEF CommitAsOf, RefreshData, panelVars, pollVars, alertVars, userVars, TypeOK
<1>15. ASSUME NEW c \in Call, CallStep(c) PROVE PidTypes'
  <2>1. CASE Answer(c)
    <3>1. /\ call' \in [Call -> Req]
          /\ \A d \in Call : call'[d].op = call[d].op /\ call'[d].pid = call[d].pid
      BY <2>1, AnswerGives
    <3>2. PidInv'
      BY <2>1, <3>1 DEF Answer, viewVars, PidInv
    <3>q. QED BY <2>1, <3>1, <3>2 DEF Answer, viewVars, panelVars, pollVars, alertVars, userVars, worldVars, TypeOK
  <2>2. CASE GotList(c)
    <3>1. PICK r \in Req : /\ call' = [call EXCEPT ![c] = r]
                           /\ r.op = "meta" \/ (r.op = "graph" /\ r.pid = currentPid /\ currentPid # 0)
      <4>1. CASE currentPid # 0
        <5>1. Request("graph", currentPid, asOf) \in Req
          BY RequestType DEF TypeOK, Ops
        <5>q. QED BY <2>2, <4>1, <5>1 DEF GotList, Fetch, Request
      <4>2. CASE currentPid = 0
        <5>1. Request("meta", 0, Live) \in Req
          BY <1>a, RequestType DEF Ops
        <5>2. call' = [call EXCEPT ![c] = Request("meta", 0, Live)] /\ Request("meta", 0, Live).op = "meta"
          BY <2>2, <4>2 DEF GotList, FetchMeta, Request
        <5>q. QED BY <5>1, <5>2
      <4>q. QED BY <4>1, <4>2
    <3>2. call' \in [Call -> Req] /\ call'[c] = r /\ \A d \in Call : d # c => call'[d] = call[d]
      BY <3>1, GivenTo
    <3>3. PidInv'
      BY <2>2, <3>1, <3>2 DEF GotList, PidInv
    <3>4. active' \in BOOLEAN /\ fired' \in Nat
      BY <2>2, AlertsType DEF GotList
    <3>5. list' \in [as : Nat, ts : Nat]
      BY <2>2, <1>t DEF GotList, Req
    <3>q. QED BY <2>2, <3>2, <3>3, <3>4, <3>5 DEF GotList, panelVars, pollVars, userVars, worldVars, TypeOK
  <2>3. CASE GotGraph(c)
    <3>0. call[c].pid # 0 /\ currentPid # 0
      BY <2>3 DEF GotGraph, Waits, PidInv
    <3>1. Request("meta", 0, Live) \in Req
      BY <1>a, RequestType DEF Ops
    <3>2. /\ call' \in [Call -> Req]
          /\ call'[c] = Request("meta", 0, Live) /\ \A d \in Call : d # c => call'[d] = call[d]
      BY <2>3, <3>1, GivenTo DEF GotGraph, FetchMeta
    <3>3. PidInv'
      BY <2>3, <3>0, <3>2 DEF GotGraph, PidInv, Request
    <3>4. /\ selected' \in Proc \cup {0} /\ inspector' \in Proc \cup {0} /\ details' \in SUBSET Proc
          /\ graph' \in [as : Nat, ts : Nat, pid : Proc \cup {0}]
      BY <2>3, <3>0, ShowType DEF GotGraph, panelVars, TypeOK
    <3>q. QED BY <2>3, <3>2, <3>3, <3>4 DEF GotGraph, pollVars, alertVars, userVars, worldVars, TypeOK
  <2>4. ASSUME Return(c) PROVE /\ call' \in [Call -> Req]
                              /\ call'[c] = NoCall /\ \A d \in Call : d # c => call'[d] = call[d]
    <3>1. NoCall \in Req
      BY <1>a, RequestType DEF Ops, NoCall
    <3>q. QED BY <2>4, <3>1, GivenTo DEF Return
  <2>5. CASE GotMeta(c)
    <3>1. PidInv'
      BY <2>4, <2>5 DEF GotMeta, viewVars, PidInv, NoCall, Request
    <3>2. lastTs' \in Nat /\ staleCount' \in Nat /\ frozen' \in BOOLEAN
      <4>1. call[c].ts \in Nat
        BY <1>t DEF Req
      <4>q. QED BY <2>5, <4>1, NoteTsType DEF GotMeta
    <3>q. QED BY <2>4, <2>5, <3>1, <3>2 DEF GotMeta, viewVars, panelVars, alertVars, userVars, worldVars, TypeOK
  <2>6. CASE GotFocus(c)
    <3>0. call[c].pid \in Proc /\ currentPid # 0
      BY <2>6, <1>t DEF GotFocus, Waits, PidInv, Req
    <3>1. PidInv'
      BY <2>4, <2>6, <3>0 DEF GotFocus, PidInv, NoCall, Request
    <3>2. /\ selected' \in Proc \cup {0} /\ inspector' \in Proc \cup {0} /\ details' \in SUBSET Proc
      BY <2>6, <3>0, SelectType DEF GotFocus, panelVars, TypeOK
    <3>3. graph' \in [as : Nat, ts : Nat, pid : Proc \cup {0}]
      BY <2>6, <3>0, <1>t DEF GotFocus, TypeOK, Req
    <3>q. QED BY <2>4, <2>6, <3>1, <3>2, <3>3 DEF GotFocus, pollVars, alertVars, userVars, worldVars, TypeOK
  <2>7. CASE GotExpand(c)
    <3>0. call[c].pid # 0 /\ currentPid # 0
      BY <2>7 DEF GotExpand, Waits, PidInv
    <3>1. PidInv'
      BY <2>4, <2>7, <3>0 DEF GotExpand, PidInv, NoCall, Request
    <3>2. /\ selected' \in Proc \cup {0} /\ inspector' \in Proc \cup {0} /\ details' \in SUBSET Proc
          /\ graph' \in [as : Nat, ts : Nat, pid : Proc \cup {0}]
      BY <2>7, <3>0, ShowType DEF GotExpand, panelVars, TypeOK
    <3>q. QED BY <2>4, <2>7, <3>1, <3>2 DEF GotExpand, pollVars, alertVars, userVars, worldVars, TypeOK
  <2>8. Request("loadList", 0, asOf) \in Req
    BY RequestType DEF TypeOK, Ops
  <2>9. CASE LoadMeta(c)
    <3>1. /\ call' \in [Call -> Req]
          /\ call'[c] = Request("loadList", 0, asOf) /\ \A d \in Call : d # c => call'[d] = call[d]
      BY <2>8, <2>9, GivenTo DEF LoadMeta, Fetch
    <3>2. PidInv'
      BY <2>9, <3>1 DEF LoadMeta, viewVars, PidInv, Request
    <3>3. lastTs' \in Nat
      BY <2>9, <1>t DEF LoadMeta, Req
    <3>q. QED BY <2>9, <3>1, <3>2, <3>3 DEF LoadMeta, viewVars, panelVars, alertVars, userVars, worldVars, TypeOK
  <2>10. CASE LoadList(c)
    <3>1. PICK r \in Req : call' = [call EXCEPT ![c] = r] /\ (r.op = "none" \/ (r.op = "candidate" /\ r.pid # 0))
      <4>1. CASE Return(c)
        <5>1. NoCall \in Req /\ NoCall.op = "none"
          BY <1>a, RequestType DEF Ops, NoCall, Request
        <5>2. call' = [call EXCEPT ![c] = NoCall]
          BY <4>1 DEF Return
        <5>q. QED BY <5>1, <5>2
      <4>2. CASE \E p \in Known(call[c].ts) : Fetch(c, "candidate", p)
        <5>1. PICK p \in Proc : Fetch(c, "candidate", p)
          BY <4>2 DEF Known
        <5>2. Request("candidate", p, asOf) \in Req
          BY RequestType DEF TypeOK, Ops
        <5>q. QED BY <5>1, <5>2, ProcsArePids DEF Fetch, Request
      <4>q. QED BY <2>10, <4>1, <4>2 DEF LoadList
    <3>2. call' \in [Call -> Req] /\ call'[c] = r /\ \A d \in Call : d # c => call'[d] = call[d]
      BY <3>1, GivenTo
    <3>3. PidInv'
      BY <2>10, <3>1, <3>2 DEF LoadList, PidInv
    <3>4. active' \in BOOLEAN /\ fired' \in Nat
      BY <2>10, AlertsType DEF LoadList
    <3>5. list' \in [as : Nat, ts : Nat]
      BY <2>10, <1>t DEF LoadList, Req
    <3>q. QED BY <2>10, <3>2, <3>3, <3>4, <3>5 DEF LoadList, panelVars, pollVars, userVars, worldVars, TypeOK
  <2>11. ASSUME NextCandidate(c)
         PROVE  /\ call' \in [Call -> Req] /\ currentPid' \in Proc \cup {0}
                /\ UNCHANGED graph => PidInv'
    <3>1. PICK p \in Known(list.ts), o \in {"candidate", "focus"} :
            /\ call' = [call EXCEPT ![c] = Request(o, p, asOf)]
            /\ currentPid' = IF o = "focus" THEN p ELSE currentPid
      BY <2>11, NextCandidateGives
    <3>2. p \in Proc /\ p # 0
      BY ProcsArePids DEF Known
    <3>3. Request(o, p, asOf) \in Req
      BY <3>2, RequestType DEF TypeOK, Ops
    <3>4. call' \in [Call -> Req] /\ call'[c] = Request(o, p, asOf) /\ \A d \in Call : d # c => call'[d] = call[d]
      BY <3>1, <3>3, GivenTo
    <3>q. QED BY <3>1, <3>2, <3>4 DEF PidInv, TypeOK, Request
  <2>12. CASE LoadCandidate(c)
    <3>0. call[c].pid \in Proc /\ call[c].pid # 0
      BY <2>12, <1>t DEF LoadCandidate, Waits, PidInv, Req
    <3>1. CASE SelectNode(call[c].pid) /\ Return(c) /\ currentPid' = call[c].pid
               /\ graph' = [as |-> call[c].as, ts |-> call[c].ts, pid |-> call[c].pid]
      <4>1. selected' \in Proc /\ inspector' \in Proc /\ details' \in SUBSET Proc
        BY <3>0, <3>1, SelectType
      <4>2. graph' \in [as : Nat, ts : Nat, pid : Proc \cup {0}]
        BY <3>0, <3>1, <1>t DEF Req
      <4>3. PidInv'
        BY <2>4, <3>0, <3>1 DEF PidInv, NoCall, Request
      <4>q. QED BY <2>4, <2>12, <3>0, <3>1, <4>1, <4>2, <4>3
                DEF LoadCandidate, pollVars, alertVars, userVars, worldVars, TypeOK
    <3>2. CASE NextCandidate(c) /\ UNCHANGED <<graph, panelVars>>
      BY <2>11, <2>12, <3>2 DEF LoadCandidate, panelVars, pollVars, alertVars, userVars, worldVars, TypeOK
    <3>q. QED BY <2>12, <3>1, <3>2 DEF LoadCandidate
  <2>13. CASE Fail(c)
    <3>1. PidInv'
      BY <2>4, <2>13 DEF Fail, viewVars, PidInv, NoCall, Request
    <3>q. QED BY <2>4, <2>13, <3>1 DEF Fail, viewVars, panelVars, pollVars, alertVars, userVars, TypeOK
  <2>14. CASE LoadFails(c)
    <3>1. CASE Fetch(c, "loadList", 0) /\ UNCHANGED currentPid
      <4>1. /\ call' \in [Call -> Req]
            /\ call'[c] = Request("loadList", 0, asOf) /\ \A d \in Call : d # c => call'[d] = call[d]
        BY <2>8, <3>1, GivenTo DEF Fetch
      <4>2. PidInv'
        BY <2>14, <3>1, <4>1 DEF LoadFails, PidInv, Request
      <4>q. QED BY <2>14, <3>1, <4>1, <4>2 DEF LoadFails, panelVars, pollVars, alertVars, userVars, TypeOK
    <3>2. CASE NextCandidate(c)
      BY <2>11, <2>14, <3>2 DEF LoadFails, panelVars, pollVars, alertVars, userVars, TypeOK
    <3>q. QED BY <2>14, <3>1, <3>2 DEF LoadFails
  <2>15. CASE NotOk(c)
    <3>1. CASE Waits(c, "list") /\ currentPid # 0 /\ Fetch(c, "graph", currentPid) /\ UNCHANGED <<refreshing, pollVars>>
      <4>1. Request("graph", currentPid, asOf) \in Req
        BY RequestType DEF TypeOK, Ops
      <4>2. /\ call' \in [Call -> Req] /\ call'[c] = Request("graph", currentPid, asOf)
            /\ \A d \in Call : d # c => call'[d] = call[d]
        BY <3>1, <4>1, GivenTo DEF Fetch
      <4>3. PidInv'
        BY <2>15, <3>1, <4>2 DEF NotOk, viewVars, PidInv, Request
      <4>q. QED BY <2>15, <3>1, <4>2, <4>3 DEF NotOk, viewVars, panelVars, pollVars, alertVars, userVars, TypeOK
    <3>2. CASE FetchMeta(c, "meta") /\ UNCHANGED <<refreshing, pollVars>>
      <4>1. Request("meta", 0, Live) \in Req
        BY <1>a, RequestType DEF Ops
      <4>2. /\ call' \in [Call -> Req] /\ call'[c] = Request("meta", 0, Live)
            /\ \A d \in Call : d # c => call'[d] = call[d]
        BY <3>2, <4>1, GivenTo DEF FetchMeta
      <4>3. PidInv'
        BY <2>15, <4>2 DEF NotOk, viewVars, PidInv, Request
      <4>q. QED BY <2>15, <3>2, <4>2, <4>3 DEF NotOk, viewVars, panelVars, pollVars, alertVars, userVars, TypeOK
    <3>3. CASE NoteTs(0) /\ Return(c) /\ refreshing' = FALSE
      <4>1. lastTs' \in Nat /\ staleCount' \in Nat /\ frozen' \in BOOLEAN
        BY <3>3, NoteTsType
      <4>2. UNCHANGED <<currentPid, graph>>
        BY <2>15 DEF NotOk, viewVars
      <4>3. \A d \in Call : call'[d] = call[d] \/ call'[d].op = "none"
        BY <2>4, <3>3 DEF NoCall, Request
      <4>4. PidInv'
        BY <4>2, <4>3 DEF PidInv
      <4>5. /\ UNCHANGED <<viewVars, panelVars, alertVars, userVars>> /\ fails' = fails + 1
            /\ UNCHANGED <<newest, recording, loadTs, clicks, overlapped>>
        BY <2>15 DEF NotOk
      <4>6. call' \in [Call -> Req] /\ refreshing' \in BOOLEAN
        BY <2>4, <3>3
      <4>q. QED BY <4>1, <4>4, <4>5, <4>6 DEF viewVars, panelVars, alertVars, userVars, TypeOK
    <3>q. QED BY <2>15, <3>1, <3>2, <3>3 DEF NotOk
  <2>q. QED BY <1>15, <2>1, <2>2, <2>3, <2>5, <2>6, <2>7, <2>9, <2>10, <2>12, <2>13, <2>14, <2>15 DEF CallStep
<1>q. QED
  BY <1>1, <1>2, <1>3, <1>4, <1>5, <1>6, <1>7, <1>8, <1>9, <1>11, <1>12, <1>13, <1>14, <1>15
     DEF Next, Background, User, Resume, CallStep

-----------------------------------------------------------------------------
(* Steps that leave the data, the alerts and the calls alone.               *)
Aside ==
  /\ UNCHANGED <<viewVars, call, alertVars, newest, loadTs, fails>>
  /\ overlapped => overlapped'

(* Steps that start a refresh, perhaps about another time.                  *)
Refresh ==
  /\ RefreshData /\ Overlap
  /\ UNCHANGED <<currentPid, list, graph, alertVars, newest, loadTs, fails>>

LEMMA StepCases ==
  ASSUME [Next]_vars
  PROVE  \/ Aside \/ Record \/ Refresh \/ ExpandCurrent
         \/ \E c \in Call : CallStep(c)
         \/ \E p \in Proc : FocusPid(p)
<1>1. CASE UNCHANGED vars
  BY <1>1 DEF vars, Aside, viewVars, alertVars, worldVars
<1>2. CASE Background
  <2>1. CASE Record
    BY <2>1
  <2>2. CASE StopRecorder
    BY <2>2 DEF StopRecorder, Aside, viewVars, alertVars
  <2>3. CASE \E p \in Proc : PaintDetails(p)
    BY <2>3 DEF PaintDetails, Aside, viewVars, alertVars, worldVars
  <2>4. CASE \E c \in Call : Answer(c) \/ Resume(c) \/ NotOk(c) \/ Fail(c) \/ LoadFails(c)
    BY <2>4 DEF Resume, CallStep
  <2>q. QED BY <1>2, <2>1, <2>2, <2>3, <2>4 DEF Background
<1>3. CASE AutoTick
  BY <1>3 DEF AutoTick, Refresh
<1>4. CASE User
  <2>1. CASE \E p \in Proc : FocusPid(p)
    BY <2>1
  <2>2. CASE \E p \in Proc : ClickCard(p)
    BY <2>2 DEF ClickCard, Click, Overlap, Aside
  <2>3. CASE ExpandCurrent
    BY <2>3
  <2>4. CASE SnapLive
    BY <2>4 DEF SnapLive, Click, Refresh
  <2>5. CASE AfterKill
    BY <2>5 DEF AfterKill, Click, Refresh
  <2>6. CASE SetAuto
    BY <2>6 DEF SetAuto, Click, Overlap, Aside
  <2>7. CASE Interact
    BY <2>7 DEF Interact, Click, Overlap, Aside
  <2>8. CASE \E t \in 1..MaxTs : CommitAsOf(t)
    BY <2>8 DEF CommitAsOf, Click, Refresh
  <2>q. QED BY <1>4, <2>1, <2>2, <2>3, <2>4, <2>5, <2>6, <2>7, <2>8 DEF User
<1>q. QED BY <1>1, <1>2, <1>3, <1>4 DEF Next

-----------------------------------------------------------------------------
(* What the steps do to the calls. *)

(* A call under way ends, makes its next request or is answered; the list   *)
(* it takes over is the one that was answered.                              *)
LEMMA CallStepEffect ==
  ASSUME PidTypes, NEW c \in Call, CallStep(c)
  PROVE  /\ ~Idle(c)
         /\ UNCHANGED <<asOf, newest, loadTs, overlapped>>
         /\ \A d \in Call : d # c => call'[d] = call[d]
         /\ call'[c].ts # 0 =>
              /\ call'[c].op = call[c].op /\ call'[c].pid = call[c].pid /\ call'[c].as = call[c].as
              /\ call'[c].ts = AnswerTs(c)
              /\ ~call'[c].found => ~Finds(call[c].pid, AnswerTs(c))
         /\ \/ call'[c].op \in {"none", "meta"} \/ call'[c].as = asOf
            \/ call'[c].op = call[c].op /\ call'[c].as = call[c].as
         /\ call'[c].op \in Loading => call[c].op \in Loading /\ UNCHANGED <<currentPid, graph>>
         /\ UNCHANGED list \/ (list'.as = call[c].as /\ list'.ts = call[c].ts)
<1> USE DEF PidTypes
<1>1. call[c] \in Req /\ call \in [Call -> Req]
  BY DEF TypeOK
<1>2. CASE Answer(c)
  <2>1. /\ call'[c].op = call[c].op /\ call'[c].pid = call[c].pid /\ call'[c].as = call[c].as
        /\ call'[c].ts = AnswerTs(c)
        /\ ~call'[c].found => ~Finds(call[c].pid, AnswerTs(c))
        /\ \A d \in Call : d # c => call'[d] = call[d]
    BY <1>2, AnswerGives
  <2>2. ~Idle(c) /\ UNCHANGED <<asOf, newest, loadTs, overlapped, list, currentPid, graph>>
    BY <1>2 DEF Answer, viewVars, worldVars
  <2>3. call'[c].op \in Loading => call[c].op \in Loading
    BY <2>1
  <2>q. QED BY <2>1, <2>2, <2>3
<1>3. ASSUME NEW r, call' = [call EXCEPT ![c] = r]
      PROVE  call'[c] = r /\ \A d \in Call : d # c => call'[d] = call[d]
  BY <1>1, <1>3
<1>4. ASSUME Return(c) PROVE call'[c] = NoCall /\ \A d \in Call : d # c => call'[d] = call[d]
  BY <1>3, <1>4 DEF Return
<1>5. ASSUME NEW o, NEW p, Fetch(c, o, p)
      PROVE  call'[c] = Request(o, p, asOf) /\ \A d \in Call : d # c => call'[d] = call[d]
  BY <1>3, <1>5 DEF Fetch
<1>6. ASSUME FetchMeta(c, "meta")
      PROVE  call'[c] = Request("meta", 0, Live) /\ \A d \in Call : d # c => call'[d] = call[d]
  BY <1>3, <1>6 DEF FetchMeta
<1>7. CASE GotList(c)
  <2>1. CASE currentPid # 0
    <3>1. Fetch(c, "graph", currentPid)
      BY <1>7, <2>1 DEF GotList
    <3>2. call'[c] = Request("graph", currentPid, asOf) /\ \A d \in Call : d # c => call'[d] = call[d]
      BY <1>5, <3>1
    <3>q. QED BY <1>7, <3>2 DEF GotList, Waits, Idle, Request, worldVars, Loading
  <2>2. CASE currentPid = 0
    <3>1. FetchMeta(c, "meta")
      BY <1>7, <2>2 DEF GotList
    <3>q. QED BY <1>6, <1>7, <3>1 DEF GotList, Waits, Idle, Request, worldVars, Loading
  <2>q. QED BY <2>1, <2>2
<1>8. CASE GotGraph(c)
  <2>1. FetchMeta(c, "meta")
    BY <1>8 DEF GotGraph
  <2>q. QED BY <1>6, <1>8, <2>1 DEF GotGraph, Waits, Idle, Request, worldVars, Loading
<1>9. CASE GotMeta(c)
  BY <1>4, <1>9 DEF GotMeta, Waits, Idle, NoCall, Request, viewVars, worldVars, Loading
<1>10. CASE GotFocus(c)
  BY <1>4, <1>10 DEF GotFocus, Waits, Idle, NoCall, Request, worldVars, Loading
<1>11. CASE GotExpand(c)
  BY <1>4, <1>11 DEF GotExpand, Waits, Idle, NoCall, Request, worldVars, Loading
<1>12. CASE LoadMeta(c)
  <2>1. call'[c] = Request("loadList", 0, asOf) /\ \A d \in Call : d # c => call'[d] = call[d]
    BY <1>5, <1>12 DEF LoadMeta
  <2>q. QED BY <1>12, <2>1 DEF LoadMeta, Waits, Idle, Request, viewVars, worldVars, Loading
<1>13. CASE LoadList(c)
  <2>1. CASE Return(c)
    BY <1>4, <1>13, <2>1 DEF LoadList, Waits, Idle, NoCall, Request, worldVars, Loading
  <2>2. ASSUME NEW p, Fetch(c, "candidate", p) PROVE call'[c] = Request("candidate", p, asOf) /\ \A d \in Call : d # c => call'[d] = call[d]
    BY <1>5, <2>2
  <2>3. CASE \E p \in Known(call[c].ts) : Fetch(c, "candidate", p)
    <3>1. PICK p : call'[c] = Request("candidate", p, asOf) /\ \A d \in Call : d # c => call'[d] = call[d]
      BY <2>2, <2>3
    <3>q. QED BY <1>13, <3>1 DEF LoadList, Waits, Idle, Request, worldVars, Loading
  <2>q. QED BY <1>13, <2>1, <2>3 DEF LoadList
<1>14. ASSUME NextCandidate(c)
       PROVE  /\ \A d \in Call : d # c => call'[d] = call[d]
              /\ call'[c].ts = 0 /\ call'[c].as = asOf
              /\ call'[c].op = "focus" \/ (call'[c].op = "candidate" /\ UNCHANGED currentPid)
  <2>1. PICK p \in Known(list.ts), o \in {"candidate", "focus"} :
          /\ call' = [call EXCEPT ![c] = Request(o, p, asOf)]
          /\ currentPid' = IF o = "focus" THEN p ELSE currentPid
    BY <1>14, NextCandidateGives
  <2>2. call'[c] = Request(o, p, asOf) /\ \A d \in Call : d # c => call'[d] = call[d]
    BY <1>3, <2>1
  <2>q. QED BY <2>1, <2>2 DEF Request
<1>15. CASE LoadCandidate(c)
  <2>1. CASE Return(c)
    BY <1>4, <1>15, <2>1 DEF LoadCandidate, Waits, Idle, NoCall, Request, worldVars, Loading
  <2>2. CASE NextCandidate(c) /\ UNCHANGED <<graph, panelVars>>
    BY <1>14, <1>15, <2>2 DEF LoadCandidate, Waits, Idle, worldVars, Loading
  <2>q. QED BY <1>15, <2>1, <2>2 DEF LoadCandidate
<1>16. CASE Fail(c)
  BY <1>4, <1>16 DEF Fail, Waits, Idle, NoCall, Request, viewVars, Loading
<1>17. CASE LoadFails(c)
  <2>1. CASE call[c].op = "loadMeta" /\ Fetch(c, "loadList", 0) /\ UNCHANGED currentPid
    <3>1. call'[c] = Request("loadList", 0, asOf) /\ \A d \in Call : d # c => call'[d] = call[d]
      BY <1>5, <2>1
    <3>q. QED BY <1>17, <2>1, <3>1 DEF LoadFails, Idle, Request, Loading
  <2>2. CASE call[c].op = "candidate" /\ NextCandidate(c)
    BY <1>14, <1>17, <2>2 DEF LoadFails, Idle, Loading
  <2>q. QED BY <1>17, <2>1, <2>2 DEF LoadFails
<1>18. CASE NotOk(c)
  <2>0. UNCHANGED <<asOf, newest, loadTs, overlapped, list, currentPid, graph>>
    BY <1>18 DEF NotOk, viewVars
  <2>1. CASE Waits(c, "list") /\ Fetch(c, "graph", currentPid)
    <3>1. call'[c] = Request("graph", currentPid, asOf) /\ \A d \in Call : d # c => call'[d] = call[d]
      BY <1>5, <2>1
    <3>q. QED BY <2>0, <2>1, <3>1 DEF Waits, Idle, Request, Loading
  <2>2. CASE (Waits(c, "graph") \/ Waits(c, "list")) /\ FetchMeta(c, "meta")
    BY <1>6, <2>0, <2>2 DEF Waits, Idle, Request, Loading
  <2>3. CASE Waits(c, "meta") /\ Return(c)
    BY <1>4, <2>0, <2>3 DEF Waits, Idle, NoCall, Request, Loading
  <2>q. QED BY <1>18, <2>1, <2>2, <2>3 DEF NotOk
<1>q. QED
  BY <1>2, <1>7, <1>8, <1>9, <1>10, <1>11, <1>12, <1>13, <1>15, <1>16, <1>17, <1>18 DEF CallStep

(* The user and the timer open a call, of the time viewed from then on.     *)
Opens ==
  /\ UNCHANGED <<list, graph, newest, loadTs, alertVars, fails>>
  /\ Overlap
  /\ \E c \in Call, o \in {"list", "focus", "expand"} :
       /\ Idle(c)
       /\ call'[c].op = o /\ call'[c].as = asOf' /\ call'[c].ts = 0
       /\ \A d \in Call : d # c => call'[d] = call[d]
       /\ o = "list" => currentPid' = currentPid
       /\ o = "focus" => asOf' = asOf /\ currentPid' = call'[c].pid /\ currentPid' \in Known(list.ts)
       /\ o = "expand" => asOf' = asOf /\ currentPid' = currentPid /\ call'[c].pid = currentPid

LEMMA OpensACall ==
  ASSUME PidTypes, Refresh \/ ExpandCurrent \/ (\E p \in Proc : FocusPid(p))
  PROVE  Opens
<1>0. call \in [Call -> Req]
  BY DEF PidTypes, TypeOK
<1>1. ASSUME NEW c \in Call, NEW o, NEW p, NEW t, call' = [call EXCEPT ![c] = Request(o, p, t)]
      PROVE  /\ call'[c].op = o /\ call'[c].pid = p /\ call'[c].as = t /\ call'[c].ts = 0
             /\ \A d \in Call : d # c => call'[d] = call[d]
  <2>1. call'[c] = Request(o, p, t)
    BY <1>0, <1>1
  <2>q. QED BY <1>0, <1>1, <2>1 DEF Request
<1>2. CASE Refresh
  <2>1. PICK c \in Call : Idle(c) /\ call' = [call EXCEPT ![c] = Request("list", 0, asOf')]
    BY <1>2 DEF Refresh, RefreshData
  <2>2. call'[c] = Request("list", 0, asOf') /\ \A d \in Call : d # c => call'[d] = call[d]
    BY <1>0, <2>1
  <2>q. QED BY <1>2, <2>1, <2>2 DEF Refresh, Opens, Request
<1>3. CASE ExpandCurrent
  <2>1. PICK c \in Call : Idle(c) /\ call' = [call EXCEPT ![c] = Request("expand", currentPid, asOf)]
    BY <1>3 DEF ExpandCurrent, Fetch
  <2>2. /\ call'[c].op = "expand" /\ call'[c].pid = currentPid /\ call'[c].as = asOf /\ call'[c].ts = 0
        /\ \A d \in Call : d # c => call'[d] = call[d]
    BY <1>1, <2>1
  <2>q. QED BY <1>3, <2>1, <2>2 DEF ExpandCurrent, Click, viewVars, Opens
<1>4. ASSUME NEW p \in Proc, FocusPid(p) PROVE Opens
  <2>1. PICK c \in Call : Idle(c) /\ call' = [call EXCEPT ![c] = Request("focus", p, asOf)]
    BY <1>4 DEF FocusPid, Fetch
  <2>2. /\ call'[c].op = "focus" /\ call'[c].pid = p /\ call'[c].as = asOf /\ call'[c].ts = 0
        /\ \A d \in Call : d # c => call'[d] = call[d]
    BY <1>1, <2>1
  <2>q. QED BY <1>4, <2>1, <2>2 DEF FocusPid, Click, Opens
<1>q. QED BY <1>2, <1>3, <1>4

-----------------------------------------------------------------------------
(* One call at a time, answers in time, and of the time viewed. *)

LEMMA Only ==
  ASSUME SingleInv, ~overlapped, NEW c \in Call, ~Idle(c)
  PROVE  \A d \in Call : d # c => call[d].op = "none"
BY DEF SingleInv, Idle

LEMMA SingleKeeps == ASSUME PidTypes, SingleInv, [Next]_vars PROVE SingleInv'
<1>1. CASE Aside
  BY <1>1 DEF Aside, SingleInv, Idle
<1>2. CASE Record
  BY <1>2 DEF Record, SingleInv, Idle
<1>3. CASE Opens
  <2>1. PICK c \in Call : \A d \in Call : d # c => call'[d] = call[d]
    BY <1>3 DEF Opens
  <2>2. ASSUME ~overlapped' PROVE \A d \in Call : call[d].op = "none"
    BY <1>3, <2>2 DEF Opens, Overlap, Settled, Idle
  <2>q. QED BY <2>1, <2>2 DEF SingleInv, Idle
<1>4. ASSUME NEW c \in Call, CallStep(c) PROVE SingleInv'
  <2>1. ~Idle(c) /\ overlapped' = overlapped /\ \A d \in Call : d # c => call'[d] = call[d]
    BY <1>4, CallStepEffect
  <2>2. ASSUME ~overlapped' PROVE \A d \in Call : d # c => call[d].op = "none"
    BY <2>1, <2>2, Only
  <2>q. QED BY <2>1, <2>2 DEF SingleInv, Idle
<1>q. QED BY <1>1, <1>2, <1>3, <1>4, StepCases, OpensACall

LEMMA TimeKeeps == ASSUME PidTypes, TimeInv, [Next]_vars PROVE TimeInv'
<1>0. newest \in Nat /\ loadTs \in Nat
  BY DEF PidTypes, TypeOK
<1>1. CASE Aside
  BY <1>1 DEF Aside, viewVars, TimeInv, InTime
<1>2. CASE Record
  <2>1. newest' = newest + 1 /\ UNCHANGED <<list, call, loadTs>>
    BY <1>2 DEF Record, viewVars
  <2>2. list.ts \in Nat /\ \A c \in Call : call[c].ts \in Nat
    BY DEF PidTypes, TypeOK, Req
  <2>3. InTime(list)'
    BY <2>1, <2>2, <1>0 DEF TimeInv, InTime
  <2>4. ASSUME NEW c \in Call PROVE InTime(call[c])'
    <3>1. call[c].ts \in Nat /\ InTime(call[c])
      BY <2>2 DEF TimeInv
    <3>q. QED BY <2>1, <3>1, <1>0 DEF InTime
  <2>5. (1 <= loadTs /\ loadTs <= newest)'
    BY <2>1, <1>0 DEF TimeInv
  <2>q. QED BY <2>3, <2>4, <2>5 DEF TimeInv
<1>3. CASE Opens
  <2>1. PICK c \in Call : call'[c].ts = 0 /\ \A d \in Call : d # c => call'[d] = call[d]
    BY <1>3 DEF Opens
  <2>2. UNCHANGED <<list, newest, loadTs>>
    BY <1>3 DEF Opens
  <2>3. ASSUME NEW d \in Call PROVE InTime(call[d])'
    <3>1. CASE d = c
      BY <2>1, <3>1 DEF InTime
    <3>2. CASE d # c
      <4>1. call'[d] = call[d] /\ InTime(call[d])
        BY <2>1, <3>2 DEF TimeInv
      <4>q. QED BY <4>1, <2>2 DEF InTime
    <3>q. QED BY <3>1, <3>2
  <2>q. QED BY <2>2, <2>3 DEF TimeInv, InTime
<1>4. ASSUME NEW c \in Call, CallStep(c) PROVE TimeInv'
  <2>1. /\ UNCHANGED <<newest, loadTs>>
        /\ \A d \in Call : d # c => call'[d] = call[d]
        /\ call'[c].ts # 0 => /\ call'[c].as = call[c].as
                              /\ call'[c].ts = IF call[c].as = Live THEN newest ELSE call[c].as
        /\ UNCHANGED list \/ (list'.as = call[c].as /\ list'.ts = call[c].ts)
    BY <1>4, CallStepEffect DEF AnswerTs
  <2>2. ASSUME NEW d \in Call PROVE InTime(call[d])'
    <3>1. CASE d = c
      BY <2>1, <3>1, <1>0 DEF InTime
    <3>2. CASE d # c
      <4>1. call'[d] = call[d] /\ InTime(call[d])
        BY <2>1, <3>2 DEF TimeInv
      <4>q. QED BY <4>1, <2>1 DEF InTime
    <3>q. QED BY <3>1, <3>2
  <2>3. InTime(list)'
    <3>1. InTime(list) /\ InTime(call[c])
      BY DEF TimeInv
    <3>q. QED BY <2>1, <3>1 DEF InTime
  <2>q. QED BY <2>1, <2>2, <2>3 DEF TimeInv
<1>q. QED BY <1>1, <1>2, <1>3, <1>4, StepCases, OpensACall

LEMMA FoundKeeps == ASSUME PidTypes, FoundInv, [Next]_vars PROVE FoundInv'
<1>0. newest \in Nat /\ \A c \in Call : call[c] \in Req
  BY DEF PidTypes, TypeOK
<1>1. CASE Aside
  BY <1>1 DEF Aside, FoundInv, Missed
<1>2. CASE Record
  <2>1. newest' = newest + 1 /\ UNCHANGED call
    BY <1>2 DEF Record
  <2>2. ASSUME NEW c \in Call, call[c].ts # 0, ~call[c].found
        PROVE  call[c].pid # 0 /\ (Born[call[c].pid] > call[c].ts \/ Gone[call[c].pid] <= newest')
    <3>1. Missed(call[c].pid, call[c].ts)
      BY <2>2 DEF FoundInv
    <3>2. call[c].pid \in Proc
      BY <1>0, <3>1 DEF Missed, Req
    <3>3. Gone[call[c].pid] \in Nat
      BY <3>2, ProcsArePids
    <3>q. QED BY <1>0, <2>1, <3>1, <3>3 DEF Missed
  <2>q. QED BY <2>1, <2>2 DEF FoundInv, Missed
<1>3. CASE Opens
  <2>1. PICK c \in Call : call'[c].ts = 0 /\ \A d \in Call : d # c => call'[d] = call[d]
    BY <1>3 DEF Opens
  <2>2. newest' = newest
    BY <1>3 DEF Opens
  <2>q. QED BY <2>1, <2>2 DEF FoundInv, Missed
<1>4. ASSUME NEW c \in Call, CallStep(c) PROVE FoundInv'
  <2>1. /\ newest' = newest
        /\ \A d \in Call : d # c => call'[d] = call[d]
        /\ call'[c].ts # 0 => /\ call'[c].pid = call[c].pid /\ call'[c].ts = AnswerTs(c)
                              /\ ~call'[c].found => ~Finds(call[c].pid, AnswerTs(c))
    BY <1>4, CallStepEffect
  <2>2. AnswerTs(c) \in Nat /\ call[c].pid \in Proc \cup {0}
    BY <1>0 DEF AnswerTs, Req
  <2>3. ~Finds(call[c].pid, AnswerTs(c)) => Missed(call[c].pid, AnswerTs(c))
    BY <1>0, <2>2, ProcsArePids DEF Finds, Missed
  <2>4. ASSUME NEW d \in Call, call'[d].ts # 0, ~call'[d].found PROVE Missed(call'[d].pid, call'[d].ts)
    <3>1. CASE d = c
      BY <2>1, <2>3, <2>4, <3>1
    <3>2. CASE d # c
      BY <2>1, <2>4, <3>2 DEF FoundInv
    <3>q. QED BY <3>1, <3>2
  <2>q. QED BY <2>1, <2>4 DEF FoundInv, Missed
<1>q. QED BY <1>1, <1>2, <1>3, <1>4, StepCases, OpensACall

LEMMA AskKeeps == ASSUME PidTypes, SingleInv, AskInv, [Next]_vars PROVE AskInv'
<1>1. CASE Aside
  BY <1>1 DEF Aside, viewVars, AskInv, AsksNow
<1>2. CASE Record
  BY <1>2 DEF Record, viewVars, AskInv, AsksNow
<1>3. CASE Opens
  <2>1. PICK c \in Call, o \in {"list", "focus", "expand"} :
           call'[c].op = o /\ call'[c].as = asOf' /\ \A d \in Call : d # c => call'[d] = call[d]
    BY <1>3 DEF Opens
  <2>2. ASSUME ~overlapped' PROVE \A d \in Call : call[d].op = "none"
    BY <1>3, <2>2 DEF Opens, Overlap, Settled, Idle
  <2>3. ASSUME ~overlapped' PROVE \A d \in Call : d # c => call'[d].op = "none"
    BY <2>1, <2>2, <2>3
  <2>q. QED BY <2>1, <2>3 DEF AskInv, AsksNow, Loading
<1>4. ASSUME NEW c \in Call, CallStep(c), ~overlapped'
      PROVE  \A d \in Call : /\ AsksNow(d)'
                             /\ call'[d].op \in Loading => asOf' = Live /\ currentPid' = 0 /\ graph'.pid = 0
  <2>1. /\ ~Idle(c) /\ overlapped' = overlapped /\ asOf' = asOf /\ \A d \in Call : d # c => call'[d] = call[d]
        /\ \/ call'[c].op \in {"none", "meta"} \/ call'[c].as = asOf
           \/ call'[c].op = call[c].op /\ call'[c].as = call[c].as
        /\ call'[c].op \in Loading => call[c].op \in Loading /\ UNCHANGED <<currentPid, graph>>
    BY <1>4, CallStepEffect
  <2>2. \A d \in Call : d # c => call'[d].op = "none"
    BY <1>4, <2>1, Only
  <2>3. /\ AsksNow(c)
        /\ call[c].op \in Loading => asOf = Live /\ currentPid = 0 /\ graph.pid = 0
    BY <1>4, <2>1 DEF AskInv
  <2>4. AsksNow(c)'
    BY <2>1, <2>3 DEF AsksNow
  <2>5. call'[c].op \in Loading => asOf' = Live /\ currentPid' = 0 /\ graph'.pid = 0
    BY <2>1, <2>3
  <2>q. QED BY <2>2, <2>4, <2>5 DEF AsksNow, Loading
<1>5. ASSUME NEW c \in Call, CallStep(c) PROVE AskInv'
  BY <1>4, <1>5 DEF AskInv
<1>q. QED BY <1>1, <1>2, <1>3, <1>5, StepCases, OpensACall

(* Whoever selects a process paints its details.                            *)
LEMMA InspectorKeeps == ASSUME InspectorShowsSelected, [Next]_vars PROVE InspectorShowsSelected'
<1> USE DEF InspectorShowsSelected, panelVars
<1>1. ASSUME NEW p, SelectNode(p) PROVE inspector' = selected'
  BY <1>1 DEF SelectNode
<1>2. ASSUME NEW c \in Call, ShowGraph(c) PROVE inspector' = selected'
  BY <1>2, <1>1 DEF ShowGraph
<1>3. ASSUME NEW p \in Proc, PaintDetails(p) PROVE InspectorShowsSelected'
  BY <1>3 DEF PaintDetails
<1>4. ASSUME NEW p \in Proc, FocusPid(p) \/ ClickCard(p) PROVE InspectorShowsSelected'
  BY <1>1, <1>4 DEF FocusPid, ClickCard
<1>5. ASSUME NEW c \in Call, CallStep(c) PROVE InspectorShowsSelected'
  <2>1. CASE GotGraph(c) \/ GotExpand(c)
    BY <1>2, <2>1 DEF GotGraph, GotExpand
  <2>2. CASE GotFocus(c)
    BY <1>1, <2>2 DEF GotFocus
  <2>3. CASE LoadCandidate(c)
    BY <1>1, <2>3 DEF LoadCandidate
  <2>4. CASE Answer(c) \/ GotList(c) \/ GotMeta(c)
    BY <2>4 DEF Answer, GotList, GotMeta
  <2>5. CASE LoadMeta(c) \/ LoadList(c) \/ NotOk(c) \/ Fail(c) \/ LoadFails(c)
    BY <2>5 DEF LoadMeta, LoadList, NotOk, Fail, LoadFails
  <2>q. QED BY <1>5, <2>1, <2>2, <2>3, <2>4, <2>5 DEF CallStep
<1>6. CASE UNCHANGED vars
  BY <1>6 DEF vars
<1>7. CASE Record \/ StopRecorder \/ AutoTick
  BY <1>7 DEF Record, StopRecorder, AutoTick
<1>8. CASE ExpandCurrent \/ SnapLive \/ AfterKill \/ SetAuto \/ Interact
  BY <1>8 DEF ExpandCurrent, SnapLive, AfterKill, SetAuto, Interact
<1>9. ASSUME NEW t \in 1..MaxTs, CommitAsOf(t) PROVE InspectorShowsSelected'
  BY <1>9 DEF CommitAsOf
<1>q. QED
  BY <1>3, <1>4, <1>5, <1>6, <1>7, <1>8, <1>9 DEF Next, Background, User, Resume, CallStep

-----------------------------------------------------------------------------
(* The view. *)

(* What a call will have answered is no older than the list of the same     *)
(* time asked for.                                                          *)
LEMMA NotOlder ==
  ASSUME PidTypes, TimeInv, NEW c \in Call, list.as = call[c].as
  PROVE  list.ts <= IF call[c].as = Live THEN newest ELSE call[c].as
<1>1. list.ts \in Nat /\ newest \in Nat /\ call[c].as \in Nat
  BY DEF PidTypes, TypeOK, Req
<1>2. InTime(list)
  BY DEF TimeInv
<1>q. QED BY <1>1, <1>2 DEF InTime

LEMMA ViewKeeps ==
  ASSUME PidTypes, TimeInv, FoundInv, SingleInv, AskInv, ViewInv, [Next]_vars
  PROVE  ViewInv'
<1>1. CASE Aside
  BY <1>1 DEF Aside, viewVars, ViewInv, Rests, Shows, Stored, GraphIsCurrent, OnPage, Later
<1>2. CASE Record
  <2>1. newest' = newest + 1 /\ UNCHANGED <<asOf, currentPid, list, graph, call, overlapped, fails>>
    BY <1>2 DEF Record, viewVars
  <2>2. newest \in Nat /\ currentPid \in Proc \cup {0}
    BY DEF PidTypes, TypeOK
  <2>3. Stored' => Stored
    <3>1. ASSUME currentPid # 0, newest + 1 < Gone[currentPid] PROVE newest < Gone[currentPid]
      <4>1. Gone[currentPid] \in Nat
        BY <2>2, <3>1, ProcsArePids
      <4>q. QED BY <2>2, <3>1, <4>1
    <3>q. QED BY <2>1, <3>1 DEF Stored
  <2>4. GraphIsCurrent => GraphIsCurrent'
    BY <2>1, <2>3 DEF GraphIsCurrent
  <2>5. Shows => Shows'
    BY <2>1, <2>3, <2>4 DEF Shows
  <2>6. ASSUME NEW c \in Call, OnPage(c) PROVE OnPage(c)'
    BY <2>1, <2>4, <2>5, <2>6 DEF OnPage, Later
  <2>q. QED BY <2>1, <2>5, <2>6 DEF ViewInv, Rests
<1>3. CASE Opens
  <2>1. PICK c \in Call, o \in {"list", "focus", "expand"} :
          /\ call'[c].op = o /\ call'[c].as = asOf' /\ call'[c].ts = 0
          /\ \A d \in Call : d # c => call'[d] = call[d]
          /\ o = "list" => currentPid' = currentPid
          /\ o = "focus" => asOf' = asOf /\ currentPid' = call'[c].pid /\ currentPid' \in Known(list.ts)
          /\ o = "expand" => asOf' = asOf /\ currentPid' = currentPid /\ call'[c].pid = currentPid
    BY <1>3 DEF Opens
  <2>2. UNCHANGED <<list, graph, fails, newest>>
    BY <1>3 DEF Opens
  <2>3. ASSUME ~overlapped', fails' = 0 PROVE (\A d \in Call : call[d].op = "none") /\ Shows
    BY <1>3, <2>2, <2>3 DEF Opens, Overlap, Settled, Idle, ViewInv, Rests
  <2>4. ASSUME ~overlapped', fails' = 0 PROVE ~Rests' /\ \A d \in Call : OnPage(d)'
    <3>1. ~Rests'
      BY <2>1 DEF Rests
    <3>2. ASSUME NEW d \in Call, d # c PROVE OnPage(d)'
      <4>1. call'[d].op = "none"
        BY <2>1, <2>3, <2>4, <3>2
      <4>q. QED BY <4>1 DEF OnPage
    <3>3. OnPage(c)'
      <4>1. CASE o = "list"
        BY <2>1, <2>2, <2>3, <2>4, <4>1 DEF OnPage, Shows, Stored, GraphIsCurrent
      <4>2. CASE o = "focus"
        BY <2>1, <2>2, <2>3, <2>4, <4>2 DEF OnPage, Shows, Known, Later
      <4>3. CASE o = "expand"
        BY <2>1, <2>2, <2>3, <2>4, <4>3 DEF OnPage, Shows, Stored, GraphIsCurrent
      <4>q. QED BY <2>1, <4>1, <4>2, <4>3
    <3>q. QED BY <3>1, <3>2, <3>3
  <2>q. QED BY <2>4 DEF ViewInv
<1>4. ASSUME NEW c \in Call, CallStep(c) PROVE ViewInv'
  <2>1. SUFFICES ASSUME ~overlapped', fails' = 0
                 PROVE  (call'[c].op \in {"none", "meta"} => Shows') /\ OnPage(c)'
    <3>1. ASSUME ~overlapped', fails' = 0, NEW d \in Call, d # c PROVE OnPage(d)'
      <4>1. call'[d].op = "none"
        BY <1>4, <3>1, CallStepEffect, Only
      <4>q. QED BY <4>1 DEF OnPage
    <3>q. QED BY <3>1 DEF ViewInv, Rests
  <2>2. /\ ~Idle(c) /\ ~overlapped /\ asOf' = asOf /\ newest' = newest
        /\ \A d \in Call : d # c => call'[d] = call[d]
    BY <1>4, <2>1, CallStepEffect
  <2>3. fails = 0
    <3>1. fails' = fails \/ fails' = fails + 1
      BY <1>4 DEF CallStep, Answer, GotList, GotGraph, GotMeta, GotFocus, GotExpand,
                  LoadMeta, LoadList, LoadCandidate, NotOk, Fail, LoadFails, worldVars
    <3>2. fails \in Nat
      BY DEF PidTypes, TypeOK
    <3>q. QED BY <2>1, <3>1, <3>2
  <2>4. /\ AsksNow(c) /\ OnPage(c)
        /\ call[c].op \in Loading => asOf = Live /\ currentPid = 0 /\ graph.pid = 0
        /\ call[c].op = "meta" => Shows
    <3>1. \A d \in Call : d # c => call[d].op = "none"
      BY <2>2, Only
    <3>2. call[c].op = "meta" => Rests
      BY <3>1 DEF Rests
    <3>q. QED BY <2>2, <2>3, <3>2 DEF AskInv, ViewInv
  <2>5. /\ \A p \in Proc : Born[p] \in Nat /\ Gone[p] \in Nat
        /\ newest \in Nat
        /\ list.ts \in Nat /\ call[c].ts \in Nat /\ call[c].pid \in Proc \cup {0} /\ currentPid \in Proc \cup {0}
        /\ call \in [Call -> Req]
    BY ProcsArePids DEF PidTypes, TypeOK, Req
  <2>6. ASSUME NEW r, call' = [call EXCEPT ![c] = r] PROVE call'[c] = r
    BY <2>5, <2>6
  <2>7. CASE Answer(c)
    <3>1. /\ call'[c].op = call[c].op /\ call'[c].pid = call[c].pid /\ call'[c].as = call[c].as
          /\ call'[c].ts = AnswerTs(c)
      BY <2>7, AnswerGives DEF PidTypes
    <3>a. UNCHANGED <<asOf, currentPid, list, graph>>
      BY <2>7 DEF Answer, viewVars
    <3>b. GraphIsCurrent' = GraphIsCurrent /\ Shows' = Shows
      BY <2>2, <3>a DEF Shows, Stored, GraphIsCurrent
    <3>2. list.as = call[c].as => Later(c)'
      BY <3>1, <3>a, NotOlder DEF Later, AnswerTs
    <3>3. call'[c].op \in {"none", "meta"} => Shows'
      BY <2>2, <2>4, <3>1, <3>b DEF Idle
    <3>4. OnPage(c)'
      <4>1. CASE call[c].op = "graph"
        BY <2>4, <3>1, <3>a, <3>b, <3>2, <4>1 DEF OnPage, AsksNow
      <4>2. CASE call[c].op = "focus"
        BY <2>4, <3>1, <3>a, <3>2, <4>2 DEF OnPage, AsksNow
      <4>3. CASE call[c].op = "candidate"
        BY <2>4, <3>1, <3>a, <3>2, <4>3 DEF OnPage, AsksNow
      <4>4. CASE call[c].op \notin {"graph", "focus", "candidate"}
        BY <2>4, <3>1, <3>a, <3>b, <4>4 DEF OnPage
      <4>q. QED BY <4>1, <4>2, <4>3, <4>4
    <3>q. QED BY <3>3, <3>4
  <2>8. CASE GotList(c)
    <3>1. /\ list' = [as |-> asOf, ts |-> call[c].ts] /\ GraphIsCurrent
          /\ UNCHANGED <<asOf, currentPid, graph>>
      BY <2>4, <2>8 DEF GotList, Waits, AsksNow, OnPage
    <3>a. GraphIsCurrent'
      BY <2>2, <3>1 DEF Stored, GraphIsCurrent
    <3>2. CASE currentPid # 0
      <4>1. call'[c] = Request("graph", currentPid, asOf)
        BY <2>6, <2>8, <3>2 DEF GotList, Fetch
      <4>q. QED BY <3>1, <3>a, <4>1 DEF Request, OnPage, Later
    <3>3. CASE currentPid = 0
      <4>1. call'[c] = Request("meta", 0, Live)
        BY <2>6, <2>8, <3>3 DEF GotList, FetchMeta
      <4>2. Shows'
        BY <3>1, <3>a, <3>3 DEF Shows, Stored
      <4>q. QED BY <4>1, <4>2 DEF Request, OnPage
    <3>q. QED BY <3>2, <3>3
  <2>9. CASE GotGraph(c)
    <3>1. /\ list.as = asOf /\ GraphIsCurrent /\ call[c].pid = currentPid /\ call[c].ts # 0
          /\ list.ts <= call[c].ts /\ call[c].as = asOf /\ call[c].pid # 0
          /\ UNCHANGED <<asOf, currentPid, list>>
      BY <2>4, <2>9 DEF GotGraph, Waits, AsksNow, OnPage, Later, PidTypes, PidInv
    <3>2. call'[c] = Request("meta", 0, Live)
      BY <2>6, <2>9 DEF GotGraph, FetchMeta
    <3>3. CASE ShowGraph(c)
      <4>1. graph'.as = asOf /\ graph'.pid = currentPid
        BY <3>1, <3>3 DEF ShowGraph
      <4>2. Shows'
        BY <3>1, <4>1 DEF Shows, GraphIsCurrent
      <4>q. QED BY <3>2, <4>2 DEF Request, OnPage
    <3>4. CASE ~call[c].found /\ UNCHANGED graph
      <4>1. Stored => ~(Born[currentPid] <= list.ts)
        <5>1. Missed(currentPid, call[c].ts)
          BY <3>1, <3>4 DEF FoundInv
        <5>q. QED BY <2>5, <3>1, <5>1 DEF Stored, Missed
      <4>2. Shows'
        BY <2>2, <3>1, <3>4, <4>1 DEF Shows, Stored, GraphIsCurrent
      <4>q. QED BY <3>2, <4>2 DEF Request, OnPage
    <3>q. QED BY <2>9, <3>3, <3>4 DEF GotGraph
  <2>10. CASE GotMeta(c)
    <3>1. Shows /\ UNCHANGED <<asOf, currentPid, list, graph>>
      BY <2>4, <2>10 DEF GotMeta, Waits, viewVars
    <3>2. call'[c] = NoCall
      BY <2>6, <2>10 DEF GotMeta, Return
    <3>3. Shows'
      BY <2>2, <3>1 DEF Shows, Stored, GraphIsCurrent
    <3>q. QED BY <3>2, <3>3 DEF OnPage, NoCall, Request
  <2>11. CASE GotFocus(c)
    <3>1. /\ list.as = asOf /\ call[c].pid = currentPid /\ Born[currentPid] <= list.ts /\ call[c].ts # 0
          /\ list.ts <= call[c].ts /\ call[c].as = asOf /\ call[c].pid # 0
          /\ UNCHANGED <<asOf, currentPid, list>>
      BY <2>4, <2>11 DEF GotFocus, Waits, AsksNow, OnPage, Later, PidTypes, PidInv
    <3>2. call'[c] = NoCall
      BY <2>6, <2>11 DEF GotFocus, Return
    <3>3. CASE graph' = [as |-> call[c].as, ts |-> call[c].ts, pid |-> call[c].pid]
      <4>1. Shows'
        BY <3>1, <3>3 DEF Shows, GraphIsCurrent
      <4>q. QED BY <3>2, <4>1 DEF OnPage, NoCall, Request
    <3>4. CASE ~call[c].found
      <4>1. ~Stored
        <5>1. Missed(currentPid, call[c].ts)
          BY <3>1, <3>4 DEF FoundInv
        <5>q. QED BY <2>5, <3>1, <5>1 DEF Stored, Missed
      <4>2. Shows'
        BY <2>2, <3>1, <4>1 DEF Shows, Stored, GraphIsCurrent
      <4>q. QED BY <3>2, <4>2 DEF OnPage, NoCall, Request
    <3>q. QED BY <2>11, <3>3, <3>4 DEF GotFocus
  <2>12. CASE GotExpand(c)
    <3>1. Shows /\ call[c].pid = currentPid /\ call[c].as = asOf /\ UNCHANGED <<asOf, currentPid, list>>
      BY <2>4, <2>12 DEF GotExpand, Waits, AsksNow, OnPage
    <3>2. call'[c] = NoCall
      BY <2>6, <2>12 DEF GotExpand, Return
    <3>3. UNCHANGED graph \/ (graph'.as = asOf /\ graph'.pid = currentPid)
      BY <2>12, <3>1 DEF GotExpand, ShowGraph
    <3>4. Shows'
      BY <2>2, <3>1, <3>3 DEF Shows, Stored, GraphIsCurrent
    <3>q. QED BY <3>2, <3>4 DEF OnPage, NoCall, Request
  <2>13. CASE LoadMeta(c)
    <3>1. call'[c] = Request("loadList", 0, asOf)
      BY <2>6, <2>13 DEF LoadMeta, Fetch
    <3>q. QED BY <3>1 DEF OnPage, Request
  <2>14. CASE LoadList(c)
    <3>1. /\ list' = [as |-> asOf, ts |-> call[c].ts] /\ currentPid = 0 /\ graph.pid = 0
          /\ UNCHANGED <<asOf, currentPid, graph>>
      BY <2>4, <2>14 DEF LoadList, Waits, AsksNow, Loading
    <3>2. CASE Return(c)
      <4>1. call'[c] = NoCall
        BY <2>6, <3>2 DEF Return
      <4>q. QED BY <3>1, <4>1 DEF Shows, Stored, GraphIsCurrent, OnPage, NoCall, Request
    <3>3. CASE \E p \in Known(call[c].ts) : Fetch(c, "candidate", p)
      <4>1. PICK p \in Known(call[c].ts) : Fetch(c, "candidate", p)
        BY <3>3
      <4>2. call'[c] = Request("candidate", p, asOf)
        BY <2>6, <4>1 DEF Fetch
      <4>3. Born[p] <= call[c].ts
        BY <4>1 DEF Known
      <4>q. QED BY <3>1, <4>2, <4>3 DEF OnPage, Later, Request
    <3>q. QED BY <2>14, <3>2, <3>3 DEF LoadList
  <2>15. CASE LoadCandidate(c)
    <3>1. list.as = asOf /\ call[c].as = asOf /\ UNCHANGED <<asOf, list>>
      BY <2>4, <2>15 DEF LoadCandidate, Waits, AsksNow, OnPage
    <3>2. CASE Return(c) /\ currentPid' = call[c].pid
               /\ graph' = [as |-> call[c].as, ts |-> call[c].ts, pid |-> call[c].pid]
      <4>1. call'[c] = NoCall
        BY <2>6, <3>2 DEF Return
      <4>2. Shows' /\ call[c].pid # 0
        BY <2>15, <3>1, <3>2 DEF LoadCandidate, Waits, PidTypes, PidInv, Shows, GraphIsCurrent
      <4>q. QED BY <4>1, <4>2 DEF OnPage, NoCall, Request
    <3>3. CASE NextCandidate(c)
      <4>1. PICK p \in Known(list.ts), o \in {"candidate", "focus"} :
              /\ call' = [call EXCEPT ![c] = Request(o, p, asOf)]
              /\ currentPid' = IF o = "focus" THEN p ELSE currentPid
        BY <3>3, NextCandidateGives DEF PidTypes
      <4>2. call'[c] = Request(o, p, asOf)
        BY <2>6, <4>1
      <4>3. Born[p] <= list.ts
        BY <4>1 DEF Known
      <4>q. QED BY <3>1, <4>1, <4>2, <4>3 DEF OnPage, Later, Request
    <3>q. QED BY <2>15, <3>2, <3>3 DEF LoadCandidate
  <2>16. CASE NotOk(c) \/ Fail(c) \/ LoadFails(c)
    <3>1. fails' = fails + 1
      BY <2>16 DEF NotOk, Fail, LoadFails
    <3>q. QED BY <2>1, <2>3, <3>1
  <2>q. QED BY <1>4, <2>7, <2>8, <2>9, <2>10, <2>11, <2>12, <2>13, <2>14, <2>15, <2>16 DEF CallStep
<1>q. QED BY <1>1, <1>2, <1>3, <1>4, StepCases, OpensACall

-----------------------------------------------------------------------------
(* The alerts. *)

LEMMA CrossingsFinite ==
  ASSUME loadTs \in Nat, NEW e \in Nat
  PROVE  IsFiniteSet(CrossingsTo(e)) /\ Cardinality(CrossingsTo(e)) \in Nat
<1>1. IsFiniteSet((loadTs + 1)..e)
  BY FS_Interval
<1>2. CrossingsTo(e) \in SUBSET ((loadTs + 1)..e)
  BY DEF CrossingsTo
<1>3. IsFiniteSet(CrossingsTo(e))
  BY <1>1, <1>2, FS_Subset
<1>q. QED BY <1>3, FS_CardinalityType

LEMMA CrossingsGrow ==
  ASSUME loadTs \in Nat, NEW e \in Nat, NEW u \in Nat, e <= u
  PROVE  Cardinality(CrossingsTo(e)) <= Cardinality(CrossingsTo(u))
<1>1. CrossingsTo(e) \in SUBSET CrossingsTo(u)
  BY DEF CrossingsTo
<1>q. QED BY <1>1, CrossingsFinite, FS_Subset

(* Between a time below the threshold and a later one above it the value    *)
(* has crossed it.                                                          *)
LEMMA CrossesBetween ==
  ASSUME NEW e \in Nat, NEW u \in Nat, e <= u, e \notin Hot, u \in Hot
  PROVE  \E t \in (e + 1)..u : t \in Hot /\ t - 1 \notin Hot
<1> DEFINE R == {p \in Nat \X Nat : p[1] < p[2]}
           H == {t \in (e + 1)..u : t \in Hot}
<1>1. IsWellFoundedOn(R, Nat)
  BY NatLessThanWellFounded DEF OpToRel
<1>2. H \subseteq Nat /\ H # {}
  <2>1. u \in (e + 1)..u
    OBVIOUS
  <2>q. QED BY <2>1
<1>3. PICK t \in H : \A y \in H : ~(<<y, t>> \in R)
  <2> HIDE DEF R, H
  <2>q. QED BY <1>1, <1>2, WFMin
<1>4. t \in (e + 1)..u /\ t \in Hot /\ t \in Nat /\ t - 1 \in Nat
  OBVIOUS
<1>5. t - 1 \notin Hot
  <2>1. CASE t = e + 1
    <3>1. t - 1 = e
      BY <2>1
    <3>q. QED BY <3>1
  <2>2. CASE t # e + 1
    <3>1. t - 1 \in (e + 1)..u /\ <<t - 1, t>> \in R
      BY <1>4, <2>2
    <3>q. QED BY <1>3, <3>1
  <2>q. QED BY <2>1, <2>2
<1>q. QED BY <1>4, <1>5

LEMMA OneMoreCrossing ==
  ASSUME loadTs \in Nat, NEW e \in Nat, NEW u \in Nat, loadTs <= e, e <= u, e \notin Hot, u \in Hot
  PROVE  Cardinality(CrossingsTo(e)) + 1 <= Cardinality(CrossingsTo(u))
<1>1. PICK t \in (e + 1)..u : t \in Hot /\ t - 1 \notin Hot
  BY CrossesBetween
<1>2. t \notin CrossingsTo(e) /\ CrossingsTo(e) \cup {t} \in SUBSET CrossingsTo(u)
  BY <1>1 DEF CrossingsTo
<1>3. IsFiniteSet(CrossingsTo(e)) /\ IsFiniteSet(CrossingsTo(u))
  BY CrossingsFinite
<1>4. Cardinality(CrossingsTo(e) \cup {t}) = Cardinality(CrossingsTo(e)) + 1
  BY <1>2, <1>3, FS_AddElement
<1>5. Cardinality(CrossingsTo(e) \cup {t}) <= Cardinality(CrossingsTo(u))
  BY <1>2, <1>3, FS_Subset
<1>q. QED BY <1>4, <1>5

(* What the invariant says after a step. *)
After(e, n) ==
  /\ fired' <= n + FiresUnprimed'
  /\ active' => e \in Hot
  /\ ~active' /\ e \in Hot => e = loadTs' /\ fired' = 0 /\ (fails' > 0 \/ Primes')
  /\ \A c \in Call :
       call'[c].op \in {"list", "loadList"} /\ call'[c].as = Live /\ call'[c].ts # 0 => e <= call'[c].ts

LEMMA AfterIsEvaluated ==
  ASSUME loadTs' = loadTs, NEW e, After(e, Cardinality(CrossingsTo(e)))
  PROVE  EvaluatedOn(e)'
<1>1. Cardinality(CrossingsTo(e))' = Cardinality(CrossingsTo(e))
  BY DEF CrossingsTo
<1>q. QED BY <1>1 DEF EvaluatedOn, After

LEMMA UnprimedType ==
  /\ FiresUnprimed \in {0, 1}
  /\ PidTypes' /\ PidTypes /\ loadTs' = loadTs /\ fails <= fails' =>
       FiresUnprimed' \in {0, 1} /\ FiresUnprimed <= FiresUnprimed'
BY DEF FiresUnprimed, PidTypes, TypeOK

(* Steps that evaluate no rule, and answer with the newest data.            *)
LEMMA Unevaluated ==
  ASSUME PidTypes, PidTypes', TimeInv, AlertInv,
         loadTs' = loadTs, newest <= newest', UNCHANGED <<active, fired>>,
         fails <= fails', overlapped => overlapped',
         Primes => Primes' \/ fails' > 0,
         \A c \in Call : call'[c].op \in {"list", "loadList"} /\ call'[c].as = Live /\ call'[c].ts # 0 =>
                         call'[c] = call[c] \/ call'[c].ts = newest
  PROVE  AlertInv'
<1>1. SUFFICES ASSUME ~overlapped' PROVE \E e \in loadTs'..newest' : EvaluatedOn(e)'
  BY DEF AlertInv
<1>2. PICK e \in loadTs..newest : EvaluatedOn(e)
  BY <1>1 DEF AlertInv
<1>3. loadTs \in Nat /\ newest \in Nat /\ newest' \in Nat /\ e \in Nat /\ fired \in Nat
  BY DEF PidTypes, TypeOK
<1>4. Cardinality(CrossingsTo(e)) \in Nat
  BY <1>3, CrossingsFinite
<1>5. fired' <= Cardinality(CrossingsTo(e)) + FiresUnprimed'
  <2>1. FiresUnprimed \in Nat /\ FiresUnprimed' \in Nat /\ FiresUnprimed <= FiresUnprimed'
    BY UnprimedType
  <2>2. fired <= Cardinality(CrossingsTo(e)) + FiresUnprimed
    BY <1>2 DEF EvaluatedOn
  <2>q. QED BY <1>3, <1>4, <2>1, <2>2
<1>6. ~active' /\ e \in Hot => e = loadTs' /\ fired' = 0 /\ (fails' > 0 \/ Primes')
  <2>1. fails > 0 => fails' > 0
    BY DEF PidTypes, TypeOK
  <2>q. QED BY <1>2, <2>1 DEF EvaluatedOn
<1>7. \A c \in Call :
        call'[c].op \in {"list", "loadList"} /\ call'[c].as = Live /\ call'[c].ts # 0 => e <= call'[c].ts
  BY <1>2, <1>3 DEF EvaluatedOn
<1>8. After(e, Cardinality(CrossingsTo(e)))
  BY <1>2, <1>5, <1>6, <1>7 DEF After, EvaluatedOn
<1>9. EvaluatedOn(e)'
  BY <1>8, AfterIsEvaluated
<1>10. e \in loadTs'..newest'
  BY <1>3
<1>q. QED BY <1>9, <1>10

(* Steps that take over a list of the newest data and evaluate it.          *)
LEMMA Evaluated ==
  ASSUME PidTypes, PidTypes', TimeInv, SingleInv, AlertInv, NEW c \in Call, NEW prime \in BOOLEAN,
         ~overlapped, call[c].op \in {"list", "loadList"}, call[c].as = Live, call[c].ts # 0,
         prime \/ call[c].op = "list", asOf = Live,
         list'.ts = call[c].ts, EvaluateAlerts(prime),
         UNCHANGED <<loadTs, newest, fails>>, call'[c].ts = 0,
         \A d \in Call : d # c => call'[d] = call[d]
  PROVE  AlertInv'
<1>1. PICK e \in loadTs..newest : EvaluatedOn(e)
  BY DEF AlertInv
<1>u. PICK u : u = call[c].ts
  OBVIOUS
<1>2. /\ loadTs \in Nat /\ newest \in Nat /\ e \in Nat /\ fired \in Nat /\ u \in Nat /\ fails \in Nat
      /\ fired' \in Nat /\ loadTs' = loadTs /\ newest' = newest
  BY <1>u DEF PidTypes, TypeOK, Req
<1>3. loadTs <= e /\ e <= u /\ u <= newest
  BY <1>1, <1>2, <1>u DEF EvaluatedOn, TimeInv, InTime
<1>4. \A d \in Call : d # c => call[d].op = "none"
  BY Only DEF Idle
<1>5. active' = (u \in Hot)
  BY <1>u DEF EvaluateAlerts, Crossed
<1>6. fired' = IF Rising /\ ~prime THEN Min2(fired + 1, MaxTs) ELSE fired
  BY DEF EvaluateAlerts
<1>7. FiresUnprimed \in Nat /\ FiresUnprimed' = FiresUnprimed
  BY UnprimedType DEF FiresUnprimed
<1>8. fired <= Cardinality(CrossingsTo(e)) + FiresUnprimed
  BY <1>1 DEF EvaluatedOn
<1>9. /\ Cardinality(CrossingsTo(e)) \in Nat /\ Cardinality(CrossingsTo(u)) \in Nat
      /\ Cardinality(CrossingsTo(e)) <= Cardinality(CrossingsTo(u))
  BY <1>2, <1>3, CrossingsFinite, CrossingsGrow
<1>10. fired' <= Cardinality(CrossingsTo(u)) + FiresUnprimed
  <2>1. CASE ~(Rising /\ ~prime)
    <3>1. fired' = fired
      BY <1>6, <2>1
    <3>q. QED BY <1>2, <1>7, <1>8, <1>9, <3>1
  <2>2. CASE Rising /\ ~prime
    <3>1. u \in Hot /\ ~active /\ call[c].op = "list"
      BY <1>u, <2>2 DEF Rising, Crossed
    <3>2. fired' <= fired + 1
      <4>1. MaxTs \in Nat /\ fired + 1 \in Nat
        BY <1>2, DashboardAssumption
      <4>2. fired' = Min2(fired + 1, MaxTs)
        BY <1>6, <2>2
      <4>q. QED BY <4>1, <4>2, Min2Type
    <3>3. CASE e \notin Hot
      <4>1. Cardinality(CrossingsTo(e)) + 1 <= Cardinality(CrossingsTo(u))
        BY <1>2, <1>3, <3>1, <3>3, OneMoreCrossing
      <4>q. QED BY <1>2, <1>7, <1>8, <1>9, <3>2, <4>1
    <3>4. CASE e \in Hot
      <4>1. e = loadTs /\ fired = 0 /\ (fails > 0 \/ Primes)
        BY <1>1, <3>1, <3>4 DEF EvaluatedOn
      <4>2. ~Primes
        BY <1>4, <3>1 DEF Primes
      <4>3. FiresUnprimed = 1
        BY <3>4, <4>1, <4>2 DEF FiresUnprimed
      <4>q. QED BY <1>2, <1>9, <3>2, <4>1, <4>3
    <3>q. QED BY <3>3, <3>4
  <2>q. QED BY <2>1, <2>2
<1>11. \A d \in Call :
         call'[d].op \in {"list", "loadList"} /\ call'[d].as = Live /\ call'[d].ts # 0 => u <= call'[d].ts
  <2>1. ASSUME NEW d \in Call, d # c PROVE call'[d].op = "none"
    BY <1>4, <2>1
  <2>q. QED BY <2>1
<1>12. After(u, Cardinality(CrossingsTo(u)))
  <2>1. active' => u \in Hot
    BY <1>5
  <2>2. ~(~active' /\ u \in Hot)
    BY <1>5
  <2>3. fired' <= Cardinality(CrossingsTo(u)) + FiresUnprimed'
    BY <1>7, <1>10
  <2>q. QED BY <1>11, <2>1, <2>2, <2>3 DEF After
<1>13. EvaluatedOn(u)'
  BY <1>2, <1>12, AfterIsEvaluated
<1>14. u \in loadTs'..newest'
  BY <1>2, <1>3
<1>q. QED BY <1>13, <1>14 DEF AlertInv

LEMMA AlertKeeps ==
  ASSUME PidTypes, PidTypes', TimeInv, SingleInv, AskInv, AlertInv, [Next]_vars
  PROVE  AlertInv'
<1>0. /\ loadTs \in Nat /\ newest \in Nat /\ fails \in Nat
      /\ call \in [Call -> Req] /\ \A c \in Call : call[c] \in Req
  BY DEF PidTypes, TypeOK
<1>1. CASE Aside
  BY <1>0, <1>1, Unevaluated DEF Aside, alertVars, Primes
<1>2. CASE Record
  BY <1>0, <1>2, Unevaluated DEF Record, alertVars, Primes
<1>3. CASE Opens
  <2>1. PICK c \in Call : Idle(c) /\ call'[c].ts = 0 /\ \A d \in Call : d # c => call'[d] = call[d]
    BY <1>3 DEF Opens
  <2>2. Primes => Primes'
    BY <2>1 DEF Primes, Idle
  <2>3. \A d \in Call : call'[d].ts # 0 => call'[d] = call[d]
    BY <2>1
  <2>4. /\ UNCHANGED <<loadTs, newest, active, fired, fails>> /\ (overlapped => overlapped')
    BY <1>3 DEF Opens, Overlap, alertVars
  <2>q. QED BY <1>0, <2>2, <2>3, <2>4, Unevaluated
<1>4. ASSUME NEW c \in Call, CallStep(c) PROVE AlertInv'
  <2>1. /\ ~Idle(c) /\ UNCHANGED <<asOf, newest, loadTs, overlapped>>
        /\ \A d \in Call : d # c => call'[d] = call[d]
        /\ call'[c].ts # 0 => /\ call'[c].op = call[c].op /\ call'[c].as = call[c].as
                              /\ call'[c].ts = IF call[c].as = Live THEN newest ELSE call[c].as
    BY <1>4, CallStepEffect DEF AnswerTs
  <2>2. \A d \in Call : call'[d].op \in {"list", "loadList"} /\ call'[d].as = Live /\ call'[d].ts # 0 =>
                         call'[d] = call[d] \/ call'[d].ts = newest
    BY <2>1
  <2>3. ASSUME UNCHANGED <<active, fired>>, fails <= fails',
               call[c].op \in {"loadMeta", "loadList"} => call'[c].op \in {"loadMeta", "loadList"} \/ fails' > 0
        PROVE  AlertInv'
    <3>1. Primes => Primes' \/ fails' > 0
      BY <2>1, <2>3 DEF Primes
    <3>q. QED BY <1>0, <2>1, <2>2, <2>3, <3>1, Unevaluated
  <2>4. CASE Answer(c)
    <3>1. call'[c].op = call[c].op
      BY <2>4, AnswerGives DEF PidTypes
    <3>q. QED BY <1>0, <2>3, <2>4, <3>1 DEF Answer, alertVars, worldVars
  <2>5. CASE GotGraph(c) \/ GotMeta(c) \/ GotFocus(c) \/ GotExpand(c) \/ LoadCandidate(c)
    <3>1. UNCHANGED <<active, fired, fails>> /\ call[c].op \notin {"loadMeta", "loadList"}
      BY <2>5 DEF GotGraph, GotMeta, GotFocus, GotExpand, LoadCandidate, Waits, alertVars, worldVars
    <3>q. QED BY <1>0, <2>3, <3>1
  <2>6. CASE LoadMeta(c)
    <3>1. call' = [call EXCEPT ![c] = Request("loadList", 0, asOf)] /\ UNCHANGED <<active, fired, fails>>
      BY <2>6 DEF LoadMeta, Fetch, alertVars, worldVars
    <3>2. call'[c].op = "loadList"
      BY <1>0, <3>1 DEF Request
    <3>q. QED BY <1>0, <2>3, <3>1, <3>2
  <2>7. CASE NotOk(c) \/ Fail(c) \/ LoadFails(c)
    <3>1. UNCHANGED <<active, fired>> /\ fails' = fails + 1
      BY <2>7 DEF NotOk, Fail, LoadFails, alertVars
    <3>2. fails <= fails' /\ fails' > 0
      BY <1>0, <3>1
    <3>q. QED BY <2>3, <3>1, <3>2
  <2>8. ASSUME NEW prime \in BOOLEAN, (GotList(c) /\ ~prime) \/ (LoadList(c) /\ prime)
        PROVE  AlertInv'
    <3>1. /\ call[c].op \in {"list", "loadList"} /\ call[c].ts # 0 /\ (prime \/ call[c].op = "list")
          /\ list'.ts = call[c].ts /\ EvaluateAlerts(prime) /\ UNCHANGED fails
      <4>1. CASE GotList(c) /\ prime = FALSE
        BY <4>1 DEF GotList, Waits, worldVars
      <4>2. CASE LoadList(c) /\ prime = TRUE
        BY <4>2 DEF LoadList, Waits, worldVars
      <4>q. QED BY <2>8, <4>1, <4>2
    <3>2. CASE overlapped
      BY <2>1, <3>2 DEF AlertInv
    <3>3. CASE ~overlapped /\ asOf = Live
      <4>1. call[c].as = Live
        BY <3>1, <3>3 DEF AskInv, AsksNow
      <4>2. call'[c].ts = 0
        <5>1. ASSUME NEW r, call' = [call EXCEPT ![c] = r] PROVE call'[c] = r
          BY <1>0, <5>1
        <5>2. CASE GotList(c)
          BY <5>1, <5>2 DEF GotList, Fetch, FetchMeta, Request
        <5>3. CASE LoadList(c)
          BY <5>1, <5>3 DEF LoadList, Return, Fetch, NoCall, Request
        <5>q. QED BY <2>8, <5>2, <5>3
      <4>q. QED BY <2>1, <3>1, <3>3, <4>1, <4>2, Evaluated
    <3>4. CASE ~overlapped /\ asOf # Live
      <4>1. call[c].op = "list"
        BY <3>1, <3>4 DEF AskInv, Loading
      <4>2. UNCHANGED <<active, fired>>
        BY <3>1, <3>4 DEF EvaluateAlerts, Rising
      <4>q. QED BY <1>0, <2>3, <3>1, <4>1, <4>2
    <3>q. QED BY <3>2, <3>3, <3>4
  <2>9. CASE GotList(c) \/ LoadList(c)
    <3>1. CASE GotList(c)
      BY <2>8, <3>1
    <3>2. CASE LoadList(c)
      BY <2>8, <3>2
    <3>q. QED BY <2>9, <3>1, <3>2
  <2>q. QED BY <1>4, <2>4, <2>5, <2>6, <2>7, <2>9 DEF CallStep
<1>q. QED BY <1>1, <1>2, <1>3, <1>4, StepCases, OpensACall

-----------------------------------------------------------------------------
(* The invariant holds. *)

LEMMA InitInv == ASSUME Init PROVE IInv
<1>1. PidTypes
  BY InitPidTypes
<1>2. PICK d \in Call : call = [c \in Call |-> IF c = d THEN Request("loadMeta", 0, Live) ELSE NoCall]
  BY DEF Init
<1>3. /\ \A c \in Call : call[c].ts = 0
      /\ call[d].op = "loadMeta" /\ call[d].as = Live
      /\ \A c \in Call : c # d => call[c].op = "none"
  BY <1>2 DEF Request, NoCall
<1>4. TimeInv /\ FoundInv
  BY <1>3 DEF Init, TimeInv, InTime, Nothing, FoundInv
<1>5. SingleInv
  BY <1>3 DEF SingleInv, Idle
<1>6. AskInv
  BY <1>3 DEF Init, AskInv, AsksNow, Loading
<1>7. ViewInv
  BY <1>3 DEF ViewInv, Rests, OnPage
<1>8. AlertInv
  <2>1. loadTs = 1 /\ newest = 1 /\ fired = 0 /\ active = FALSE
    BY DEF Init
  <2>2. Cardinality(CrossingsTo(1)) \in Nat
    BY <2>1, CrossingsFinite
  <2>3. FiresUnprimed \in Nat
    BY UnprimedType
  <2>4. Primes
    BY <1>3 DEF Primes
  <2>5. EvaluatedOn(1)
    BY <1>3, <2>1, <2>2, <2>3, <2>4 DEF EvaluatedOn
  <2>q. QED BY <2>1, <2>5 DEF AlertInv
<1>9. InspectorShowsSelected
  BY DEF Init, InspectorShowsSelected
<1>q. QED BY <1>1, <1>4, <1>5, <1>6, <1>7, <1>8, <1>9 DEF IInv, PidTypes

LEMMA StepKeeps == ASSUME IInv, [Next]_vars PROVE IInv'
<1>1. PidTypes /\ PidTypes'
  BY PidTypesStep DEF IInv, PidTypes
<1>2. TimeInv' /\ FoundInv' /\ SingleInv' /\ AskInv' /\ ViewInv' /\ AlertInv' /\ InspectorShowsSelected'
  BY <1>1, TimeKeeps, FoundKeeps, SingleKeeps, AskKeeps, ViewKeeps, AlertKeeps, InspectorKeeps DEF IInv
<1>q. QED BY <1>1, <1>2 DEF IInv, PidTypes

(* The invariant of the page holds for every set of processes and calls,    *)
(* whatever order answers come in, and whatever fails.                      *)
THEOREM Invariance == Spec => []IInv
<1>1. Init => IInv
  BY InitInv
<1>2. IInv /\ [Next]_vars => IInv'
  BY StepKeeps
<1>q. QED BY <1>1, <1>2, PTL DEF Spec

(* Every global of the page keeps its type, and what is asked for, shown    *)
(* and selected are processes of the capture (app.js).                      *)
THEOREM TypeCorrect == Spec => []TypeOK
<1>1. IInv => TypeOK
  BY DEF IInv
<1>q. QED BY <1>1, Invariance, PTL

(* The details in the panel are of the process selected, however many       *)
(* answers about others are still to come (selectNode).                     *)
THEOREM InspectorShowsSelectedHolds == Spec => []InspectorShowsSelected
<1>1. IInv => InspectorShowsSelected
  BY DEF IInv
<1>q. QED BY <1>1, Invariance, PTL

(* When everything under way has ended the page shows one moment, the one   *)
(* asked for, and a stored process that was born by then: for any number of *)
(* processes, clicks and calls, as long as the user and the timer wait for  *)
(* the answers and no request fails (refreshData, focusPid).                *)
THEOREM SettledViewHolds == Spec => []SettledView
<1>1. IInv => SettledView
  BY DEF IInv, SettledView, Settled, Idle, ViewInv, Rests, Shows, Stored, GraphIsCurrent
<1>q. QED BY <1>1, Invariance, PTL

(* A rule fires once per crossing, whenever its value is above the          *)
(* threshold, and once more at most if the request of the load failed, as   *)
(* long as answers do not overtake one another (evaluateAlerts).            *)
THEOREM FiresOncePerCrossingHolds == Spec => []FiresOncePerCrossing
<1>1. IInv => FiresOncePerCrossing
  <2>1. SUFFICES ASSUME IInv, ~overlapped PROVE fired <= Crossings + FiresUnprimed
    BY DEF FiresOncePerCrossing
  <2>2. PICK e \in loadTs..newest : EvaluatedOn(e)
    BY <2>1 DEF IInv, AlertInv
  <2>3. loadTs \in Nat /\ newest \in Nat /\ e \in Nat /\ e <= newest /\ fired \in Nat /\ FiresUnprimed \in Nat
    BY <2>1, UnprimedType DEF IInv, TypeOK
  <2>4. /\ Cardinality(CrossingsTo(e)) \in Nat /\ Cardinality(CrossingsTo(newest)) \in Nat
        /\ Cardinality(CrossingsTo(e)) <= Cardinality(CrossingsTo(newest))
    BY <2>3, CrossingsFinite, CrossingsGrow
  <2>5. fired <= Cardinality(CrossingsTo(e)) + FiresUnprimed
    BY <2>2 DEF EvaluatedOn
  <2>6. Crossings = Cardinality(CrossingsTo(newest))
    BY DEF Crossings, CrossingsTo
  <2>q. QED BY <2>3, <2>4, <2>5, <2>6
<1>q. QED BY <1>1, Invariance, PTL
=============================================================================
