--------------------------------- MODULE Api ---------------------------------
(***************************************************************************)
(* The HTTP handler of engine/causegraph/api/server.py: do_GET and do_POST  *)
(* with the status of every way out, over the shared cache of GraphCache.   *)
(* Each request has a thread of its own.                                    *)
(*                                                                         *)
(* The capture is of one process, whose pid is in every event; so a view    *)
(* finds it if it has an event to build the graph from.                     *)
(***************************************************************************)
EXTENDS GraphCache

CONSTANTS
  Calls,     \* the requests that come: [route, as_of]
  NoCall     \* a thread without a request

ASSUME ApiAssumption ==
  /\ NoCall \notin Calls
  /\ \A c \in Calls : c.as_of \in AsOf \cup {Now}

VARIABLES
  call,      \* the request a thread has in hand
  status,    \* 0, the status it was answered with, or Dropped
  target     \* whose the pid of a kill is: the process the page showed, or another

(* The connection is closed without an answer. *)
Dropped == -1

apiVars == <<call, status, target>>

(* The routes answered from a view of the capture: "all" is the whole       *)
(* graph, and "nopid" a request for one with neither a pid nor `all`.       *)
ViewRoutes == {"graph", "all", "nopid", "proc", "incidents"}

ApiInit ==
  /\ Init
  /\ call = [t \in Thread |-> NoCall]
  /\ status = [t \in Thread |-> 0]
  /\ target = [t \in Thread |-> "shown"]

(* The thread is at the one answer that this route's code still owes. *)
At(t, routes) == call[t] # NoCall /\ call[t].route \in routes /\ status[t] = 0

Free(t) == call[t] = NoCall \/ status[t] # 0

(* _json and _send *)
Send(t, s) == status' = [status EXCEPT ![t] = s]

(* What is answered at once: a file of the page, which is read outside of   *)
(* any try; and, with 404 standing for 400 and 403 too, a request that      *)
(* cannot be parsed, is for another host or route, lacks the header a POST  *)
(* needs or asks to kill pid 1.                                             *)
AtOnce(c) ==
  IF c.route = "static" THEN {200, 404, Dropped} ELSE {0}

(* A request needs nothing of the cache, and its thread is a new one. *)
NoView(t) ==
  /\ pc' = [pc EXCEPT ![t] = "idle"]
  /\ want' = [want EXCEPT ![t] = Now] /\ ev' = [ev EXCEPT ![t] = <<>>]
  /\ due' = [due EXCEPT ![t] = {}] /\ asked' = [asked EXCEPT ![t] = 0]
  /\ UNCHANGED <<store, cache, slice, cacheLock, buildLock, top, low, seen, torn>>

(* do_GET and do_POST, up to the work a request is for. *)
Accept(t) ==
  /\ Free(t)
  /\ \E c \in Calls :
       /\ call' = [call EXCEPT ![t] = c]
       /\ IF c.route \in ViewRoutes THEN Request(t, c.as_of) ELSE NoView(t)
       /\ \E s \in AtOnce(c) : Send(t, s)
  /\ target' = [target EXCEPT ![t] = "shown"]

(* graph_payload, proc_detail or incidents returns or is caught; a graph of *)
(* no events does not have the process asked for, if one was.               *)
RespondView(t) ==
  /\ At(t, ViewRoutes)
  /\ \/ pc[t] = "failed" /\ Send(t, 500)
     \/ /\ pc[t] = "answered"
        /\ Send(t, IF \/ call[t].route = "nopid"
                      \/ call[t].route \in {"graph", "proc"} /\ ev[t] = <<>>
                     THEN 400 ELSE 200)
  /\ UNCHANGED <<vars, call, target>>

(* _latest_ts answers null when the file cannot be read. *)
Meta(t) ==
  /\ At(t, {"meta"})
  /\ Send(t, 200)
  /\ UNCHANGED <<vars, call, target>>

(* window answers null when the SELECT fails; but it opens the file outside *)
(* of its try, and if that fails the handler ends without an answer.        *)
Window(t) ==
  /\ At(t, {"window"})
  /\ Send(t, 200) \/ Send(t, Dropped)
  /\ UNCHANGED <<vars, call, target>>

(* The process shown has ended and another one has got its pid. *)
PidReused(t) ==
  /\ At(t, {"kill"})
  /\ target' = [target EXCEPT ![t] = "another"]
  /\ UNCHANGED <<vars, call, status>>

(* os.kill of whichever process has the pid now, if there is one and the    *)
(* user may.                                                                *)
Kill(t) ==
  /\ At(t, {"kill"})
  /\ \E s \in {200, 403, 404, 500} : Send(t, s)
  /\ UNCHANGED <<vars, call, target>>

Respond(t) == RespondView(t) \/ Meta(t) \/ Window(t) \/ Kill(t)

ApiServe(t) == (Serve(t) /\ UNCHANGED apiVars) \/ Respond(t)

ApiNext ==
  \/ (CommitBatch \/ ReplaceFile) /\ UNCHANGED apiVars
  \/ \E t \in Thread : Accept(t) \/ ApiServe(t) \/ PidReused(t)

ApiSpec == ApiInit /\ [][ApiNext]_<<vars, apiVars>>

FairApiSpec == ApiSpec /\ \A t \in Thread : SF_<<vars, apiVars>>(ApiServe(t))

-----------------------------------------------------------------------------

(* "return a clean JSON error, never a stack-trace 500": every request is   *)
(* answered with a status, whatever fails in it and whatever the others do: *)
(* the two locks are taken in one order and a failed step leaves neither    *)
(* taken.  (But /api/window drops the connection when the database cannot   *)
(* be opened, and so does a file of the page that cannot be read.)          *)
EveryRequestAnswered ==
  \A t \in Thread :
    ~Free(t) ~> IF status[t] = Dropped THEN call[t].route \in {"window", "static"}
                ELSE status[t] # 0

(* "no process with pid ... in the capture window" is said of now only if   *)
(* no event of the process was there when the request began, and never      *)
(* because a step failed.                                                   *)
AbsentMeansAbsent ==
  torn \subseteq {"grown"} =>
    \A t \in Thread :
      call[t] # NoCall /\ call[t].route \in {"graph", "proc"} /\ status[t] = 400 =>
        pc[t] = "answered" /\ (want[t] = Now => due[t] \cap Rows = {})

-----------------------------------------------------------------------------
(* What does not hold (README, "Refuted claims"). *)

(* "return a clean JSON error" (_api), which /api/window does not.          *)
NeverDropped == \A t \in Thread : status[t] # Dropped

(* "Only ever a single, specific process": the one the page showed.         *)
KillsTheProcessShown ==
  \A t \in Thread : target[t] = "another" => status[t] # 200
=============================================================================
