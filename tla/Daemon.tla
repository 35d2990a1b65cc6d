-------------------------------- MODULE Daemon --------------------------------
(***************************************************************************)
(* daemon/cmd/cged/main.go: the goroutines of run() around the pipeline.   *)
(*                                                                         *)
(*   collectors --> out (channel) --> bridge --> Ingest --> ring --> Run   *)
(*   heartbeatLoop --------------------------> Ingest --^                  *)
(*                                                                         *)
(* and the order in which they stop: the collectors see ctx.Done and       *)
(* return, out is closed when the last one has, the bridge drains out,     *)
(* main waits for the bridge and for the heartbeat, and only then cancels  *)
(* the pipeline's own context so that Run flushes once more.               *)
(*                                                                         *)
(* Ingester must hold the two goroutines that call Ingest.                 *)
(***************************************************************************)
EXTENDS Pipeline

CONSTANTS
  Collector,    \* the collectors started: the poller and the file watcher
  Fallible,     \* those whose Start may return before ctx is done (filewatch)
  ChanSize,     \* capacity of out (main.go makes it cfg.BufferSize)
  bridgeG,      \* the bridge goroutine, as an Ingester
  heartbeatG    \* the heartbeat goroutine, as an Ingester

ASSUME DaemonAssumption ==
  /\ Ingester = {bridgeG, heartbeatG} /\ bridgeG # heartbeatG
  /\ IsFiniteSet(Collector)
  /\ Fallible \subseteq Collector
  /\ ChanSize \in Nat

VARIABLES
  ctxDone,     \* SIGINT, SIGTERM or -duration has cancelled the root context
  collector,   \* each collector: "select", "send" or "returned"
  out,         \* how many events the channel holds
  outClosed,
  bridge,      \* "range" (receiving), "ingest" (an event in hand) or "done"
  heartbeat,   \* "emit", "select" or "done"
  main,        \* what main waits for: "ctx", "bridge", "heartbeat", "pipe"; or "returned"
  produced,    \* history: events collected and heartbeats due
  abandoned,   \* history: events a collector was sending when ctx ended it
  reported     \* the two counters of the shutdown line, once it is logged

goVars == <<ctxDone, collector, out, outClosed, bridge, heartbeat, main,
            produced, abandoned, reported>>
daemonVars == <<pipelineVars, goVars>>

NotReported == <<>>

DaemonInit ==
  /\ Init
  /\ ctxDone = FALSE
  /\ collector = [c \in Collector |-> "select"]
  /\ out = 0 /\ outClosed = FALSE
  /\ bridge = "range" /\ heartbeat = "emit" /\ main = "ctx"
  /\ produced = 1  \* the heartbeat emitted at startup
  /\ abandoned = 0
  /\ reported = NotReported

-----------------------------------------------------------------------------

Signal ==
  /\ ~ctxDone
  /\ ctxDone' = TRUE
  /\ UNCHANGED <<pipelineVars, collector, out, outClosed, bridge, heartbeat, main,
                 produced, abandoned, reported>>

(* A timer tick or an fs event yields an event: the collector enters send.  *)
Collect(c) ==
  /\ collector[c] = "select"
  /\ produced < MaxIngest
  /\ produced' = produced + 1
  /\ collector' = [collector EXCEPT ![c] = "send"]
  /\ UNCHANGED <<pipelineVars, ctxDone, out, outClosed, bridge, heartbeat, main,
                 abandoned, reported>>

(* A send with a default case: a full channel silently drops the event. *)
SendOrDrop(c) ==
  /\ collector[c] = "send"
  /\ out' = IF out < ChanSize THEN out + 1 ELSE out
  /\ collector' = [collector EXCEPT ![c] = "select"]
  /\ UNCHANGED <<pipelineVars, ctxDone, outClosed, bridge, heartbeat, main,
                 produced, abandoned, reported>>

(* send's first case.  The poller may have more events of the same tick to  *)
(* send; it then enters send again without passing through its select.      *)
Send(c) ==
  /\ collector[c] = "send"
  /\ out < ChanSize
  /\ out' = out + 1
  /\ \/ /\ collector' = [collector EXCEPT ![c] = "select"]
        /\ UNCHANGED produced
     \/ /\ produced < MaxIngest
        /\ produced' = produced + 1
        /\ UNCHANGED collector
  /\ UNCHANGED <<pipelineVars, ctxDone, outClosed, bridge, heartbeat, main,
                 abandoned, reported>>

(* send's other case; the collector returns and its event is not recorded.  *)
Abandon(c) ==
  /\ collector[c] = "send"
  /\ ctxDone
  /\ collector' = [collector EXCEPT ![c] = "returned"]
  /\ abandoned' = abandoned + 1
  /\ UNCHANGED <<pipelineVars, ctxDone, out, outClosed, bridge, heartbeat, main,
                 produced, reported>>

(* Start returns: on ctx.Done, or early when the watcher cannot be made or  *)
(* its channels close.                                                      *)
ReturnCollector(c) ==
  /\ collector[c] = "select"
  /\ ctxDone \/ c \in Fallible
  /\ collector' = [collector EXCEPT ![c] = "returned"]
  /\ UNCHANGED <<pipelineVars, ctxDone, out, outClosed, bridge, heartbeat, main,
                 produced, abandoned, reported>>

(* cwg.Wait(); close(out) *)
CloseOut ==
  /\ \A c \in Collector : collector[c] = "returned"
  /\ ~outClosed
  /\ outClosed' = TRUE
  /\ UNCHANGED <<pipelineVars, ctxDone, collector, out, bridge, heartbeat, main,
                 produced, abandoned, reported>>

-----------------------------------------------------------------------------

BridgeReceive ==
  /\ bridge = "range"
  /\ bridgeG \notin uncounted
  /\ out > 0
  /\ out' = out - 1
  /\ bridge' = "ingest"
  /\ UNCHANGED <<pipelineVars, ctxDone, collector, outClosed, heartbeat, main,
                 produced, abandoned, reported>>

BridgeIngest ==
  /\ bridge = "ingest"
  /\ Ingest(bridgeG)
  /\ bridge' = "range"
  /\ UNCHANGED <<ctxDone, collector, out, outClosed, heartbeat, main,
                 produced, abandoned, reported>>

BridgeCount ==
  /\ FinishIngest(bridgeG)
  /\ UNCHANGED goVars

(* Leaves the loop as soon as out is closed, whatever it still holds. *)
BridgeStopsAtClose ==
  /\ bridge = "range"
  /\ bridgeG \notin uncounted
  /\ outClosed
  /\ bridge' = "done"
  /\ UNCHANGED <<pipelineVars, ctxDone, collector, out, outClosed, heartbeat, main,
                 produced, abandoned, reported>>

(* range ends when out is closed and empty. *)
BridgeDone ==
  /\ bridge = "range"
  /\ bridgeG \notin uncounted
  /\ out = 0
  /\ outClosed
  /\ bridge' = "done"
  /\ UNCHANGED <<pipelineVars, ctxDone, collector, out, outClosed, heartbeat, main,
                 produced, abandoned, reported>>

HeartbeatEmit ==
  /\ heartbeat = "emit"
  /\ Ingest(heartbeatG)
  /\ heartbeat' = "select"
  /\ UNCHANGED <<ctxDone, collector, out, outClosed, bridge, main,
                 produced, abandoned, reported>>

HeartbeatCount ==
  /\ FinishIngest(heartbeatG)
  /\ UNCHANGED goVars

(* The ticker's case, possibly with ctx already done. *)
HeartbeatTick ==
  /\ heartbeat = "select"
  /\ heartbeatG \notin uncounted
  /\ produced < MaxIngest
  /\ produced' = produced + 1
  /\ heartbeat' = "emit"
  /\ UNCHANGED <<pipelineVars, ctxDone, collector, out, outClosed, bridge, main,
                 abandoned, reported>>

(* Started under the pipeline's context instead of the root's: main waits  *)
(* for the heartbeat, and the heartbeat for main.                          *)
HeartbeatWaitsForPipe ==
  /\ heartbeat = "select"
  /\ heartbeatG \notin uncounted
  /\ cancelled
  /\ heartbeat' = "done"
  /\ UNCHANGED <<pipelineVars, ctxDone, collector, out, outClosed, bridge, main,
                 produced, abandoned, reported>>

HeartbeatDone ==
  /\ heartbeat = "select"
  /\ heartbeatG \notin uncounted
  /\ ctxDone
  /\ heartbeat' = "done"
  /\ UNCHANGED <<pipelineVars, ctxDone, collector, out, outClosed, bridge, main,
                 produced, abandoned, reported>>

-----------------------------------------------------------------------------

MainCtx ==
  /\ main = "ctx"
  /\ ctxDone
  /\ main' = "bridge"
  /\ UNCHANGED <<pipelineVars, ctxDone, collector, out, outClosed, bridge, heartbeat,
                 produced, abandoned, reported>>

MainBridge ==
  /\ main = "bridge"
  /\ bridge = "done"
  /\ main' = "heartbeat"
  /\ UNCHANGED <<pipelineVars, ctxDone, collector, out, outClosed, bridge, heartbeat,
                 produced, abandoned, reported>>

(* Cancels the pipeline without waiting for the heartbeat goroutine. *)
MainCancelsEarly ==
  /\ main = "heartbeat"
  /\ Cancel
  /\ main' = "pipe"
  /\ UNCHANGED <<ctxDone, collector, out, outClosed, bridge, heartbeat,
                 produced, abandoned, reported>>

(* <-heartbeatDone; pcancel() *)
MainHeartbeat ==
  /\ main = "heartbeat"
  /\ heartbeat = "done"
  /\ Cancel
  /\ main' = "pipe"
  /\ UNCHANGED <<ctxDone, collector, out, outClosed, bridge, heartbeat,
                 produced, abandoned, reported>>

(* <-pipeDone, the shutdown line, return. *)
MainPipe ==
  /\ main = "pipe"
  /\ drain = "returned"
  /\ main' = "returned"
  /\ reported' = <<droppedOverflow, droppedWriteError>>
  /\ UNCHANGED <<pipelineVars, ctxDone, collector, out, outClosed, bridge, heartbeat,
                 produced, abandoned>>

CollectorStep(c) == Collect(c) \/ Send(c) \/ Abandon(c) \/ ReturnCollector(c)
BridgeStep == BridgeReceive \/ BridgeIngest \/ BridgeCount \/ BridgeDone
HeartbeatStep == HeartbeatEmit \/ HeartbeatCount \/ HeartbeatTick \/ HeartbeatDone
MainStep == MainCtx \/ MainBridge \/ MainHeartbeat \/ MainPipe
PipeStep == Run /\ UNCHANGED goVars

DaemonNext ==
  \/ Signal
  \/ \E c \in Collector : CollectorStep(c)
  \/ CloseOut
  \/ BridgeStep
  \/ HeartbeatStep
  \/ MainStep
  \/ PipeStep

DaemonSpec == DaemonInit /\ [][DaemonNext]_daemonVars

(* Every goroutine that can step does.  A Go select picks at random among   *)
(* its ready cases, so the ctx.Done case is not passed over for ever: that  *)
(* is strong fairness of the three steps that take it.  Nothing forces a    *)
(* signal, and nothing forces a collector to return before one.             *)
DaemonFairSpec ==
  /\ DaemonSpec
  /\ \A c \in Collector : /\ WF_daemonVars(Send(c) \/ Abandon(c))
                          /\ SF_daemonVars(ctxDone /\ ReturnCollector(c))
  /\ WF_daemonVars(CloseOut)
  /\ WF_daemonVars(BridgeStep)
  /\ WF_daemonVars(HeartbeatEmit \/ HeartbeatCount)
  /\ SF_daemonVars(HeartbeatDone)
  /\ WF_daemonVars(MainStep)
  /\ WF_daemonVars(PipeStep)
  /\ SF_daemonVars(Stop /\ UNCHANGED goVars)

-----------------------------------------------------------------------------

DaemonTypeOK ==
  /\ TypeOK
  /\ ctxDone \in BOOLEAN
  /\ collector \in [Collector -> {"select", "send", "returned"}]
  /\ out \in 0..ChanSize
  /\ outClosed \in BOOLEAN
  /\ bridge \in {"range", "ingest", "done"}
  /\ heartbeat \in {"emit", "select", "done"}
  /\ main \in {"ctx", "bridge", "heartbeat", "pipe", "returned"}
  /\ produced \in Nat
  /\ abandoned \in Nat
  /\ reported \in {NotReported} \cup (Nat \X Nat)

InHand(n) == IF n THEN 1 ELSE 0

(* Between the collectors and the ring no event disappears: each one that   *)
(* was produced is being sent, in the channel, in the bridge's or the       *)
(* heartbeat's hand, ingested, or was abandoned on shutdown.                *)
DeliveryConservation ==
  produced =   Cardinality({c \in Collector : collector[c] = "send"}) + out
             + InHand(bridge = "ingest") + InHand(heartbeat = "emit")
             + ingested + abandoned

(* The shutdown keeps its order.  "out is closed EXACTLY once, after all     *)
(* collectors return": none can be sending on the closed channel, which     *)
(* would panic the daemon.  "pcancel() // trigger the single final flush -  *)
(* nothing writes to the buffer now", and nothing is on its way to it: an   *)
(* event ingested after that flush would be in no table and no counter.     *)
ShutdownInOrder ==
  /\ outClosed => \A c \in Collector : collector[c] = "returned"
  /\ cancelled => /\ bridge = "done" /\ heartbeat = "done"
                  /\ out = 0 /\ uncounted = {}

(* run "shuts down cleanly (collector stops, every buffered event is        *)
(* flushed) before returning": however its goroutines interleave, when run  *)
(* has returned every event that was not abandoned is committed or in one of    *)
(* the two counters of the shutdown line.                                   *)
ShutdownAccountsForAll ==
  main = "returned" =>
    produced = abandoned + Len(stored) + reported[1] + reported[2]

(* No goroutine waits for ever on another: a signal always leads to the end *)
(* of run, even if the store refuses every batch and the channel is full.   *)
ShutdownCompletes == ctxDone ~> main = "returned"
=============================================================================
