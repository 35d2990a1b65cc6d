----------------------------- MODULE PollCadence -----------------------------
(***************************************************************************)
(* daemon/internal/collector/generic/poll.go: how long the poller waits    *)
(* between two diffs.  nextInterval is called after every diff tick with    *)
(* the number of events it found.                                           *)
(*                                                                         *)
(* A time.Duration has 64 bits; here it has Bits, so that doubling can wrap *)
(* around within the values TLC tries.                                      *)
(***************************************************************************)
EXTENDS Integers

CONSTANTS
  Bits,          \* width of a Duration
  Configured,    \* the durations a flag may be set to; 0 is "unset"
  SampleIntervals,  \* what SampleInterval may be set to
  churnBurst,    \* events of one tick that make a burst
  backoffQuiet,  \* ticks without a burst before the interval grows
  MaxTicks       \* bound: ticks without a burst that are counted

ASSUME PollCadenceAssumption ==
  /\ Bits \in Nat \ {0}
  /\ Configured \subseteq Nat /\ SampleIntervals \subseteq Nat \ {0}
  /\ {churnBurst, backoffQuiet} \subseteq Nat \ {0}
  /\ MaxTicks \in Nat

VARIABLES
  pollMin, pollMax, sampleInterval,  \* the flags
  interval, quiet,
  calm,   \* history: ticks since the last burst, up to MaxTicks
  burst   \* history: there has been a burst

flags == <<pollMin, pollMax, sampleInterval>>
cadence == <<flags, interval, quiet, calm, burst>>

(* The powers of two. *)
TwoTo[n \in 0..(Bits + MaxTicks)] == IF n = 0 THEN 1 ELSE 2 * TwoTo[n - 1]

(* The value of a signed Bits-bit sum. *)
Wrap(x) == ((x + TwoTo[Bits - 1]) % TwoTo[Bits]) - TwoTo[Bits - 1]

(* pollBounds *)
max == IF pollMax <= 0 THEN sampleInterval ELSE pollMax

(* An unset PollMin stays 0. *)
minUnset == IF pollMin >= max THEN max ELSE pollMin

min == IF pollMin <= 0 \/ pollMin >= max THEN max ELSE pollMin

CadenceInit ==
  /\ pollMin \in Configured /\ pollMax \in Configured /\ sampleInterval \in SampleIntervals
  /\ interval = max /\ quiet = 0
  /\ calm = 0 /\ burst = FALSE

Capped(x) == IF x > max THEN max ELSE x

(* Enough ticks without a burst: the interval doubles, up to max. *)
BackOff ==
  \/ /\ quiet + 1 >= backoffQuiet
     /\ interval' = Capped(Wrap(2 * interval))
     /\ quiet' = 0
  \/ /\ quiet + 1 < backoffQuiet
     /\ quiet' = quiet + 1
     /\ UNCHANGED interval

(* One call of nextInterval. *)
NextInterval(churn) ==
  \/ /\ churn >= churnBurst
     /\ interval' = min /\ quiet' = 0
     /\ calm' = 0 /\ burst' = TRUE
  \/ /\ churn < churnBurst
     /\ BackOff
     /\ calm' = IF calm < MaxTicks THEN calm + 1 ELSE calm
     /\ UNCHANGED burst

Tick == \E churn \in 0..churnBurst : NextInterval(churn) /\ UNCHANGED flags

CadenceNext == Tick

CadenceSpec == CadenceInit /\ [][CadenceNext]_cadence

-----------------------------------------------------------------------------

(* The interval is a possible wait, positive and in [PollMin, PollMax], for *)
(* every pair of flags; and from the first burst on where it stands follows *)
(* from the ticks since the last one alone: every backoffQuiet of them      *)
(* double it, and max is never passed.                                      *)
BacksOffByTheBook ==
  /\ interval \in min..max /\ interval > 0
  /\ quiet \in 0..(backoffQuiet - 1)
  /\ burst /\ calm < MaxTicks => interval = Capped(min * TwoTo[calm \div backoffQuiet])
=============================================================================
