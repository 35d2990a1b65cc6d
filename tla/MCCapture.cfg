\* Three processes on two pids, of which one is sampled; a recorder stopped and
\* started, and a file changed, anywhere among four ticks, in the middle of one
\* too.  The bounds on processes and ticks end the run.
SPECIFICATION Spec
CONSTANTS
  MaxPid = 3
  Pid = {2, 3}
  Busy = {2}
  ScanMayFail = TRUE
  Evicting = TRUE
  MaxForks = 3
  MaxScans = 4
  Window = 2
  ConfidentDt = 1
  ShortLife = 3
CONSTRAINT Relevant
CHECK_DEADLOCK FALSE
INVARIANTS
  TrueParent
  LatestIsLive
  LifetimesAreTrue
  SpikesAgree
  CrashLoopsAreReal
  RewindAgrees
PROPERTY
  ReportedOnce
