\* Two terminals and three pids; any command at any moment, slow exits, crashes,
\* zombies and reused pids, under either service manager.
SPECIFICATION Spec
CONSTANTS
  Platform = {"launchd", "systemd"}
  Client = {a, b}
  Pid = {p, q, r}
  NoPid = NoPid
  Nobody = Nobody
SYMMETRY ServiceSymmetry
CONSTRAINT Relevant
INVARIANTS
  OneWriter
  NoOrphan
PROPERTIES
  ActsOnTheRecorder
