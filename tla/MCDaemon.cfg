\* The channel and the ring both overflow, and the ring wraps; the file watcher
\* may fail early.  After the shutdown nothing runs.
SPECIFICATION DaemonFairSpec
CONSTANTS
  Collector = {poller, filewatch}
  Fallible = {filewatch}
  bridgeG = bridgeG
  heartbeatG = heartbeatG
  Ingester = {bridgeG, heartbeatG}
  ChanSize = 1
  BufferSize = 3
  BatchSize = 2
  MaxIngest = 5
CHECK_DEADLOCK FALSE
INVARIANTS
  Conservation
  FlushedOnReturn
  DeliveryConservation
  ShutdownInOrder
  ShutdownAccountsForAll
PROPERTIES
  BufferedEventLeaves
  ShutdownCompletes
  ImplementsDropOldestQueue
