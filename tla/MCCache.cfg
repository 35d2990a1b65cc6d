\* Two threads build the cache while the recorder commits at any moment, evicts
\* and has its file replaced; requests are about now.
SPECIFICATION LoadSpec
CONSTANTS
  Thread = {t1, t2}
  Ts = {1}
  AsOf = {}
  Now = Now
  NoThread = NoThread
  MaxRows = 2
  BatchMax = 1
  MaxEvents = 3
  MaxReplace = 1
SYMMETRY ThreadSymmetry
INVARIANTS
  NoRowMissed
  Freshness
  ExactMirror
