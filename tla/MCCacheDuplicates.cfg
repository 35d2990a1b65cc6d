\* A commit between MAX(seq) and the read of the rows.
SPECIFICATION LoadSpec
CONSTANTS
  Thread = {t1}
  Ts = {1}
  AsOf = {}
  Now = Now
  NoThread = NoThread
  MaxRows = 9
  BatchMax = 1
  MaxEvents = 3
  MaxReplace = 0
INVARIANT NoRowTwice
