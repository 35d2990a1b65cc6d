\* Two threads, views of now and of two timeline positions, reads that may
\* fail, and one request of every other kind; a pid that may be reused.
SPECIFICATION FairApiSpec
CONSTANTS
  Thread = {t1, t2}
  Ts = {2}
  AsOf = {1, 2}
  Now = Now
  NoThread = NoThread
  NoCall = NoCall
  Calls <- MCCalls
  MaxRows = 9
  BatchMax = 1
  MaxEvents = 1
  MaxReplace = 0
INVARIANTS
  AnswerIsInThePast
  AbsentMeansAbsent
PROPERTIES
  EveryRequestAnswered
