\* One click and one failure, then the page is left alone; the first process
\* may be evicted while the page shows it.  With the interval off and the
\* recorder stopped it is at rest.
SPECIFICATION FairSpec
CONSTANTS
  Proc = {1, 2}
  Born <- BothBorn
  Gone <- SoonGone
  Related = FALSE
  Hot = {2}
  Call = {c1, c2}
  MaxDetails = 2
  MaxTs = 2
  MaxClicks = 1
  MaxFails = 1
CHECK_DEADLOCK FALSE
PROPERTIES
  StaysCurrent
  StoppedShowsFrozen
