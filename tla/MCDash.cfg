\* Two clicks and a failed request against two calls at once: any of rewind,
\* back to live, focus, select, expand, kill.  The rule's value rises, falls
\* and rises again.  With the interval off, the recorder stopped and nobody
\* clicking, the page is at rest.
SPECIFICATION Spec
CONSTANTS
  Proc = {1, 2}
  Born <- LaterBorn
  Gone <- LateGone
  Related = TRUE
  Hot = {2, 4}
  Call = {c1, c2}
  MaxDetails = 2
  MaxTs = 4
  MaxClicks = 2
  MaxFails = 1
CONSTRAINT Relevant
SYMMETRY CallSymmetry
CHECK_DEADLOCK FALSE
INVARIANTS
  InspectorShowsSelected
  SettledView
  FiresOncePerCrossing
