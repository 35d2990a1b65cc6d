\* Every spawn relation of four processes, cyclic ones too, every culprit and
\* every cap; caps of one on the children and siblings, so that a pair is cut.
\* A request ends: nothing follows the payload.
SPECIFICATION FairSpec
CONSTANTS
  N = 4
  F = 1
  ChildCap = 1
  WideCap = 2
  SibCap = 1
  Acyclic = FALSE
  Modes = {"core", "family", "expand", "all", "tree"}
CHECK_DEADLOCK FALSE
INVARIANTS
  HangsTogether
  TreeIsNested
  ExactOrTruncated
PROPERTY
  Terminates
