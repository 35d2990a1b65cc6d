\* Every pair of bounds up to 24 units, also unset and crossed; 24 doubles to
\* 48, which six bits hold as -16 and seven as 48.
SPECIFICATION CadenceSpec
CONSTANTS
  Bits = 7
  Configured = {0, 1, 2, 3, 5, 8, 24}
  SampleIntervals = {1, 4, 24}
  churnBurst = 3
  backoffQuiet = 3
  MaxTicks = 20
INVARIANTS
  BacksOffByTheBook
