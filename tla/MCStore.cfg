\* Caps below, at and above the batch size, and a cap of zero; enough events
\* to overflow the largest cap twice.
SPECIFICATION StoreSpec
CONSTANTS
  Caps = {0, 1, 2, 3}
  BatchMax = 3
  MaxEvents = 7
INVARIANTS
  UnbrokenNewestRows
  WithinCap
PROPERTIES
  ImplementsRowRing
