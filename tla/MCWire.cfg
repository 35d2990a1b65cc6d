CONSTANTS
  Null = Null
  Zero = Zero
  One = One
  NoItems = NoItems
  Items = Items
  Unreadable = Unreadable
  Plain = {Null, Zero, NoItems}
  BaseSchema <- MCBaseSchema
  Additions <- MCAdditions
  MaxEdits = 2
  MaxRows = 1
SPECIFICATION Spec
INVARIANTS
  ReadsOlderRecordings
  SameJson
  NothingLost
