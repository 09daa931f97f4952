CONSTANTS
  Cap = 2
  Batch = 2
  MaxBuffer = 3
  Rows = 2
SPECIFICATION Spec
INVARIANT RowsAccounted
PROPERTY LogImplemented
PROPERTY AcceptedPosted
PROPERTY WriterEnds
CHECK_DEADLOCK FALSE
