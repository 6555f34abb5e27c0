SPECIFICATION Spec
CONSTANTS
  None = None
  Procs = {p1, p2}
  Calls <- AnyCall
  MayFail = TRUE
  MayDie = TRUE
  PowerMayFail = TRUE
INVARIANTS
  TypeOK
  OneCreator
  RowsInOrder
  WriterFitsSize
PROPERTIES
  CompleteStays
