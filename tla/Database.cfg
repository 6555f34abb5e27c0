SPECIFICATION DatabaseSpec
CONSTANTS
  Saves = {a, b, c, d}
  None = None
  AutoRollback = FALSE
  Queries <- QueryTexts
  Columns <- QueryColumns
  Params <- QueryNames
  RowCount <- QueryRows
  Null = "null"
INVARIANTS
  TypeOK
  AllOrNothing
  OwnTransaction
  OutcomeTold
  NeverTerminates
  NamesOfStatement
PROPERTIES
  SavesSerial
  SavesEnd
  OwnAnswer
  ColumnsFound
