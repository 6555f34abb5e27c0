SPECIFICATION Spec
CONSTANTS
  Saves = {a, b}
  None = None
  AutoRollback = TRUE
INVARIANTS
  NeverTerminates
