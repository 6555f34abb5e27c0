SPECIFICATION Spec
CONSTANTS
  None = None
  Procs = {p1, p2}
  Calls <- Writer
  MayFail = FALSE
  MayDie = FALSE
  PowerMayFail = FALSE
INVARIANTS
  CreatesFiles
