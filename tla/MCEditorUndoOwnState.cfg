\* Two entities, two transforms, two undo steps, one load; edits may be
\* interrupted.
SPECIFICATION Spec
CONSTANTS
  MaxID = 1
  Values = {"here", "there"}
  Default = "here"
  MaxUndoSteps = 2
  MaxLoads = 1
  Interrupts = TRUE
  None = None
CHECK_DEADLOCK FALSE
INVARIANTS
  UndoOwnState
