\* Two entities, two transforms, two undo steps, one load; edits are not
\* interrupted.
SPECIFICATION Spec
CONSTANTS
  MaxID = 1
  Values = {"here", "there"}
  Default = "here"
  MaxUndoSteps = 2
  MaxLoads = 1
  Interrupts = FALSE
  None = None
CHECK_DEADLOCK FALSE
INVARIANTS
  TypeOK
  
  UndoOwnState
  EditsCovered
