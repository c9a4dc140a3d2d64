\* Two entities, two transforms, two undo steps, no load; edits are not
\* interrupted.
SPECIFICATION Spec
CONSTANTS
  MaxID = 1
  Values = {"here", "there"}
  Default = "here"
  MaxUndoSteps = 2
  MaxLoads = 0
  Interrupts = FALSE
  None = None
CHECK_DEADLOCK FALSE
INVARIANTS
  GetAssertions
