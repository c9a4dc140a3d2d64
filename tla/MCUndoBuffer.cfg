\* Two tag and two transform commands; the fourth push evicts.
SPECIFICATION Spec
CONSTANTS
  tagA = tagA
  tagB = tagB
  moveA = moveA
  moveB = moveB
  Command = {tagA, tagB, moveA, moveB}
  Size <- MCSize
  MaxUndoSteps = 3
  NoCommand = NoCommand
  Garbage = Garbage
INVARIANTS
  TypeOK
  WellFormed
PROPERTIES
  ImplementsStack
