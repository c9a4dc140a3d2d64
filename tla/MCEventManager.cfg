\* Four listeners of two types, dispatches nested three deep. A dispatch that
\* would read through a dangling iterator is where the program stops.
SPECIFICATION Spec
CONSTANTS
  KeyDown = KeyDown
  Selected = Selected
  Type <- MCType
  MaxListeners = 4
  MaxDepth = 3
  None = None
INVARIANTS
  TypeOK
  Reclaimed
  IteratorsValid
PROPERTIES
  ImplementsPubSub
CHECK_DEADLOCK FALSE
